-------------------------------- MODULE Waiting --------------------------------
(*****************************************************************************)
(* Everything a thread can wait in and be woken from: monitors               *)
(* (hythread_monitor_wait), hythread_park, hythread_sleep, and the three     *)
(* ways in from outside, notification, unparking and interruption, with      *)
(* Thread.stop on top (hythread_set_thread_stop_callback).  All waits go     *)
(* through condvar_wait_impl.  A section under the mutex of a monitor or of  *)
(* a thread is one step; the mutex of a monitor is a variable, because it is *)
(* held across several steps and released by the condition variable.         *)
(* Suspension is SafeSuspend; here a thread may always be delayed.           *)
(*****************************************************************************)
EXTENDS Integers, FiniteSets

CONSTANTS
    Threads,         \* the Java threads
    Objects,         \* the fat monitors of objects
    Targets,         \* the threads that others unpark, interrupt and stop
    Scenarios,       \* which operations each thread makes: functions on Threads
    NoThread, NoMonitor,
    MaxRecursion,    \* bound: nested entries of a monitor
    MaxInterrupters, \* bound: hythread_interrupter threads alive per monitor
    MaxCalls,        \* bound: operations a thread begins, and its spurious wake-ups
    RequestModulus   \* request is an unsigned integer of this many values

\* Every thread has a monitor of its own, in which it parks and sleeps.
Monitors == Objects \cup Threads

Operations == {"enter", "wait", "native_wait", "notify", "notify_all", "park", "sleep",
               "unpark", "interrupt", "stop"}

ASSUME BoundsAssumption ==
    /\ MaxRecursion \in Nat /\ MaxInterrupters \in Nat \ {0} /\ RequestModulus \in Nat \ {0, 1}
    /\ Scenarios \subseteq [Threads -> SUBSET Operations]
ASSUME NamesAssumption ==
    /\ IsFiniteSet(Threads) /\ Targets \subseteq Threads /\ Objects \cap Threads = {}
    /\ NoThread \notin Threads /\ NoMonitor \notin Monitors

VARIABLES
    role,            \* the operations of each thread, never changed
    calls,           \* what each thread has used of MaxCalls
    mutex, owner, recursion_count, wait_count, notify_count,   \* HyThreadMonitor
    cond,            \* the threads asleep on the condition of each monitor
    interrupters,    \* running hythread_interrupter threads per monitor
    interrupted, waited_monitor, state, request, safepoint_callback,  \* HyThread
    pc, call, mon, timed, status, saved_recursion,  \* locals of a waiting thread
    target, ret,     \* locals of a thread that wakes another one
    permit           \* history: unparked since the last return from hythread_park

monitor_vars == <<owner, recursion_count, wait_count, notify_count>>
thread_vars == <<interrupted, waited_monitor, state>>
stop_vars == <<request, safepoint_callback>>
local_vars == <<call, mon, timed, status, saved_recursion>>
vars == <<role, calls, mutex, monitor_vars, cond, interrupters, thread_vars, stop_vars, pc,
          local_vars, target, ret, permit>>

Init ==
    /\ role \in Scenarios /\ calls = [t \in Threads |-> 0]
    /\ mutex = [m \in Monitors |-> NoThread] /\ owner = [m \in Monitors |-> NoThread]
    /\ recursion_count = [m \in Monitors |-> 0]
    /\ wait_count = [m \in Monitors |-> 0] /\ notify_count = [m \in Monitors |-> 0]
    /\ cond = [m \in Monitors |-> {}] /\ interrupters = [m \in Monitors |-> 0]
    /\ interrupted = [t \in Threads |-> FALSE]
    /\ waited_monitor = [t \in Threads |-> NoMonitor]
    /\ state = [t \in Threads |-> {}]
    /\ request = [t \in Threads |-> 0] /\ safepoint_callback = [t \in Threads |-> FALSE]
    /\ pc = [t \in Threads |-> "run"] /\ call = [t \in Threads |-> "none"]
    /\ mon = [t \in Threads |-> NoMonitor] /\ timed = [t \in Threads |-> FALSE]
    /\ status = [t \in Threads |-> "NONE"] /\ saved_recursion = [t \in Threads |-> 0]
    /\ target = [t \in Threads |-> t] /\ ret = [t \in Threads |-> "run"]
    /\ permit = [t \in Threads |-> FALSE]

Goto(t, label) == pc' = [pc EXCEPT ![t] = label]
Does(t, op) ==
    /\ pc[t] = "run" /\ op \in role[t] /\ calls[t] < MaxCalls
    /\ calls' = [calls EXCEPT ![t] = @ + 1]
Free(m) == mutex[m] = NoThread
Lock(t, m) == Free(m) /\ mutex' = [mutex EXCEPT ![m] = t]
Unlock(t, m) == mutex' = [mutex EXCEPT ![m] = NoThread]
Interruptable(t) == call[t] # "native_wait"

\* The sleepers in woken leave the condition of m; they still need the mutex.
Wake(m, woken) ==
    /\ cond' = [cond EXCEPT ![m] = @ \ woken]
    /\ pc' = [t \in Threads |-> IF t \in woken THEN "cv_woken" ELSE pc[t]]

-------------------------------------------------------------------------------
(* hythread_monitor_enter, _exit, _notify and _notify_all *)

monitor_enter(t, m) ==
    /\ Does(t, "enter")
    /\ \/ /\ owner[m] # t /\ Lock(t, m)
          /\ owner' = [owner EXCEPT ![m] = t]
          /\ UNCHANGED recursion_count
       \/ /\ owner[m] = t /\ recursion_count[m] < MaxRecursion
          /\ recursion_count' = [recursion_count EXCEPT ![m] = @ + 1]
          /\ UNCHANGED <<owner, mutex>>
    /\ UNCHANGED <<role, wait_count, notify_count, cond, interrupters, thread_vars, stop_vars,
                   pc, local_vars, target, ret, permit>>

monitor_exit(t, m) ==
    /\ pc[t] = "run" /\ owner[m] = t
    /\ IF recursion_count[m] = 0
       THEN /\ Unlock(t, m) /\ owner' = [owner EXCEPT ![m] = NoThread]
            /\ UNCHANGED recursion_count
       ELSE /\ recursion_count' = [recursion_count EXCEPT ![m] = @ - 1]
            /\ UNCHANGED <<owner, mutex>>
    /\ UNCHANGED <<role, calls, wait_count, notify_count, cond, interrupters, thread_vars, stop_vars,
                   pc, local_vars, target, ret, permit>>

\* pthread_cond_signal wakes one of the sleepers, if there is one.
monitor_notify(t, m) ==
    /\ Does(t, "notify") /\ owner[m] = t
    /\ notify_count' = [notify_count EXCEPT ![m] = IF @ < wait_count[m] THEN @ + 1 ELSE @]
    /\ IF cond[m] = {} THEN Wake(m, {}) ELSE \E u \in cond[m] : Wake(m, {u})
    /\ UNCHANGED <<role, mutex, owner, recursion_count, wait_count, interrupters, thread_vars,
                   stop_vars, local_vars, target, ret, permit>>

\* The threads inside hythread_monitor_wait on m.
Waiters(m) == {t \in Threads : mon[t] = m /\ pc[t] \in {"cv_check", "cv_sleep", "cv_asleep",
                                                        "cv_woken", "leave"}}

monitor_notify_all(t, m) ==
    /\ Does(t, "notify_all") /\ owner[m] = t
    /\ notify_count' = [notify_count EXCEPT ![m] = wait_count[m]]
    /\ Wake(m, cond[m])
    /\ UNCHANGED <<role, mutex, owner, recursion_count, wait_count, interrupters, thread_vars,
                   stop_vars, local_vars, target, ret, permit>>

-------------------------------------------------------------------------------
(* The three waits up to condvar_wait_impl *)

\* All three count themselves in the monitor with its mutex held and say where they wait.
Begin(t, c, m, bits) ==
    /\ call' = [call EXCEPT ![t] = c] /\ mon' = [mon EXCEPT ![t] = m]
    /\ status' = [status EXCEPT ![t] = "NONE"]
    /\ wait_count' = [wait_count EXCEPT ![m] = @ + 1]
    /\ waited_monitor' = [waited_monitor EXCEPT ![t] = m]
    /\ state' = [state EXCEPT ![t] = @ \cup bits]

\* monitor_wait_impl: the owner gives up ownership but not yet the mutex.
monitor_wait(t, m) ==
    /\ owner[m] = t
    /\ \E c \in {"wait", "native_wait"} : Does(t, c) /\ Begin(t, c, m, {"IN_MONITOR_WAIT"})
    /\ \E b \in BOOLEAN : timed' = [timed EXCEPT ![t] = b]
    /\ saved_recursion' = [saved_recursion EXCEPT ![t] = recursion_count[m]]
    /\ owner' = [owner EXCEPT ![m] = NoThread]
    /\ recursion_count' = [recursion_count EXCEPT ![m] = 0]
    /\ Goto(t, "cv_check")
    /\ UNCHANGED <<role, mutex, notify_count, cond, interrupters, interrupted, stop_vars,
                   target, ret, permit>>

hythread_park(t) ==
    /\ Does(t, "park") /\ Lock(t, t)
    /\ Begin(t, "park", t, IF "UNPARKED" \in state[t] THEN {} ELSE {"PARKED"})
    /\ \E b \in BOOLEAN : timed' = [timed EXCEPT ![t] = b]
    /\ Goto(t, IF "UNPARKED" \in state[t] THEN "leave" ELSE "cv_check")
    /\ UNCHANGED <<role, owner, recursion_count, notify_count, cond, interrupters, interrupted,
                   stop_vars, saved_recursion, target, ret, permit>>

thread_sleep(t) ==
    /\ Does(t, "sleep") /\ Lock(t, t)
    /\ Begin(t, "sleep", t, {"SLEEPING"})
    /\ timed' = [timed EXCEPT ![t] = TRUE]
    /\ Goto(t, "cv_check")
    /\ UNCHANGED <<role, owner, recursion_count, notify_count, cond, interrupters, interrupted,
                   stop_vars, saved_recursion, target, ret, permit>>

-------------------------------------------------------------------------------
(* condvar_wait_impl *)

Outcome(t, s) == status' = [status EXCEPT ![t] = s]

\* An interrupt that came before is taken at once.
condvar_check(t) ==
    /\ pc[t] = "cv_check"
    /\ IF Interruptable(t) /\ interrupted[t]
       THEN /\ interrupted' = [interrupted EXCEPT ![t] = FALSE]
            /\ Outcome(t, "INTERRUPT") /\ Goto(t, "leave")
       ELSE Goto(t, "cv_sleep") /\ UNCHANGED <<interrupted, status>>
    /\ UNCHANGED <<role, calls, mutex, monitor_vars, cond, interrupters, waited_monitor, state,
                   stop_vars, call, mon, timed, saved_recursion, target, ret, permit>>

\* pthread_cond_wait releases the mutex and goes to sleep in one step.
condvar_sleep(t) ==
    /\ pc[t] = "cv_sleep"
    /\ Unlock(t, mon[t])
    /\ cond' = [cond EXCEPT ![mon[t]] = @ \cup {t}]
    /\ Goto(t, "cv_asleep")
    /\ UNCHANGED <<role, calls, monitor_vars, interrupters, thread_vars, stop_vars, local_vars,
                   target, ret, permit>>

condvar_timeout(t) ==
    /\ pc[t] = "cv_asleep" /\ timed[t]
    /\ Wake(mon[t], {t}) /\ Outcome(t, "TIMEOUT")
    /\ UNCHANGED <<role, calls, mutex, monitor_vars, interrupters, thread_vars, stop_vars, call, mon,
                   timed, saved_recursion, target, ret, permit>>

\* pthread_cond_wait may return for no reason.
condvar_spurious(t) ==
    /\ pc[t] = "cv_asleep" /\ Wake(mon[t], {t})
    /\ calls[t] < MaxCalls /\ calls' = [calls EXCEPT ![t] = @ + 1]
    /\ UNCHANGED <<role, mutex, monitor_vars, interrupters, thread_vars, stop_vars, local_vars,
                   target, ret, permit>>

\* Back with the mutex: an interrupt outweighs everything else.  Then the loops of the
\* callers: a monitor wait goes on while there is no notification, a sleep until its time
\* is over.  Whoever has a timeout may find on the clock that it is over.
condvar_wake(t) ==
    /\ pc[t] = "cv_woken" /\ Lock(t, mon[t])
    /\ LET hit == Interruptable(t) /\ interrupted[t]
           s == IF hit THEN "INTERRUPT" ELSE status[t]
           out == \/ s # "NONE" \/ call[t] = "park"
                  \/ call[t] \in {"wait", "native_wait"} /\ notify_count[mon[t]] > 0
       IN  /\ interrupted' = [interrupted EXCEPT ![t] = @ /\ ~hit]
           /\ \/ out /\ Outcome(t, s) /\ Goto(t, "leave")
              \/ ~out /\ Outcome(t, s) /\ Goto(t, "cv_check")
              \/ ~out /\ timed[t] /\ Outcome(t, "TIMEOUT") /\ Goto(t, "leave")
    /\ UNCHANGED <<role, calls, monitor_vars, cond, interrupters, waited_monitor, state, stop_vars,
                   call, mon, timed, saved_recursion, target, ret, permit>>

-------------------------------------------------------------------------------
(* The way out *)

\* A plausible bug: the request of the callback is not taken back.
RunCallback_kept(t) ==
    /\ safepoint_callback' = [safepoint_callback EXCEPT ![t] = FALSE]
    /\ UNCHANGED request

\* hythread_exception_safe_point: the callback runs once, and its request is taken back.
RunCallback(t) ==
    /\ safepoint_callback' = [safepoint_callback EXCEPT ![t] = FALSE]
    /\ request' = [request EXCEPT ![t] = (@ + RequestModulus - 1) % RequestModulus]

PassCallback(t) == IF safepoint_callback[t] THEN RunCallback(t) ELSE UNCHANGED stop_vars

NotWaiting(t, bits) ==
    /\ state' = [state EXCEPT ![t] = @ \ bits]
    /\ waited_monitor' = [waited_monitor EXCEPT ![t] = NoMonitor]
    /\ wait_count' = [wait_count EXCEPT ![mon[t]] = @ - 1]

\* A plausible bug: whoever times out or is interrupted leaves the notification behind.
Consumes_normal(t) == notify_count[mon[t]] > 0 /\ status[t] = "NONE"

\* The notification is used up by a normal return, or by whoever is the last that could.
Consumes(t) ==
    /\ notify_count[mon[t]] > 0
    /\ status[t] = "NONE" \/ notify_count[mon[t]] = wait_count[mon[t]]

\* The locals of a wait end with it.
Return(t) ==
    /\ Goto(t, "run")
    /\ call' = [call EXCEPT ![t] = "none"] /\ mon' = [mon EXCEPT ![t] = NoMonitor]
    /\ timed' = [timed EXCEPT ![t] = FALSE] /\ status' = [status EXCEPT ![t] = "NONE"]
    /\ saved_recursion' = [saved_recursion EXCEPT ![t] = 0]

Regain(t) ==
    /\ recursion_count' = [recursion_count EXCEPT ![mon[t]] = saved_recursion[t]]
    /\ owner' = [owner EXCEPT ![mon[t]] = t]
    /\ Return(t)

\* With a request pending, possibly one of suspension, the mutex is given up once more.
monitor_wait_leave(t) ==
    /\ pc[t] = "leave" /\ call[t] \in {"wait", "native_wait"}
    /\ notify_count' = [notify_count EXCEPT ![mon[t]] = IF Consumes(t) THEN @ - 1 ELSE @]
    /\ NotWaiting(t, {"IN_MONITOR_WAIT"})
    /\ \/ request[t] = 0 /\ Regain(t) /\ UNCHANGED mutex
       \/ Unlock(t, mon[t]) /\ Goto(t, "poll") /\ UNCHANGED <<recursion_count, owner, local_vars>>
    /\ UNCHANGED <<role, calls, cond, interrupters, interrupted, stop_vars, target, ret, permit>>

\* The safe points come before the mutex is taken again.
monitor_wait_poll(t) ==
    /\ pc[t] = "poll" /\ PassCallback(t) /\ Goto(t, "relock")
    /\ UNCHANGED <<role, calls, mutex, monitor_vars, cond, interrupters, thread_vars, local_vars,
                   target, ret, permit>>

\* A plausible bug: the mutex is not taken again.
monitor_wait_relock_free(t) ==
    /\ pc[t] = "relock"
    /\ Regain(t)
    /\ UNCHANGED <<role, calls, mutex, wait_count, notify_count, cond, interrupters,
                   thread_vars, stop_vars, target, ret, permit>>

monitor_wait_relock(t) ==
    /\ pc[t] = "relock" /\ Lock(t, mon[t])
    /\ Regain(t)
    /\ UNCHANGED <<role, calls, wait_count, notify_count, cond, interrupters, thread_vars,
                   stop_vars, target, ret, permit>>

\* hythread_park and hythread_sleep release their monitor before the safe points.
park_leave(t) ==
    /\ pc[t] = "leave" /\ call[t] \in {"park", "sleep"}
    /\ NotWaiting(t, IF call[t] = "park" THEN {"PARKED", "UNPARKED"} ELSE {"SLEEPING"})
    /\ permit' = [permit EXCEPT ![t] = @ /\ call[t] # "park"]
    /\ Unlock(t, mon[t]) /\ Goto(t, "left")
    /\ UNCHANGED <<role, calls, owner, recursion_count, notify_count, cond, interrupters, interrupted,
                   stop_vars, local_vars, target, ret>>

\* A parked thread keeps its interrupt.
park_return(t) ==
    /\ pc[t] = "left" /\ PassCallback(t)
    /\ interrupted' = [interrupted EXCEPT ![t] = @ \/ (call[t] = "park" /\ status[t] = "INTERRUPT")]
    /\ Return(t)
    /\ UNCHANGED <<role, calls, mutex, monitor_vars, cond, interrupters, waited_monitor, state, target,
                   ret, permit>>

\* A running thread passes exception safe points of its own.
exception_safe_point(t) ==
    /\ pc[t] = "run" /\ safepoint_callback[t] /\ RunCallback(t)
    /\ UNCHANGED <<role, calls, mutex, monitor_vars, cond, interrupters, thread_vars, pc, local_vars,
                   target, ret, permit>>

-------------------------------------------------------------------------------
(* hythread_unpark, hythread_interrupt, hythread_set_thread_stop_callback *)

\* A plausible bug: an unpark that finds nobody parked is forgotten.
hythread_unpark_lost(u, t) ==
    /\ Does(u, "unpark")
    /\ permit' = [permit EXCEPT ![t] = TRUE]
    /\ IF "PARKED" \in state[t]
       THEN /\ state' = [state EXCEPT ![t] = @ \ {"PARKED"}]
            /\ target' = [target EXCEPT ![u] = t] /\ Goto(u, "up_notify")
       ELSE UNCHANGED <<state, target, pc>>
    /\ UNCHANGED <<role, mutex, monitor_vars, cond, interrupters, interrupted, waited_monitor,
                   stop_vars, local_vars, ret>>

hythread_unpark(u, t) ==
    /\ Does(u, "unpark")
    /\ permit' = [permit EXCEPT ![t] = TRUE]
    /\ IF "PARKED" \in state[t]
       THEN /\ state' = [state EXCEPT ![t] = @ \ {"PARKED"}]
            /\ target' = [target EXCEPT ![u] = t] /\ Goto(u, "up_notify")
       ELSE state' = [state EXCEPT ![t] = @ \cup {"UNPARKED"}] /\ UNCHANGED <<target, pc>>
    /\ UNCHANGED <<role, mutex, monitor_vars, cond, interrupters, interrupted, waited_monitor,
                   stop_vars, local_vars, ret>>

\* The monitor was read under the mutex of the thread: the only one a thread parks in.
unpark_notify(u) ==
    /\ pc[u] = "up_notify" /\ Free(target[u])
    /\ cond' = [cond EXCEPT ![target[u]] = {}]
    /\ pc' = [t \in Threads |-> IF t = u THEN "run"
                                ELSE IF t \in cond[target[u]] THEN "cv_woken" ELSE pc[t]]
    /\ UNCHANGED <<role, calls, mutex, monitor_vars, interrupters, thread_vars, stop_vars, local_vars,
                   target, ret, permit>>

hythread_interrupt(u, t) ==
    /\ Does(u, "interrupt") /\ t # u
    /\ target' = [target EXCEPT ![u] = t]
    /\ ret' = [ret EXCEPT ![u] = "run"]
    /\ Goto(u, "it_set")
    /\ UNCHANGED <<role, mutex, monitor_vars, cond, interrupters, thread_vars, stop_vars,
                   local_vars, permit>>

\* A plausible bug: whoever is woken finds no reason to leave.
interrupt_set_missing(u) ==
    /\ pc[u] = "it_set" /\ Goto(u, "it_read")
    /\ UNCHANGED <<role, calls, mutex, monitor_vars, cond, interrupters, thread_vars,
                   stop_vars, local_vars, target, ret, permit>>

interrupt_set(u) ==
    /\ pc[u] = "it_set"
    /\ interrupted' = [interrupted EXCEPT ![target[u]] = TRUE]
    /\ Goto(u, "it_read")
    /\ UNCHANGED <<role, calls, mutex, monitor_vars, cond, interrupters, waited_monitor, state,
                   stop_vars, local_vars, target, ret, permit>>

interrupt_read(u) ==
    /\ pc[u] = "it_read"
    /\ mon' = [mon EXCEPT ![u] = waited_monitor[target[u]]]
    /\ Goto(u, IF waited_monitor[target[u]] = NoMonitor THEN ret[u] ELSE "it_try")
    /\ UNCHANGED <<role, calls, mutex, monitor_vars, cond, interrupters, thread_vars, stop_vars, call,
                   timed, status, saved_recursion, target, ret, permit>>

\* A plausible bug: a monitor that is busy is left alone.
interrupt_try_once(u) ==
    /\ pc[u] = "it_try"
    /\ IF Free(mon[u]) \/ owner[mon[u]] = u
       THEN /\ cond' = [cond EXCEPT ![mon[u]] = {}]
            /\ pc' = [t \in Threads |-> IF t = u THEN ret[u]
                                        ELSE IF t \in cond[mon[u]] THEN "cv_woken" ELSE pc[t]]
       ELSE Goto(u, ret[u]) /\ UNCHANGED cond
    /\ mon' = [mon EXCEPT ![u] = NoMonitor]
    /\ UNCHANGED <<role, calls, mutex, monitor_vars, interrupters, thread_vars, stop_vars, call,
                   timed, status, saved_recursion, target, ret, permit>>

\* Enters the monitor, wakes everybody and exits; or has a thread do so that can block.
interrupt_try(u) ==
    /\ pc[u] = "it_try"
    /\ IF Free(mon[u]) \/ owner[mon[u]] = u
       THEN /\ cond' = [cond EXCEPT ![mon[u]] = {}]
            /\ pc' = [t \in Threads |-> IF t = u THEN ret[u]
                                        ELSE IF t \in cond[mon[u]] THEN "cv_woken" ELSE pc[t]]
            /\ UNCHANGED interrupters
       ELSE /\ interrupters[mon[u]] < MaxInterrupters
            /\ interrupters' = [interrupters EXCEPT ![mon[u]] = @ + 1]
            /\ Goto(u, ret[u]) /\ UNCHANGED cond
    /\ mon' = [mon EXCEPT ![u] = NoMonitor]
    /\ UNCHANGED <<role, calls, mutex, monitor_vars, thread_vars, stop_vars, call, timed, status,
                   saved_recursion, target, ret, permit>>

hythread_interrupter(m) ==
    /\ interrupters[m] > 0 /\ Free(m)
    /\ interrupters' = [interrupters EXCEPT ![m] = @ - 1]
    /\ Wake(m, cond[m])
    /\ UNCHANGED <<role, calls, mutex, monitor_vars, thread_vars, stop_vars, local_vars, target, ret,
                   permit>>

\* hythread_set_safepoint_callback: the slot is taken by compare-and-swap ...
set_callback(u, t) ==
    /\ Does(u, "stop") /\ ~safepoint_callback[t]
    /\ safepoint_callback' = [safepoint_callback EXCEPT ![t] = TRUE]
    /\ target' = [target EXCEPT ![u] = t]
    /\ Goto(u, "cb_request")
    /\ UNCHANGED <<role, mutex, monitor_vars, cond, interrupters, thread_vars, request,
                   local_vars, ret, permit>>

\* ... and only then requested; a thread that stops itself runs it at once.
callback_request(u) ==
    /\ pc[u] = "cb_request"
    /\ IF target[u] = u
       THEN /\ safepoint_callback' = [safepoint_callback EXCEPT ![u] = FALSE]
            /\ UNCHANGED request
       ELSE /\ request' = [request EXCEPT ![target[u]] = (@ + 1) % RequestModulus]
            /\ UNCHANGED safepoint_callback
    /\ Goto(u, IF target[u] = u THEN "st_state" ELSE "cb_waits")
    /\ UNCHANGED <<role, calls, mutex, monitor_vars, cond, interrupters, thread_vars, local_vars,
                   target, ret, permit>>

callback_waits(u) ==
    /\ pc[u] = "cb_waits"
    /\ ret' = [ret EXCEPT ![u] = "st_state"]
    /\ Goto(u, IF waited_monitor[target[u]] # NoMonitor THEN "it_set" ELSE "st_state")
    /\ UNCHANGED <<role, calls, mutex, monitor_vars, cond, interrupters, thread_vars, stop_vars,
                   local_vars, target, permit>>

\* The threads of this module are not suspended (suspend_count is 0), so the loop that takes
\* their suspensions back has nothing to do.  Whoever waits is interrupted.
stop_state(u) ==
    /\ pc[u] = "st_state"
    /\ ret' = [ret EXCEPT ![u] = "run"]
    /\ Goto(u, IF state[target[u]] \cap {"SLEEPING", "IN_MONITOR_WAIT", "PARKED"} # {}
               THEN "it_set" ELSE "run")
    /\ UNCHANGED <<role, calls, mutex, monitor_vars, cond, interrupters, thread_vars, stop_vars,
                   local_vars, target, permit>>

-------------------------------------------------------------------------------
(* Specification *)

WaitStep(t) ==
    \/ condvar_check(t) \/ condvar_sleep(t) \/ condvar_wake(t)
    \/ monitor_wait_leave(t) \/ monitor_wait_poll(t) \/ monitor_wait_relock(t)
    \/ park_leave(t) \/ park_return(t)

WakeStep(u) ==
    \/ unpark_notify(u) \/ interrupt_set(u) \/ interrupt_read(u) \/ interrupt_try(u)
    \/ callback_request(u) \/ callback_waits(u) \/ stop_state(u)

Next ==
    \/ \E t \in Threads, m \in Objects :
          \/ monitor_enter(t, m) \/ monitor_exit(t, m) \/ monitor_notify(t, m)
          \/ monitor_notify_all(t, m) \/ monitor_wait(t, m)
    \/ \E t \in Threads :
          \/ hythread_park(t) \/ thread_sleep(t) \/ condvar_timeout(t) \/ condvar_spurious(t)
          \/ exception_safe_point(t) \/ WaitStep(t) \/ WakeStep(t)
    \/ \E u \in Threads, t \in Targets : hythread_unpark(u, t) \/ hythread_interrupt(u, t) \/ set_callback(u, t)
    \/ \E m \in Monitors : hythread_interrupter(m)

Spec == Init /\ [][Next]_vars

\* What a thread has begun it goes on with, monitors it has entered it leaves, and running
\* code passes exception safe points.
Progress(t) ==
    \/ WaitStep(t) \/ WakeStep(t) \/ exception_safe_point(t)
    \/ \E m \in Objects : monitor_exit(t, m)

\* The OS runs every thread.  Nobody has to notify, unpark, interrupt or wait.
Fairness ==
    /\ \A t \in Threads : WF_vars(Progress(t))
    /\ WF_vars(\E m \in Monitors : hythread_interrupter(m))

FairSpec == Spec /\ Fairness

-------------------------------------------------------------------------------
(* Properties *)

\* A thread owns the monitor whose mutex it holds: it has the mutex again, and its old nesting,
\* whichever way it comes back from hythread_monitor_wait, and lets it go only by sleeping.
OwnerHoldsMutex ==
    /\ \A m \in Monitors : owner[m] # NoThread => mutex[m] = owner[m]
    /\ \A t \in Threads : pc[t] \in {"cv_check", "cv_sleep", "leave"} =>
          mutex[mon[t]] = t /\ owner[mon[t]] = NoThread

\* wait_count is the number of threads inside a wait, and notifications never outnumber
\* them, whatever mixture of notifications, timeouts and interrupts ends the waits; at the
\* head of the waiting loops one more waiter than notifications (the asserts of
\* monitor_wait_impl and thread_sleep_impl).
NotificationsBounded ==
    /\ \A m \in Monitors : /\ wait_count[m] = Cardinality(Waiters(m))
                           /\ notify_count[m] <= wait_count[m]
    /\ \A t \in Threads : pc[t] = "cv_check" => notify_count[mon[t]] < wait_count[mon[t]]

\* request counts the callbacks that are set and not yet run, corrected by the setters that
\* have taken the slot but not requested yet.  It may be below zero in between.
RequestAgrees ==
    \A t \in Threads :
        LET setters == {u \in Threads \ {t} : pc[u] = "cb_request" /\ target[u] = t}
            own == pc[t] = "cb_request" /\ target[t] = t
        IN  (request[t] + Cardinality(setters)) % RequestModulus
               = IF safepoint_callback[t] /\ ~own THEN 1 ELSE 0

\* The threads in an interruptible wait that have not come back yet.
Asleep(t) == pc[t] \in {"cv_sleep", "cv_asleep", "cv_woken"} /\ Interruptable(t)

\* An interrupt ends the wait it meets, wherever between the test of interrupted and the
\* sleep it comes, and whoever holds the mutex of the monitor.
InterruptEndsWait ==
    \A t \in Targets : (interrupted[t] /\ Asleep(t)) ~> ~Asleep(t)

\* A park that meets an unpark returns, also when the unpark comes before the park, or from
\* two threads at once.
UnparkEndsPark ==
    \A t \in Targets :
        (permit[t] /\ call[t] = "park" /\ Asleep(t)) ~> (call[t] # "park" \/ ~Asleep(t))

\* hythread_set_thread_stop_callback on a thread that is asleep in an interruptible wait,
\* Object.wait, park or sleep: it wakes up, reaches an exception safe point and runs the
\* callback.  (A native wait does not test interrupted and goes on.)
StopEndsWait ==
    \A t \in Targets :
        (Asleep(t) /\ \E u \in Threads : pc[u] = "cb_waits" /\ target[u] = t)
            ~> ~safepoint_callback[t]

-------------------------------------------------------------------------------
(* The inductive invariant, for any number of threads and monitors and any scenario *)

Labels == {"run", "cv_check", "cv_sleep", "cv_asleep", "cv_woken", "leave", "poll", "relock",
           "left",           "up_notify", "it_set", "it_read", "it_try", "cb_request", "cb_waits", "st_state"}

\* Inside a wait: counted in the monitor, and counted no more but not yet returned.
Counted(t) == pc[t] \in {"cv_check", "cv_sleep", "cv_asleep", "cv_woken", "leave"}
InWait(t) == Counted(t) \/ pc[t] \in {"poll", "relock", "left"}

TypeInv ==
    /\ mutex \in [Monitors -> Threads \cup {NoThread}]
    /\ owner \in [Monitors -> Threads \cup {NoThread}]
    /\ wait_count \in [Monitors -> Nat] /\ notify_count \in [Monitors -> Nat]
    /\ cond \in [Monitors -> SUBSET Threads]
    /\ waited_monitor \in [Threads -> Monitors \cup {NoMonitor}]
    /\ request \in [Threads -> 0 .. RequestModulus - 1]
    /\ safepoint_callback \in [Threads -> BOOLEAN]
    /\ pc \in [Threads -> Labels]
    /\ call \in [Threads -> {"none", "wait", "native_wait", "park", "sleep"}]
    /\ mon \in [Threads -> Monitors \cup {NoMonitor}]
    /\ target \in [Threads -> Threads] /\ ret \in [Threads -> {"run", "st_state"}]

\* A thread parks and sleeps in its own monitor and waits in those of objects.
PlaceInv ==
    \A t \in Threads :
        /\ InWait(t) => \/ call[t] \in {"wait", "native_wait"} /\ mon[t] \in Objects /\ pc[t] # "left"
                        \/ call[t] \in {"park", "sleep"} /\ mon[t] = t
                           /\ pc[t] \notin {"poll", "relock"}
        /\ pc[t] = "it_try" => mon[t] \in Monitors

\* Asleep on a condition is whoever is at the sleep in its monitor.
SleepInv ==
    \A m \in Monitors, t \in Threads : t \in cond[m] <=> pc[t] = "cv_asleep" /\ mon[t] = m

\* Nobody notifies the monitor of a thread.
OwnUnnotified == \A t \in Threads : notify_count[t] = 0

\* The slot of a thread that stops itself is taken until it has run the callback.
OwnSlot == \A t \in Threads : pc[t] = "cb_request" /\ target[t] = t => safepoint_callback[t]

IInv ==
    /\ TypeInv /\ PlaceInv /\ SleepInv /\ OwnUnnotified /\ OwnSlot
    /\ OwnerHoldsMutex /\ NotificationsBounded /\ RequestAgrees
===============================================================================
