---------------------------- MODULE SafeSuspend ----------------------------
(***************************************************************************)
(* Safe suspension in the DRLVM thread manager                             *)
(* (vm/thread/src/thread_native_suspend.c, the inline functions of         *)
(* vm/include/open/hythread_ext.h, hythread_global_lock) together with the *)
(* code that uses it:                                                      *)
(*   - a thread that takes a reserved thin lock from its owner             *)
(*     (hythread_unreserve_lock), in the unsafe region;                    *)
(*   - a JVMTI stack walker, which suspends one thread under the global    *)
(*     thread lock (jvmtiGetStackTrace);                                   *)
(*   - the collector, which stops the world (hythread_suspend_all);        *)
(*   - Thread.suspend and Thread.resume (jthread_suspend, jthread_resume). *)
(*                                                                         *)
(* disable_count is written with plain stores: hythread_suspend_disable    *)
(* has its barrier commented out.  The model therefore gives every thread  *)
(* a store buffer for its own disable_count (the x86 memory order): a      *)
(* store is first seen only by its thread and reaches memory later.  A     *)
(* locked instruction, a barrier or a mutex operation waits until the      *)
(* buffer has drained.  All the other shared fields are changed by locked  *)
(* instructions or under a mutex.                                          *)
(***************************************************************************)
EXTENDS Naturals, Sequences, FiniteSets

CONSTANTS Threads,        \* the attached threads of the default group
          NoThread,       \* "no owner" of a mutex
          Java,           \* the agent that stands for Thread.suspend
          Unreservers,    \* threads that unreserve thin locks
          Inspectors,     \* threads that run JVMTI stack walks
          Collectors,     \* threads that stop the world
          JavaSuspenders, \* threads that call Thread.suspend and resume
          MaxDisable,     \* bound: nesting of hythread_suspend_disable
          MaxBuffer       \* bound: entries of a store buffer

ASSUME ThreadsAssumption ==
    /\ IsFiniteSet(Threads)
    /\ NoThread \notin Threads
    /\ Java \notin Threads
    /\ Unreservers \subseteq Threads
    /\ Inspectors \subseteq Threads
    /\ Collectors \subseteq Threads
    /\ JavaSuspenders \subseteq Threads

ASSUME BoundsAssumption == MaxDisable \in Nat /\ MaxBuffer \in Nat

VARIABLES
    suspend_count,  \* HyThread.suspend_count
    request,        \* HyThread.request
    disable_count,  \* HyThread.disable_count as memory holds it
    store_buffer,   \* stores of disable_count that have not reached memory
    resume_event,   \* count of the semaphore HyThread.resume_event
    suspended,      \* TM_THREAD_STATE_SUSPENDED is set in HyThread.state
    suspend_flag,   \* VM_thread.suspend_flag
    TM_LOCK,        \* owner of the global thread lock
    p_suspend_lock, \* owner of the lock of jthread_suspend and jthread_resume
    pc,             \* where each thread is
    call,           \* the client operation a thread is in
    target,         \* the thread a suspension or a resumption is about
    todo,           \* the threads an iterator has not returned yet
    saved,          \* gc_disable_count of thread_safe_point_impl
    ret,            \* where the safe point or hythread_resume returns to
    stage           \* history: how far each agent's suspension of a thread is

protocolVars == <<suspend_count, request, suspended, stage>>
localVars == <<call, target, todo, saved, ret>>
lockVars == <<TM_LOCK, p_suspend_lock, suspend_flag>>
vars == <<suspend_count, request, disable_count, store_buffer, resume_event,
          suspended, suspend_flag, TM_LOCK, p_suspend_lock, pc, call, target,
          todo, saved, ret, stage>>

-----------------------------------------------------------------------------
(***************************************************************************)
(* Who suspends: a thread for itself, or Java for suspend_flag, whose      *)
(* suspension one thread starts and another one may end.                   *)
(***************************************************************************)
Agents == Threads \cup {Java}

Agent(s) == IF call[s] \in {"jsuspend", "jresume"} THEN Java ELSE s

Calls == {"none", "unreserve", "inspect", "collect", "jsuspend", "jresume"}

(***************************************************************************)
(* The life of one suspension: suspend_count raised, request raised, the   *)
(* target signalled, the target found in a safe region, suspend_count      *)
(* lowered again.  After request is lowered too it is over.                *)
(***************************************************************************)
Stages == {"none", "counted", "requested", "asked", "stopped", "uncounted"}
CountedStages == {"counted", "requested", "asked", "stopped"}
RequestedStages == {"requested", "asked", "stopped", "uncounted"}

Labels == {"run", "dis_check",
           "sp_check", "sp_enter", "sp_wait", "sp_loop", "sp_set", "sp_recheck",
           "sr_count", "sr_request", "sr_yield",
           "ws_read", "ws_busy", "ws_state",
           "rs_cas", "rs_request", "rs_check", "rs_state", "rs_post",
           "u_held", "u_done", "u_busy",
           "gl_lock", "gl_check", "i_unlock", "i_done",
           "it_check", "sa_send", "sa_wait", "ra_check", "ra_loop",
           "js_lock", "js_self", "js_busy", "js_flag", "js_relock",
           "jr_lock", "jr_flag", "failed"}

\* The labels inside hythread_suspend_disable and thread_safe_point_impl at
\* which the thread touches no object.
SafePointLabels == {"dis_check", "sp_check", "sp_enter", "sp_wait", "sp_loop",
                    "sp_set", "sp_recheck"}

Goto(t, label) == pc' = [pc EXCEPT ![t] = label]

\* Return from the safe point or from hythread_resume.
Return(t) == Goto(t, ret[t]) /\ ret' = [ret EXCEPT ![t] = "run"]

\* disable_count as its own thread reads it: the last store wins.
Own(t) == IF store_buffer[t] = <<>> THEN disable_count[t]
          ELSE store_buffer[t][Len(store_buffer[t])]

\* A locked instruction, barrier or mutex operation waits for the buffer.
Drained(t) == store_buffer[t] = <<>>

\* A plain store of disable_count.
Store(t, n) ==
    /\ Len(store_buffer[t]) < MaxBuffer
    /\ store_buffer' = [store_buffer EXCEPT ![t] = Append(@, n)]
    /\ UNCHANGED disable_count

\* The oldest buffered store of a thread reaches memory.
Drain(t) ==
    /\ store_buffer[t] # <<>>
    /\ disable_count' = [disable_count EXCEPT ![t] = Head(store_buffer[t])]
    /\ store_buffer' = [store_buffer EXCEPT ![t] = Tail(@)]
    /\ UNCHANGED <<protocolVars, localVars, lockVars, resume_event, pc>>

\* The thread is in an unsafe region and runs in it: outside a safe point, or
\* in a nested hythread_suspend_disable, which does not stop.
Unsafe(t) == \/ Own(t) > 0 /\ pc[t] \notin SafePointLabels
             \/ Own(t) > 1 /\ pc[t] = "dis_check"

Init ==
    /\ suspend_count = [t \in Threads |-> 0]
    /\ request = [t \in Threads |-> 0]
    /\ disable_count = [t \in Threads |-> 0]
    /\ store_buffer = [t \in Threads |-> <<>>]
    /\ resume_event = [t \in Threads |-> 0]
    /\ suspended = [t \in Threads |-> FALSE]
    /\ suspend_flag = [t \in Threads |-> FALSE]
    /\ TM_LOCK = NoThread
    /\ p_suspend_lock = NoThread
    /\ pc = [t \in Threads |-> "run"]
    /\ call = [t \in Threads |-> "none"]
    /\ target = [t \in Threads |-> t]
    /\ todo = [t \in Threads |-> {}]
    /\ saved = [t \in Threads |-> 0]
    /\ ret = [t \in Threads |-> "run"]
    /\ stage = [a \in Agents |-> [t \in Threads |-> "none"]]

-----------------------------------------------------------------------------
(***************************************************************************)
(* Regions: hythread_suspend_disable, hythread_suspend_enable, and the     *)
(* pair hythread_reset_suspend_disable, hythread_set_suspend_disable that  *)
(* brackets a blocking call.                                               *)
(***************************************************************************)
\* disable_count++ of hythread_suspend_disable.
suspend_disable(t) ==
    /\ pc[t] = "run"
    /\ Own(t) < MaxDisable
    /\ Store(t, Own(t) + 1)
    /\ Goto(t, "dis_check")
    /\ UNCHANGED <<protocolVars, localVars, lockVars, resume_event>>

\* The test of request that follows it, without a barrier in between.
suspend_disable_check(t) ==
    /\ pc[t] = "dis_check"
    /\ IF request[t] > 0 /\ Own(t) = 1
       THEN /\ Goto(t, "sp_check")
            /\ ret' = [ret EXCEPT ![t] = "run"]
       ELSE /\ Goto(t, "run")
            /\ UNCHANGED ret
    /\ UNCHANGED <<protocolVars, lockVars, resume_event, disable_count,
                   store_buffer, call, target, todo, saved>>

suspend_enable(t) ==
    /\ pc[t] = "run"
    /\ Own(t) > 0
    /\ Store(t, Own(t) - 1)
    /\ UNCHANGED <<protocolVars, localVars, lockVars, resume_event, pc>>

\* A blocking call made in an unsafe region: hythread_reset_suspend_disable
\* before it, hythread_set_suspend_disable after it (from "sp_set" on).
blocking_call(t) ==
    /\ pc[t] = "run"
    /\ Own(t) > 0
    /\ saved' = [saved EXCEPT ![t] = Own(t)]
    /\ ret' = [ret EXCEPT ![t] = "run"]
    /\ Store(t, 0)
    /\ Goto(t, "sp_set")
    /\ UNCHANGED <<protocolVars, lockVars, resume_event, call, target, todo>>

-----------------------------------------------------------------------------
(***************************************************************************)
(* thread_safe_point_impl                                                  *)
(***************************************************************************)
\* hythread_safe_point: the poll of compiled code and of native loops.
safe_point(t) ==
    /\ pc[t] = "run"
    /\ Goto(t, "sp_check")
    /\ ret' = [ret EXCEPT ![t] = "run"]
    /\ UNCHANGED <<protocolVars, lockVars, resume_event, disable_count,
                   store_buffer, call, target, todo, saved>>

safe_point_check(t) ==
    /\ pc[t] = "sp_check"
    /\ IF suspend_count[t] = 0
       THEN Return(t)
       ELSE Goto(t, "sp_enter") /\ UNCHANGED ret
    /\ UNCHANGED <<protocolVars, lockVars, resume_event, disable_count,
                   store_buffer, call, target, todo, saved>>

\* Mutant: disable_count keeps its value.
safe_point_enter_nostore(t) ==
    /\ pc[t] = "sp_enter"
    /\ Drained(t)
    /\ saved' = [saved EXCEPT ![t] = disable_count[t]]
    /\ Goto(t, "sp_wait")
    /\ UNCHANGED <<protocolVars, lockVars, resume_event, disable_count,
                   store_buffer, call, target, todo, ret>>

\* Mutant: an old resume event is thrown away first.
safe_point_enter_reset(t) ==
    /\ pc[t] = "sp_enter"
    /\ Drained(t)
    /\ saved' = [saved EXCEPT ![t] = disable_count[t]]
    /\ disable_count' = [disable_count EXCEPT ![t] = 0]
    /\ resume_event' = [resume_event EXCEPT ![t] = 0]
    /\ Goto(t, "sp_wait")
    /\ UNCHANGED <<protocolVars, lockVars, store_buffer, call, target, todo,
                   ret>>

\* Saves disable_count, sets it to 0 and executes the barrier.
safe_point_enter(t) ==
    /\ pc[t] = "sp_enter"
    /\ Drained(t)
    /\ saved' = [saved EXCEPT ![t] = disable_count[t]]
    /\ disable_count' = [disable_count EXCEPT ![t] = 0]
    /\ Goto(t, "sp_wait")
    /\ UNCHANGED <<protocolVars, lockVars, resume_event, store_buffer,
                   call, target, todo, ret>>

\* hysem_wait(thread->resume_event)
safe_point_wait(t) ==
    /\ pc[t] = "sp_wait"
    /\ resume_event[t] > 0
    /\ resume_event' = [resume_event EXCEPT ![t] = @ - 1]
    /\ Goto(t, "sp_loop")
    /\ UNCHANGED <<protocolVars, localVars, lockVars, disable_count,
                   store_buffer>>

safe_point_loop(t) ==
    /\ pc[t] = "sp_loop"
    /\ Goto(t, IF suspend_count[t] > 0 THEN "sp_wait" ELSE "sp_set")
    /\ UNCHANGED <<protocolVars, localVars, lockVars, resume_event,
                   disable_count, store_buffer>>

\* hythread_set_suspend_disable(saved): the store and the barrier ...
set_suspend_disable(t) ==
    /\ pc[t] = "sp_set"
    /\ Drained(t)
    /\ disable_count' = [disable_count EXCEPT ![t] = saved[t]]
    /\ Goto(t, "sp_recheck")
    /\ UNCHANGED <<protocolVars, localVars, lockVars, resume_event,
                   store_buffer>>

\* Mutant: suspend_count is not tested after the store.
set_suspend_disable_check_skipped(t) ==
    /\ pc[t] = "sp_recheck"
    /\ Return(t)
    /\ saved' = [saved EXCEPT ![t] = 0]
    /\ UNCHANGED <<protocolVars, lockVars, resume_event, disable_count,
                   store_buffer, call, target, todo>>

\* ... then the test of suspend_count, which may enter a safe point again.
set_suspend_disable_check(t) ==
    /\ pc[t] = "sp_recheck"
    /\ IF saved[t] > 0 /\ suspend_count[t] > 0
       THEN Goto(t, "sp_check") /\ UNCHANGED ret
       ELSE Return(t)
    /\ saved' = [saved EXCEPT ![t] = 0]
    /\ UNCHANGED <<protocolVars, lockVars, resume_event, disable_count,
                   store_buffer, call, target, todo>>

-----------------------------------------------------------------------------
(***************************************************************************)
(* hythread_send_suspend_request and wait_safe_region_event                *)
(***************************************************************************)
\* apr_atomic_inc32(&thread->suspend_count)
send_suspend_count(s) ==
    /\ pc[s] = "sr_count"
    /\ Drained(s)
    /\ suspend_count' = [suspend_count EXCEPT ![target[s]] = @ + 1]
    /\ stage' = [stage EXCEPT ![Agent(s)][target[s]] = "counted"]
    /\ Goto(s, "sr_request")
    /\ UNCHANGED <<request, suspended, localVars, lockVars, resume_event,
                   disable_count, store_buffer>>

\* apr_atomic_inc32(&thread->request); a thread does not signal itself.
send_suspend_request(s) ==
    /\ pc[s] = "sr_request"
    /\ Drained(s)
    /\ request' = [request EXCEPT ![target[s]] = @ + 1]
    /\ stage' = [stage EXCEPT ![Agent(s)][target[s]] = "requested"]
    /\ Goto(s, IF target[s] = s THEN "js_self" ELSE "sr_yield")
    /\ UNCHANGED <<suspend_count, suspended, localVars, lockVars, resume_event,
                   disable_count, store_buffer>>

\* Mutant: the target is not signalled.
yield_other_missing(t) == UNCHANGED <<disable_count, store_buffer>>

\* hythread_yield_other: SIGUSR2 is handled by the target, which completes its
\* buffered stores.
yield_other(t) ==
    /\ disable_count' = [disable_count EXCEPT ![t] = Own(t)]
    /\ store_buffer' = [store_buffer EXCEPT ![t] = <<>>]

send_suspend_yield(s) ==
    /\ pc[s] = "sr_yield"
    /\ Drained(s)
    /\ yield_other(target[s])
    /\ stage' = [stage EXCEPT ![Agent(s)][target[s]] = "asked"]
    /\ IF call[s] = "collect"
       THEN /\ Goto(s, "sa_send")
            /\ todo' = [todo EXCEPT ![s] = @ \ {target[s]}]
       ELSE /\ Goto(s, "ws_read")
            /\ UNCHANGED todo
    /\ UNCHANGED <<suspend_count, request, suspended, lockVars, resume_event,
                   call, target, saved, ret>>

\* while (thread->disable_count != 0)
wait_safe_region_read(s) ==
    /\ pc[s] = "ws_read"
    /\ Goto(s, IF disable_count[target[s]] = 0 THEN "ws_state" ELSE "ws_busy")
    /\ UNCHANGED <<protocolVars, localVars, lockVars, resume_event,
                   disable_count, store_buffer>>

\* What the callers do with TM_ERROR_EBUSY: hythread_suspend_all enters a safe
\* point and waits again, hythread_suspend_other takes its request back.
BusyReturn(s) == CASE call[s] = "collect" -> "ws_read"
                   [] call[s] = "unreserve" -> "u_busy"
                   [] call[s] = "inspect" -> "failed"
                   [] OTHER -> "js_busy"

\* Mutant: the request is not taken back.
BusyLabel_keep(s) == IF call[s] = "collect" THEN "sp_check" ELSE BusyReturn(s)

BusyLabel(s) == IF call[s] = "collect" THEN "sp_check" ELSE "rs_cas"

\* Mutant: the waiting thread does not look at its own request.
wait_safe_region_busy_never(s) ==
    /\ pc[s] = "ws_busy"
    /\ Goto(s, "ws_read")
    /\ UNCHANGED <<protocolVars, lockVars, resume_event, disable_count,
                   store_buffer, localVars>>

\* if (self->request) return TM_ERROR_EBUSY
wait_safe_region_busy(s) ==
    /\ pc[s] = "ws_busy"
    /\ IF request[s] > 0
       THEN /\ Goto(s, BusyLabel(s))
            /\ ret' = [ret EXCEPT ![s] = BusyReturn(s)]
       ELSE /\ Goto(s, "ws_read")
            /\ UNCHANGED ret
    /\ UNCHANGED <<protocolVars, lockVars, resume_event, disable_count,
                   store_buffer, call, target, todo, saved>>

\* Where TM_ERROR_NONE leads.
StoppedLabel(s) == CASE call[s] = "collect" -> "sa_wait"
                     [] call[s] = "unreserve" -> "u_held"
                     [] call[s] = "inspect" -> "i_unlock"
                     [] OTHER -> "js_flag"

\* thread->state |= TM_THREAD_STATE_SUSPENDED under thread->mutex
wait_safe_region_state(s) ==
    /\ pc[s] = "ws_state"
    /\ Drained(s)
    /\ suspended' = [suspended EXCEPT ![target[s]] = TRUE]
    /\ stage' = [stage EXCEPT ![Agent(s)][target[s]] = "stopped"]
    /\ Goto(s, StoppedLabel(s))
    /\ todo' = [todo EXCEPT ![s] = @ \ {target[s]}]
    /\ UNCHANGED <<suspend_count, request, lockVars, resume_event,
                   disable_count, store_buffer, call, target, saved, ret>>

-----------------------------------------------------------------------------
(***************************************************************************)
(* hythread_resume(target[s]), which returns to ret[s]                     *)
(***************************************************************************)
\* The compare-and-swap loop; a thread that is not suspended is left alone.
resume_count(s) ==
    /\ pc[s] = "rs_cas"
    /\ Drained(s)
    /\ IF suspend_count[target[s]] = 0
       THEN /\ Return(s)
            /\ UNCHANGED <<suspend_count, stage>>
       ELSE /\ suspend_count' = [suspend_count EXCEPT ![target[s]] = @ - 1]
            /\ stage' = [stage EXCEPT ![Agent(s)][target[s]] = "uncounted"]
            /\ Goto(s, "rs_request")
            /\ UNCHANGED ret
    /\ UNCHANGED <<request, suspended, lockVars, resume_event, disable_count,
                   store_buffer, call, target, todo, saved>>

\* Mutant: request is not lowered.
resume_request_missing(s) ==
    /\ pc[s] = "rs_request"
    /\ Drained(s)
    /\ stage' = [stage EXCEPT ![Agent(s)][target[s]] = "none"]
    /\ Goto(s, "rs_check")
    /\ UNCHANGED <<suspend_count, request, suspended, localVars, lockVars,
                   resume_event, disable_count, store_buffer>>

resume_request(s) ==
    /\ pc[s] = "rs_request"
    /\ Drained(s)
    /\ request' = [request EXCEPT ![target[s]] = @ - 1]
    /\ stage' = [stage EXCEPT ![Agent(s)][target[s]] = "none"]
    /\ Goto(s, "rs_check")
    /\ UNCHANGED <<suspend_count, suspended, localVars, lockVars, resume_event,
                   disable_count, store_buffer>>

\* Mutant: the state is not cleared.
resume_check_nostate(s) ==
    /\ pc[s] = "rs_check"
    /\ IF suspend_count[target[s]] > 0
       THEN Return(s)
       ELSE Goto(s, "rs_post") /\ UNCHANGED ret
    /\ UNCHANGED <<protocolVars, lockVars, resume_event, disable_count,
                   store_buffer, call, target, todo, saved>>

\* if (thread->suspend_count) return
resume_check(s) ==
    /\ pc[s] = "rs_check"
    /\ IF suspend_count[target[s]] > 0
       THEN Return(s)
       ELSE Goto(s, "rs_state") /\ UNCHANGED ret
    /\ UNCHANGED <<protocolVars, lockVars, resume_event, disable_count,
                   store_buffer, call, target, todo, saved>>

resume_state(s) ==
    /\ pc[s] = "rs_state"
    /\ Drained(s)
    /\ suspended' = [suspended EXCEPT ![target[s]] = FALSE]
    /\ Goto(s, "rs_post")
    /\ UNCHANGED <<suspend_count, request, stage, localVars, lockVars,
                   resume_event, disable_count, store_buffer>>

\* Mutant: the collector resumes without posting the event.
resume_post_missing(s) ==
    /\ pc[s] = "rs_post"
    /\ Drained(s)
    /\ resume_event' = [resume_event EXCEPT ![target[s]] = IF call[s] = "collect" THEN @ ELSE 1]
    /\ Return(s)
    /\ UNCHANGED <<protocolVars, lockVars, disable_count, store_buffer, call,
                   target, todo, saved>>

\* Mutant: the maximum of the semaphore is not applied.
resume_post_uncapped(s) ==
    /\ pc[s] = "rs_post"
    /\ Drained(s)
    /\ resume_event' = [resume_event EXCEPT ![target[s]] = @ + 1]
    /\ Return(s)
    /\ UNCHANGED <<protocolVars, lockVars, disable_count, store_buffer, call,
                   target, todo, saved>>

\* hysem_post(thread->resume_event): the semaphore's maximum is 1.
resume_post(s) ==
    /\ pc[s] = "rs_post"
    /\ Drained(s)
    /\ resume_event' = [resume_event EXCEPT ![target[s]] = 1]
    /\ Return(s)
    /\ UNCHANGED <<protocolVars, lockVars, disable_count, store_buffer, call,
                   target, todo, saved>>

-----------------------------------------------------------------------------
(***************************************************************************)
(* Client: hythread_unreserve_lock(owner t), from the unsafe region.       *)
(***************************************************************************)
Begin(s, kind, t) ==
    /\ pc[s] = "run"
    /\ call[s] = "none"
    /\ call' = [call EXCEPT ![s] = kind]
    /\ target' = [target EXCEPT ![s] = t]

End(s) ==
    /\ call' = [call EXCEPT ![s] = "none"]
    /\ target' = [target EXCEPT ![s] = s]

unreserve_lock(s, t) ==
    /\ s \in Unreservers
    /\ t # s
    /\ Own(s) > 0
    /\ Begin(s, "unreserve", t)
    /\ Goto(s, "sr_count")
    /\ UNCHANGED <<protocolVars, lockVars, resume_event, disable_count,
                   store_buffer, todo, saved, ret>>

\* The lock word has been rewritten: hythread_yield_other and hythread_resume.
unreserve_resume(s) ==
    /\ pc[s] = "u_held"
    /\ Drained(s)
    /\ yield_other(target[s])
    /\ ret' = [ret EXCEPT ![s] = "u_done"]
    /\ Goto(s, "rs_cas")
    /\ UNCHANGED <<protocolVars, lockVars, resume_event, call, target, todo,
                   saved>>

unreserve_done(s) ==
    /\ pc[s] = "u_done"
    /\ End(s)
    /\ Goto(s, "run")
    /\ UNCHANGED <<protocolVars, lockVars, resume_event, disable_count,
                   store_buffer, todo, saved, ret>>

\* EBUSY: the loop of jthread_monitor_enter enters a safe point and retries;
\* the spin loop of hythread_thin_monitor_try_enter retries without one.
unreserve_busy(s) ==
    /\ pc[s] = "u_busy"
    /\ End(s)
    /\ \E label \in {"sp_check", "run"} : Goto(s, label)
    /\ ret' = [ret EXCEPT ![s] = "run"]
    /\ UNCHANGED <<protocolVars, lockVars, resume_event, disable_count,
                   store_buffer, todo, saved>>

-----------------------------------------------------------------------------
(***************************************************************************)
(* hythread_global_lock, and the client jvmtiGetStackTrace(t).             *)
(***************************************************************************)
global_lock(s) ==
    /\ pc[s] = "gl_lock"
    /\ Drained(s)
    /\ TM_LOCK = NoThread
    /\ TM_LOCK' = s
    /\ Goto(s, "gl_check")
    /\ UNCHANGED <<protocolVars, localVars, p_suspend_lock, suspend_flag,
                   resume_event, disable_count, store_buffer>>

\* while (self->suspend_count): give the lock up and enter a safe point.
global_lock_check(s) ==
    /\ pc[s] = "gl_check"
    /\ IF suspend_count[s] > 0
       THEN /\ TM_LOCK' = NoThread
            /\ Goto(s, "sp_check")
            /\ ret' = [ret EXCEPT ![s] = "gl_lock"]
       ELSE /\ Goto(s, IF call[s] = "collect" THEN "it_check" ELSE "sr_count")
            /\ UNCHANGED <<TM_LOCK, ret>>
    /\ UNCHANGED <<protocolVars, p_suspend_lock, suspend_flag, resume_event,
                   disable_count, store_buffer, call, target, todo, saved>>

inspect(s, t) ==
    /\ s \in Inspectors
    /\ t # s
    /\ Own(s) = 0
    /\ Begin(s, "inspect", t)
    /\ Goto(s, "gl_lock")
    /\ UNCHANGED <<protocolVars, lockVars, resume_event, disable_count,
                   store_buffer, todo, saved, ret>>

\* hythread_global_unlock; the thread then walks the stack of its target.
inspect_unlock(s) ==
    /\ pc[s] = "i_unlock"
    /\ Drained(s)
    /\ TM_LOCK' = NoThread
    /\ Goto(s, "run")
    /\ UNCHANGED <<protocolVars, localVars, p_suspend_lock, suspend_flag,
                   resume_event, disable_count, store_buffer>>

inspect_resume(s) ==
    /\ pc[s] = "run"
    /\ call[s] = "inspect"
    /\ Own(s) = 0
    /\ ret' = [ret EXCEPT ![s] = "i_done"]
    /\ Goto(s, "rs_cas")
    /\ UNCHANGED <<protocolVars, lockVars, resume_event, disable_count,
                   store_buffer, call, target, todo, saved>>

inspect_done(s) ==
    /\ pc[s] = "i_done"
    /\ End(s)
    /\ Goto(s, "run")
    /\ UNCHANGED <<protocolVars, lockVars, resume_event, disable_count,
                   store_buffer, todo, saved, ret>>

-----------------------------------------------------------------------------
(***************************************************************************)
(* hythread_suspend_all and hythread_resume_all.  hythread_iterator_create *)
(* takes the (recursive) global lock a second time and tests suspend_count *)
(* again, and then enters a safe point with the lock still held once.      *)
(***************************************************************************)
Others(s) == Threads \ {s}

suspend_all(s) ==
    /\ s \in Collectors
    /\ Own(s) = 0
    /\ Begin(s, "collect", s)
    /\ Goto(s, "sp_check")
    /\ ret' = [ret EXCEPT ![s] = "gl_lock"]
    /\ UNCHANGED <<protocolVars, lockVars, resume_event, disable_count,
                   store_buffer, todo, saved>>

\* The test in hythread_iterator_create; the iterator then starts at label.
iterator_create(s, here, label) ==
    /\ pc[s] = here
    /\ IF suspend_count[s] > 0
       THEN /\ Goto(s, "sp_check")
            /\ ret' = [ret EXCEPT ![s] = here]
            /\ UNCHANGED todo
       ELSE /\ Goto(s, label)
            /\ todo' = [todo EXCEPT ![s] = Others(s)]
            /\ UNCHANGED ret
    /\ UNCHANGED <<protocolVars, lockVars, resume_event, disable_count,
                   store_buffer, call, target, saved>>

suspend_all_iterator(s) == iterator_create(s, "it_check", "sa_send")

\* hythread_iterator_next in a loop whose body starts at body.
iterator_next(s, here, body) ==
    /\ pc[s] = here
    /\ todo[s] # {}
    /\ \E t \in todo[s] : target' = [target EXCEPT ![s] = t]
    /\ Goto(s, body)
    /\ UNCHANGED <<protocolVars, lockVars, resume_event, disable_count,
                   store_buffer, call, saved>>

suspend_all_send(s) == iterator_next(s, "sa_send", "sr_count") /\ UNCHANGED <<todo, ret>>

\* Mutant: the answers are not waited for.
suspend_all_sent_nowait(s) ==
    /\ pc[s] = "sa_send"
    /\ todo[s] = {}
    /\ Goto(s, "sa_wait")
    /\ UNCHANGED <<protocolVars, lockVars, resume_event, disable_count,
                   store_buffer, localVars>>

\* hythread_iterator_reset
suspend_all_sent(s) ==
    /\ pc[s] = "sa_send"
    /\ todo[s] = {}
    /\ todo' = [todo EXCEPT ![s] = Others(s)]
    /\ Goto(s, "sa_wait")
    /\ UNCHANGED <<protocolVars, lockVars, resume_event, disable_count,
                   store_buffer, call, target, saved, ret>>

suspend_all_wait(s) == iterator_next(s, "sa_wait", "ws_read") /\ UNCHANGED <<todo, ret>>

\* The world is stopped; the thread returns with the global lock held.
suspend_all_stopped(s) ==
    /\ pc[s] = "sa_wait"
    /\ todo[s] = {}
    /\ Goto(s, "run")
    /\ UNCHANGED <<protocolVars, localVars, lockVars, resume_event,
                   disable_count, store_buffer>>

resume_all(s) ==
    /\ pc[s] = "run"
    /\ call[s] = "collect"
    /\ Own(s) = 0
    /\ Goto(s, "ra_check")
    /\ UNCHANGED <<protocolVars, localVars, lockVars, resume_event,
                   disable_count, store_buffer>>

resume_all_iterator(s) == iterator_create(s, "ra_check", "ra_loop")

resume_all_next(s) ==
    /\ iterator_next(s, "ra_loop", "rs_cas")
    /\ todo' = [todo EXCEPT ![s] = @ \ {target'[s]}]
    /\ ret' = [ret EXCEPT ![s] = "ra_loop"]

\* hythread_iterator_release and hythread_global_unlock
resume_all_done(s) ==
    /\ pc[s] = "ra_loop"
    /\ todo[s] = {}
    /\ Drained(s)
    /\ TM_LOCK' = NoThread
    /\ End(s)
    /\ Goto(s, "run")
    /\ UNCHANGED <<protocolVars, p_suspend_lock, suspend_flag, resume_event,
                   disable_count, store_buffer, todo, saved, ret>>

-----------------------------------------------------------------------------
(***************************************************************************)
(* Thread.suspend and Thread.resume: jthread_suspend and jthread_resume    *)
(***************************************************************************)
\* The fast path first: a thread that is already suspended is left alone.
jthread_suspend(s, t) ==
    /\ s \in JavaSuspenders
    /\ Own(s) = 0
    /\ ~suspend_flag[t]
    /\ Begin(s, "jsuspend", t)
    /\ Goto(s, "js_lock")
    /\ UNCHANGED <<protocolVars, lockVars, resume_event, disable_count,
                   store_buffer, todo, saved, ret>>

\* Mutant: the flag is not tested again under the lock.
suspend_lock_norecheck(s, here, busy, label, back) ==
    /\ pc[s] = here
    /\ Drained(s)
    /\ p_suspend_lock = NoThread
    /\ p_suspend_lock' = s
    /\ Goto(s, label)
    /\ ret' = [ret EXCEPT ![s] = back]
    /\ UNCHANGED <<protocolVars, TM_LOCK, suspend_flag, resume_event,
                   disable_count, store_buffer, call, target, todo, saved>>

\* p_suspend_lock is taken and the flag tested again: busy is its value that
\* makes the call return at once.
suspend_lock(s, here, busy, label, back) ==
    /\ pc[s] = here
    /\ Drained(s)
    /\ p_suspend_lock = NoThread
    /\ IF suspend_flag[target[s]] = busy
       THEN /\ End(s)
            /\ Goto(s, "run")
            /\ UNCHANGED <<p_suspend_lock, ret>>
       ELSE /\ p_suspend_lock' = s
            /\ Goto(s, label)
            /\ ret' = [ret EXCEPT ![s] = back]
            /\ UNCHANGED <<call, target>>
    /\ UNCHANGED <<protocolVars, TM_LOCK, suspend_flag, resume_event,
                   disable_count, store_buffer, todo, saved>>

jthread_suspend_lock(s) == suspend_lock(s, "js_lock", TRUE, "sr_count", "run")

\* suspend_flag, the SUSPENDED state and the release of p_suspend_lock; then
\* the safe point.
jthread_suspend_self(s) ==
    /\ pc[s] = "js_self"
    /\ Drained(s)
    /\ suspend_flag' = [suspend_flag EXCEPT ![s] = TRUE]
    /\ suspended' = [suspended EXCEPT ![s] = TRUE]
    /\ stage' = [stage EXCEPT ![Java][s] = "stopped"]
    /\ p_suspend_lock' = NoThread
    /\ ret' = [ret EXCEPT ![s] = "js_relock"]
    /\ Goto(s, "sp_check")
    /\ UNCHANGED <<suspend_count, request, TM_LOCK, resume_event,
                   disable_count, store_buffer, call, target, todo, saved>>

\* suspend_lock->_lock() and _unlock() after the safe point.
jthread_suspend_relock(s) ==
    /\ pc[s] = "js_relock"
    /\ Drained(s)
    /\ p_suspend_lock = NoThread
    /\ End(s)
    /\ Goto(s, "run")
    /\ UNCHANGED <<protocolVars, lockVars, resume_event, disable_count,
                   store_buffer, todo, saved, ret>>

\* hythread_suspend_other said EBUSY: a safe point, with p_suspend_lock held,
\* and another try.
jthread_suspend_busy(s) ==
    /\ pc[s] = "js_busy"
    /\ ret' = [ret EXCEPT ![s] = "sr_count"]
    /\ Goto(s, "sp_check")
    /\ UNCHANGED <<protocolVars, lockVars, resume_event, disable_count,
                   store_buffer, call, target, todo, saved>>

\* Mutant: suspend_flag is always set.
suspend_unlock_set(s, here, flag) ==
    /\ pc[s] = here
    /\ Drained(s)
    /\ suspend_flag' = [suspend_flag EXCEPT ![target[s]] = TRUE]
    /\ p_suspend_lock' = NoThread
    /\ End(s)
    /\ Goto(s, "run")
    /\ UNCHANGED <<protocolVars, TM_LOCK, resume_event, disable_count,
                   store_buffer, todo, saved, ret>>

\* suspend_flag is written and p_suspend_lock released.
suspend_unlock(s, here, flag) ==
    /\ pc[s] = here
    /\ Drained(s)
    /\ suspend_flag' = [suspend_flag EXCEPT ![target[s]] = flag]
    /\ p_suspend_lock' = NoThread
    /\ End(s)
    /\ Goto(s, "run")
    /\ UNCHANGED <<protocolVars, TM_LOCK, resume_event, disable_count,
                   store_buffer, todo, saved, ret>>

jthread_suspend_unlock(s) == suspend_unlock(s, "js_flag", TRUE)

jthread_resume(s, t) ==
    /\ s \in JavaSuspenders
    /\ Own(s) = 0
    /\ suspend_flag[t]
    /\ Begin(s, "jresume", t)
    /\ Goto(s, "jr_lock")
    /\ UNCHANGED <<protocolVars, lockVars, resume_event, disable_count,
                   store_buffer, todo, saved, ret>>

jthread_resume_lock(s) == suspend_lock(s, "jr_lock", FALSE, "rs_cas", "jr_flag")

jthread_resume_unlock(s) == suspend_unlock(s, "jr_flag", FALSE)

-----------------------------------------------------------------------------
Region(t) ==
    \/ suspend_disable(t) \/ suspend_disable_check(t) \/ suspend_enable(t)
    \/ blocking_call(t)

SafePoint(t) ==
    \/ safe_point_check(t) \/ safe_point_enter(t) \/ safe_point_wait(t)
    \/ safe_point_loop(t) \/ set_suspend_disable(t)
    \/ set_suspend_disable_check(t)

Suspend(s) ==
    \/ send_suspend_count(s) \/ send_suspend_request(s) \/ send_suspend_yield(s)
    \/ wait_safe_region_read(s) \/ wait_safe_region_busy(s)
    \/ wait_safe_region_state(s)

Resume(s) ==
    \/ resume_count(s) \/ resume_request(s) \/ resume_check(s)
    \/ resume_state(s) \/ resume_post(s)

Unreserve(s) ==
    \/ unreserve_resume(s) \/ unreserve_done(s) \/ unreserve_busy(s)

Inspect(s) ==
    \/ global_lock(s) \/ global_lock_check(s) \/ inspect_unlock(s)
    \/ inspect_resume(s) \/ inspect_done(s)

Collect(s) ==
    \/ suspend_all_iterator(s) \/ suspend_all_send(s) \/ suspend_all_sent(s)
    \/ suspend_all_wait(s) \/ suspend_all_stopped(s)
    \/ resume_all(s) \/ resume_all_iterator(s) \/ resume_all_next(s)
    \/ resume_all_done(s)

JavaSuspend(s) ==
    \/ jthread_suspend_lock(s) \/ jthread_suspend_self(s)
    \/ jthread_suspend_relock(s) \/ jthread_suspend_busy(s)
    \/ jthread_suspend_unlock(s) \/ jthread_resume_lock(s)
    \/ jthread_resume_unlock(s)

\* A thread starts an operation that suspends or resumes.
Start(s) ==
    \/ suspend_all(s)
    \/ \E t \in Threads :
          \/ unreserve_lock(s, t) \/ inspect(s, t)
          \/ jthread_suspend(s, t) \/ jthread_resume(s, t)

\* The steps a thread takes by itself once it is in one of the functions.
Inside(t) ==
    \/ suspend_disable_check(t) \/ SafePoint(t) \/ Suspend(t) \/ Resume(t)
    \/ Unreserve(t) \/ Inspect(t) \/ Collect(t) \/ JavaSuspend(t)

Step(t) ==
    \/ Drain(t) \/ Region(t) \/ safe_point(t) \/ SafePoint(t)
    \/ Suspend(t) \/ Resume(t) \/ Unreserve(t) \/ Inspect(t)
    \/ Collect(t) \/ JavaSuspend(t) \/ Start(t)

Next == \E t \in Threads : Step(t)

Spec == Init /\ [][Next]_vars

-----------------------------------------------------------------------------
SharedType ==
    /\ suspend_count \in [Threads -> Nat]
    /\ request \in [Threads -> Nat]
    /\ disable_count \in [Threads -> 0 .. MaxDisable]
    /\ store_buffer \in [Threads -> Seq(0 .. MaxDisable)]
    /\ resume_event \in [Threads -> 0 .. 1]
    /\ suspended \in [Threads -> BOOLEAN]
    /\ suspend_flag \in [Threads -> BOOLEAN]
    /\ TM_LOCK \in Threads \cup {NoThread}
    /\ p_suspend_lock \in Threads \cup {NoThread}
    /\ stage \in [Agents -> [Threads -> Stages]]

LocalType ==
    /\ pc \in [Threads -> Labels]
    /\ call \in [Threads -> Calls]
    /\ target \in [Threads -> Threads]
    /\ todo \in [Threads -> SUBSET Threads]
    /\ saved \in [Threads -> 0 .. MaxDisable]
    /\ ret \in [Threads -> Labels]

\* Every field of HyThread, the locks and the locals keep their types; the
\* count of the semaphore resume_event stays within its maximum of 1.
TypeOK == SharedType /\ LocalType

\* A suspension that has returned holds: until it is taken back its target
\* does not run in an unsafe region, whatever the interleaving and whatever
\* stores of disable_count are still on their way (hythread_suspend_other,
\* hythread_suspend_all; the contract stated above hythread_suspend_other).
StoppedStaysSafe ==
    \A t \in Threads :
        (\E a \in Agents : stage[a][t] = "stopped") => ~Unsafe(t)

\* suspend_count and request count exactly the suspensions in progress: no
\* thread is resumed more often than it was suspended, no request is lost.
CountsAgree ==
    \A t \in Threads :
        /\ suspend_count[t] =
              Cardinality({a \in Agents : stage[a][t] \in CountedStages})
        /\ request[t] =
              Cardinality({a \in Agents : stage[a][t] \in RequestedStages})

\* Nobody leaves a suspension behind: a thread that is in no client operation
\* suspends nobody (TM_ERROR_EBUSY takes the request back), and when nobody
\* holds p_suspend_lock Thread.suspend holds exactly the flagged threads.
SuspensionsOwned ==
    \A t \in Threads :
        /\ \A s \in Threads :
              call[s] \in {"none", "jsuspend", "jresume"} => stage[s][t] = "none"
        /\ p_suspend_lock = NoThread =>
              stage[Java][t] = IF suspend_flag[t] THEN "stopped" ELSE "none"

\* The semaphore resume_event never forgets a resumption: a thread about to
\* wait or waiting in its safe point, with nobody suspending it any more,
\* finds the event posted or somebody on the way to posting it.
NoLostResume ==
    \A t \in Threads :
        pc[t] \in {"sp_enter", "sp_wait"} /\ suspend_count[t] = 0 =>
            \/ resume_event[t] = 1
            \/ \E s \in Threads :
                  /\ target[s] = t
                  /\ pc[s] \in {"rs_request", "rs_check", "rs_state", "rs_post"}

\* stop_the_world: when hythread_suspend_all has returned, no other thread
\* runs in an unsafe region and none becomes a second collector.
WorldStopped(s) == call[s] = "collect" /\ pc[s] = "run"
StopTheWorld ==
    \A s, t \in Threads :
        WorldStopped(s) /\ s # t => ~Unsafe(t) /\ ~WorldStopped(t)

\* When every suspension of a thread is over, its SUSPENDED state is cleared,
\* whatever the order in which the resumers got to it ("state & SUSPENDED:
\* should be 0" of the stress test test_stress_suspend.h).
SuspendedClearAtEnd ==
    \A t \in Threads :
        /\ \A a \in Agents : stage[a][t] = "none"
        /\ \A s \in Threads : target[s] = t => pc[s] \notin {"rs_check", "rs_state"}
        => ~suspended[t]

\* assert(TM_ERROR_NONE == status) after hythread_suspend_other in
\* jvmtiGetStackTrace, made "to avoid suspension of each other" under the
\* global thread lock: a stack walker is never told TM_ERROR_EBUSY.
SuspendOtherSucceeds == \A s \in Threads : pc[s] # "failed"

\* The protocol implements its promise.  A thread is inside an unsafe region
\* when it runs in one, and held by the agents whose suspension has returned.
Promise == INSTANCE SafeRegion
              WITH unsafe <- {t \in Threads : Unsafe(t)},
                   held <- [t \in Threads |->
                              {a \in Agents : stage[a][t] = "stopped"}]

\* Every step of hythread_suspend_other, hythread_suspend_all, the regions,
\* the safe points and hythread_resume is one step of SafeRegion or none.
ImplementsSafeRegion == Promise!Spec

-----------------------------------------------------------------------------
(***************************************************************************)
(* Fairness.  The OS schedules every thread, stores reach memory, compiled *)
(* code polls in every loop and native code in an unsafe region polls or   *)
(* leaves it; whoever suspended others goes on to resume them.  (At most   *)
(* one of the last three actions can be enabled, as call[t] decides.)      *)
(***************************************************************************)
Fairness ==
    \A t \in Threads :
        /\ WF_vars(Inside(t))
        /\ WF_vars(Drain(t))
        /\ SF_vars(safe_point(t))
        /\ SF_vars(inspect_resume(t) \/ resume_all(t) \/ jthread_resume_lock(t))

FairSpec == Spec /\ Fairness

\* hythread_suspend_all returns: once a collector sends its requests, the
\* world stops, although others suspend the collector (it is told EBUSY, enters
\* a safe point and waits again) or wait for each other.  Only Thread.suspend
\* of the collector itself can keep it from that, by holding it.
SuspendAllReturns ==
    \A s \in Threads : pc[s] = "sa_send" ~> (WorldStopped(s) \/ suspend_flag[s])

\* hythread_unreserve_lock returns: two threads that suspend each other do
\* not wait for each other for ever (TM_ERROR_EBUSY).
UnreserveReturns ==
    \A s \in Threads : call[s] = "unreserve" ~> call[s] = "none"

\* A thread nobody suspends any more runs again: it does not sleep for ever
\* in its safe point.
ResumedThreadRuns ==
    \A t \in Threads :
        <>[](suspend_count[t] = 0) => []<>(pc[t] # "sp_wait")

\* jthread_resume "cancels the effect of all previous thread_suspend(thread)
\* calls such that the thread may proceed": the call takes effect.
JavaResumeReturns ==
    \A s \in Threads : call[s] = "jresume" ~> call[s] = "none"

=============================================================================
