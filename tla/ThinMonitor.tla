------------------------------ MODULE ThinMonitor ------------------------------
(****************************************************************************)
(* The Java monitor of one object: its lock word, which is reserved for the *)
(* first thread that locks it, unreserved by the first other one, and       *)
(* inflated to a fat monitor by contention, by Object.wait or when the      *)
(* recursion count overflows.  The owner changes the word with plain loads  *)
(* and stores, the others with compare-and-swap, and only after they have   *)
(* suspended the owner: every load, store and swap is a step of its own.    *)
(* Suspension is what SafeRegion promises; `asked' are the suspensions that *)
(* the rest of the VM wants at the same time.                               *)
(****************************************************************************)
EXTENDS Integers, FiniteSets

CONSTANTS
    Threads, NoThread,
    MAX_RECURSION,   \* 31 in the code
    SPIN_COUNT,      \* 5 in the code
    MaxCalls,        \* bound: monitor entries and waits of all threads
    MaxAsks          \* bound: suspensions by the rest of the VM

ASSUME BoundsAssumption ==
    /\ NoThread \notin Threads
    /\ MAX_RECURSION \in Nat \ {0} /\ SPIN_COUNT \in Nat /\ MaxCalls \in Nat /\ MaxAsks \in Nat

VARIABLES
    word,            \* the lock word, *lockword_ptr
    monitor,         \* the fat monitor, once there is one
    pc, stage,       \* where a thread is, and where in jthread_monitor_enter it came from
    copy,            \* local: the lock word as it was read
    spin,            \* local: i of the spin loop
    ret,             \* local: where hythread_inflate_lock returns to
    saved,           \* local: the recursion given up by Object.wait
    victim,          \* the thread whose suspension a thread has requested
    asked, asks,     \* the threads the rest of the VM suspends, and how often it did
    calls,           \* monitor entries and waits begun
    depth            \* history: entries of each thread less its exits

locals == <<copy, spin, ret, saved>>
control == <<pc, stage>>
environment == <<asked, asks, calls>>
vars == <<word, monitor, control, locals, victim, environment, depth>>

LockWords == [fat : BOOLEAN, id : Threads \cup {NoThread}, rec : 0 .. MAX_RECURSION, res : BOOLEAN]
Fat == [fat |-> TRUE, id |-> NoThread, rec |-> 0, res |-> FALSE]
Unlocked == [owner |-> NoThread, entries |-> 0]

\* hythread_thin_monitor_create: free, and reserved for whoever comes first.
Init ==
    /\ word = [fat |-> FALSE, id |-> NoThread, rec |-> 0, res |-> TRUE]
    /\ monitor = Unlocked
    /\ pc = [t \in Threads |-> "idle"] /\ stage = [t \in Threads |-> "none"]
    /\ copy = [t \in Threads |-> word] /\ spin = [t \in Threads |-> 0]
    /\ ret = [t \in Threads |-> "idle"] /\ saved = [t \in Threads |-> 0]
    /\ victim = [t \in Threads |-> NoThread]
    /\ asked = {} /\ asks = 0 /\ calls = 0
    /\ depth = [t \in Threads |-> 0]

Inc(w) == [w EXCEPT !.rec = @ + 1]
Dec(w) == [w EXCEPT !.rec = @ - 1]
Free(w) == ~w.fat /\ w.id = NoThread
ClearId(w) == [w EXCEPT !.id = NoThread]

\* hythread_owns_thin_lock
OwnsThin(t, w) == w.id = t /\ (~w.res \/ w.rec # 0)

\* A plausible bug: whoever unreserves takes a lock that is held for a free one.
Unreserved_free(w) == [w EXCEPT !.id = NoThread, !.rec = 0, !.res = FALSE]

\* A reserved word counts all entries of its owner, an unreserved one all but the first.
Unreserved(w) ==
    IF w.rec # 0 THEN Dec([w EXCEPT !.res = FALSE]) ELSE ClearId([w EXCEPT !.res = FALSE])

Goto(t, label) == pc' = [pc EXCEPT ![t] = label]
Read(t) == copy' = [copy EXCEPT ![t] = word]

\* In these places a thread is in a safe region or at a safe point; it gets out of them
\* only while nobody suspends it.
SafePlaces == {"idle", "safe_point", "block", "woken", "waiting", "dead"}
Unasked(t) == t \notin asked /\ \A u \in Threads : victim[u] # t
Ready(t, label) == pc[t] = label /\ Unasked(t)

-------------------------------------------------------------------------------
(* jthread_monitor_enter around hythread_thin_monitor_try_enter *)

\* Contended entries inflate the lock once they have it.
Success(t) ==
    /\ depth' = [depth EXCEPT ![t] = @ + 1]
    /\ stage' = [stage EXCEPT ![t] = "none"]
    /\ ret' = [ret EXCEPT ![t] = "idle"]
    /\ Goto(t, IF stage[t] \in {"loop", "fat_loop"} THEN "inflate" ELSE "idle")

AfterBusy(t) ==
    CASE stage[t] = "first" -> <<"unreserve", "ul_read">>
      [] stage[t] = "second" -> <<"loop", "try">>
      [] stage[t] = "loop" -> <<"loop", "safe_point">>
      [] stage[t] = "fat_first" -> <<"fat_loop", "try">>
      [] stage[t] = "fat_loop" -> <<"fat_loop", IF word.fat THEN "block" ELSE "try">>

Busy(t) ==
    /\ stage' = [stage EXCEPT ![t] = AfterBusy(t)[1]]
    /\ Goto(t, AfterBusy(t)[2])

\* The end of an iteration of the spin loop.
Again(t) ==
    IF spin[t] = 0
    THEN Busy(t) /\ spin' = spin /\ copy' = copy
    ELSE /\ spin' = [spin EXCEPT ![t] = @ - 1] /\ Read(t)
         /\ Goto(t, "spin") /\ stage' = stage

\* Java code takes the fast path first or, without the helper, calls the VM at once.
enter(t) ==
    /\ Ready(t, "idle") /\ calls < MaxCalls /\ calls' = calls + 1
    /\ \/ Goto(t, "try") /\ stage' = [stage EXCEPT ![t] = "first"] /\ copy' = copy
       \/ Goto(t, "fast_enter") /\ Read(t) /\ stage' = stage
    /\ UNCHANGED <<word, monitor, spin, ret, saved, victim, asked, asks, depth>>

\* ThreadHelper.monitorEnterUseReservation, compiled into Java code.
fast_enter(t) ==
    /\ pc[t] = "fast_enter"
    /\ LET w == copy[t]
       IN  \/ /\ w.id = t /\ w.rec < MAX_RECURSION
              /\ word' = Inc(w) /\ Success(t)
           \/ /\ Free(w) /\ word = w
              /\ word' = [w EXCEPT !.id = t, !.rec = IF w.res THEN @ + 1 ELSE @] /\ Success(t)
           \/ /\ IF Free(w) THEN word # w ELSE ~(w.id = t /\ w.rec < MAX_RECURSION)
              /\ Goto(t, "try") /\ stage' = [stage EXCEPT ![t] = "first"]
              /\ UNCHANGED <<word, depth, ret>>
    /\ UNCHANGED <<monitor, copy, spin, saved, victim, environment>>

\* A plausible bug: the recursion count is incremented however large it is.
try_enter_unbounded(t) ==
    /\ pc[t] = "try" /\ Read(t)
    /\ Goto(t, IF word.id = t THEN "inc" ELSE "spin")
    /\ spin' = [spin EXCEPT ![t] = SPIN_COUNT]
    /\ UNCHANGED <<word, monitor, stage, ret, saved, victim, environment, depth>>

\* hythread_thin_monitor_try_enter: the word is read; what is mine already is counted.
try_enter(t) ==
    /\ pc[t] = "try" /\ Read(t)
    /\ Goto(t, IF word.id # t THEN "spin" ELSE IF word.rec = MAX_RECURSION THEN "inflate" ELSE "inc")
    /\ spin' = [spin EXCEPT ![t] = SPIN_COUNT]
    /\ ret' = [ret EXCEPT ![t] = "overflow"]
    /\ UNCHANGED <<word, monitor, stage, saved, victim, environment, depth>>

\* RECURSION_INC: a plain store of the word that was read, plus one.
recursion_inc(t) ==
    /\ pc[t] = "inc"
    /\ word' = Inc(copy[t]) /\ Success(t)
    /\ UNCHANGED <<monitor, copy, spin, saved, victim, environment>>

\* A free lock: only the half word of the thread id is compared and swapped.  Whether the
\* lock is reserved is taken from the word as it was read before.
spin_free(t) ==
    /\ pc[t] = "spin" /\ Free(copy[t])
    /\ IF Free(word)
       THEN /\ word' = [word EXCEPT !.id = t]
            /\ spin' = spin /\ copy' = copy
            /\ IF copy[t].res THEN Goto(t, "reserve") /\ UNCHANGED <<stage, ret, depth>>
                              ELSE Success(t)
       ELSE Again(t) /\ UNCHANGED <<word, ret, depth>>
    /\ UNCHANGED <<monitor, saved, victim, environment>>

\* RECURSION_INC(lockword_ptr, *lockword_ptr): load, then store.
reserve(t) ==
    /\ pc[t] = "reserve"
    /\ Read(t) /\ Goto(t, "inc")
    /\ UNCHANGED <<word, monitor, stage, spin, ret, saved, victim, environment, depth>>

\* hythread_monitor_try_enter on the fat monitor.
FatTry(t) ==
    /\ monitor.owner \in {t, NoThread}
    /\ monitor' = [owner |-> t, entries |-> monitor.entries + 1]
    /\ Success(t)

spin_fat(t) ==
    /\ pc[t] = "spin" /\ copy[t].fat
    /\ \/ FatTry(t) /\ UNCHANGED <<spin, copy>>
       \/ monitor.owner \notin {t, NoThread} /\ Again(t) /\ UNCHANGED <<monitor, ret, depth>>
    /\ UNCHANGED <<word, saved, victim, environment>>

\* A thin lock of another thread: unreserve it, or just try again.
spin_owned(t) ==
    /\ pc[t] = "spin" /\ copy[t].id # NoThread
    /\ IF copy[t].res
       THEN Goto(t, "ul_read") /\ UNCHANGED <<stage, spin, copy>>
       ELSE Again(t)
    /\ UNCHANGED <<word, monitor, ret, saved, victim, environment, depth>>

\* After the overflow of the recursion count the lock is fat and the caller's.
overflow(t) ==
    /\ pc[t] = "overflow" /\ FatTry(t)
    /\ UNCHANGED <<word, copy, spin, saved, victim, environment>>

\* hythread_safe_point between two attempts; then a fat lock is entered for good.
safe_point(t) ==
    /\ Ready(t, "safe_point")
    /\ Goto(t, IF stage[t] = "unreserve" THEN "ul_read" ELSE "try")
    /\ stage' = [stage EXCEPT ![t] = IF @ = "loop" /\ word.fat THEN "fat_first" ELSE @]
    /\ UNCHANGED <<word, monitor, locals, victim, environment, depth>>

\* hythread_monitor_enter in a safe region.
block(t) ==
    /\ pc[t] = "block" /\ monitor.owner = NoThread
    /\ monitor' = [owner |-> t, entries |-> 1]
    /\ depth' = [depth EXCEPT ![t] = @ + 1]
    /\ stage' = [stage EXCEPT ![t] = "none"]
    /\ Goto(t, "woken")
    /\ UNCHANGED <<word, locals, victim, environment>>

\* The end of the safe region after hythread_monitor_enter and after a wait.
woken(t) ==
    /\ Ready(t, "woken") /\ Goto(t, "idle")
    /\ UNCHANGED <<word, monitor, stage, locals, victim, environment, depth>>

-------------------------------------------------------------------------------
(* hythread_unreserve_lock *)

\* It returns to the loop of jthread_monitor_enter or into try_enter, which starts again.
UnreserveReturns(t) ==
    /\ stage' = [stage EXCEPT ![t] = IF @ = "unreserve" THEN "second" ELSE @]
    /\ Goto(t, "try")

unreserve_read(t) ==
    /\ pc[t] = "ul_read" /\ Read(t)
    /\ IF word.fat \/ ~word.res THEN UnreserveReturns(t) ELSE Goto(t, "ul_suspend") /\ stage' = stage
    /\ UNCHANGED <<word, monitor, spin, ret, saved, victim, environment, depth>>

\* hythread_suspend_other, unless hythread_get_thread finds no such thread any more.
unreserve_suspend(t) ==
    /\ pc[t] = "ul_suspend"
    /\ IF pc[copy[t].id] = "dead"
       THEN Goto(t, "ul_cas") /\ victim' = victim
       ELSE Goto(t, "ul_wait") /\ victim' = [victim EXCEPT ![t] = copy[t].id]
    /\ UNCHANGED <<word, monitor, stage, locals, environment, depth>>

\* A plausible bug: the owner is not waited for.
unreserve_wait_hasty(t) ==
    /\ pc[t] = "ul_wait" /\ Goto(t, "ul_cas")
    /\ UNCHANGED <<word, monitor, stage, locals, victim, environment, depth>>

\* A plausible bug: the owner is not resumed when the suspension is given up.
unreserve_wait_kept(t) ==
    /\ pc[t] = "ul_wait"
    /\ IF pc[victim[t]] \in SafePlaces
       THEN Goto(t, "ul_cas") /\ UNCHANGED <<stage, spin, copy>>
       ELSE /\ ~Unasked(t)
            /\ IF stage[t] = "unreserve"
               THEN Goto(t, "safe_point") /\ UNCHANGED <<stage, spin, copy>>
               ELSE Again(t)
    /\ UNCHANGED <<word, monitor, ret, saved, victim, environment, depth>>

\* wait_safe_region_event: with the caller wanted itself, EBUSY.
unreserve_wait(t) ==
    /\ pc[t] = "ul_wait"
    /\ IF pc[victim[t]] \in SafePlaces
       THEN Goto(t, "ul_cas") /\ UNCHANGED <<stage, spin, copy, victim>>
       ELSE /\ ~Unasked(t)
            /\ victim' = [victim EXCEPT ![t] = NoThread]
            /\ IF stage[t] = "unreserve"
               THEN Goto(t, "safe_point") /\ UNCHANGED <<stage, spin, copy>>
               ELSE Again(t)
    /\ UNCHANGED <<word, monitor, ret, saved, environment, depth>>

unreserve_cas(t) ==
    /\ pc[t] = "ul_cas"
    /\ \/ ~copy[t].res /\ Goto(t, "ul_resume") /\ UNCHANGED <<word, copy>>
       \/ /\ copy[t].res /\ word = copy[t]
          /\ word' = Unreserved(word) /\ Goto(t, "ul_resume") /\ copy' = copy
       \/ copy[t].res /\ word # copy[t] /\ Read(t) /\ UNCHANGED <<word, pc>>
    /\ UNCHANGED <<monitor, stage, spin, ret, saved, victim, environment, depth>>

unreserve_resume(t) ==
    /\ pc[t] = "ul_resume"
    /\ victim' = [victim EXCEPT ![t] = NoThread]
    /\ UnreserveReturns(t)
    /\ UNCHANGED <<word, monitor, locals, environment, depth>>

-------------------------------------------------------------------------------
(* hythread_inflate_lock, by the owner *)

\* A lock that is reserved is first unreserved by its owner, unreserve_self_lock.
inflate(t) ==
    /\ pc[t] = "inflate" /\ Read(t)
    /\ Goto(t, IF word.fat THEN ret[t] ELSE IF word.res THEN "unreserve_self" ELSE "fatten")
    /\ UNCHANGED <<word, monitor, stage, spin, ret, saved, victim, environment, depth>>

unreserve_self(t) ==
    /\ pc[t] = "unreserve_self"
    /\ word' = Unreserved(copy[t]) /\ copy' = [copy EXCEPT ![t] = word']
    /\ Goto(t, "fatten")
    /\ UNCHANGED <<monitor, stage, spin, ret, saved, victim, environment, depth>>

\* A plausible bug: the recursion count is not transferred.
fatten_once(t) ==
    /\ pc[t] = "fatten"
    /\ monitor' = [owner |-> t, entries |-> 1]
    /\ word' = Fat /\ Goto(t, ret[t])
    /\ UNCHANGED <<stage, locals, victim, environment, depth>>

\* The monitor is entered as often as the word says before set_fat_lock_id shows it.
fatten(t) ==
    /\ pc[t] = "fatten"
    /\ monitor' = [owner |-> t, entries |-> copy[t].rec + 1]
    /\ word' = Fat /\ Goto(t, ret[t])
    /\ UNCHANGED <<stage, locals, victim, environment, depth>>

-------------------------------------------------------------------------------
(* hythread_thin_monitor_exit, ThreadHelper.monitorExit and jthread_monitor_wait *)

\* Compiled code exits only what it has entered; the VM's function checks.
begin_exit(t) ==
    /\ Ready(t, "idle") /\ Read(t)
    /\ Goto(t, "exit") \/ (depth[t] > 0 /\ Goto(t, "fast_exit"))
    /\ UNCHANGED <<word, monitor, stage, spin, ret, saved, victim, environment, depth>>

FatExit(t) ==
    /\ monitor.owner = t
    /\ monitor' = IF monitor.entries = 1 THEN Unlocked ELSE [monitor EXCEPT !.entries = @ - 1]
    /\ word' = word

ThinExit(w) == word' = IF w.rec = 0 THEN ClearId(w) ELSE Dec(w)

exit(t) ==
    /\ pc[t] = "exit"
    /\ \/ copy[t].fat /\ FatExit(t) /\ depth' = [depth EXCEPT ![t] = @ - 1]
       \/ /\ OwnsThin(t, copy[t]) /\ ThinExit(copy[t]) /\ monitor' = monitor
          /\ depth' = [depth EXCEPT ![t] = @ - 1]
       \/ /\ IF copy[t].fat THEN monitor.owner # t ELSE ~OwnsThin(t, copy[t])
          /\ UNCHANGED <<word, monitor, depth>>           \* IllegalMonitorStateException
    /\ Goto(t, "idle")
    /\ UNCHANGED <<stage, locals, victim, environment>>

\* Not even the owner is compared; a fat lock is left to the VM.
fast_exit(t) ==
    /\ pc[t] = "fast_exit"
    /\ IF copy[t].fat
       THEN Goto(t, "exit") /\ UNCHANGED <<word, depth>>
       ELSE /\ ThinExit(copy[t]) /\ Goto(t, "idle")
            /\ depth' = [depth EXCEPT ![t] = @ - 1]
    /\ UNCHANGED <<monitor, stage, locals, victim, environment>>

\* Object.wait by an owner: a thin lock is inflated, then the fat monitor is waited on.
begin_wait(t) ==
    /\ Ready(t, "idle") /\ depth[t] > 0 /\ calls < MaxCalls /\ calls' = calls + 1
    /\ Goto(t, IF word.fat THEN "wait" ELSE "inflate")
    /\ ret' = [ret EXCEPT ![t] = "wait"]
    /\ UNCHANGED <<word, monitor, stage, copy, spin, saved, victim, asked, asks, depth>>

wait(t) ==
    /\ pc[t] = "wait" /\ monitor.owner = t
    /\ saved' = [saved EXCEPT ![t] = monitor.entries]
    /\ monitor' = Unlocked /\ Goto(t, "waiting")
    /\ UNCHANGED <<word, stage, copy, spin, ret, victim, environment, depth>>

\* Notified, interrupted or timed out; the details are in Waiting.
wait_returns(t) ==
    /\ pc[t] = "waiting" /\ monitor.owner = NoThread
    /\ monitor' = [owner |-> t, entries |-> saved[t]]
    /\ saved' = [saved EXCEPT ![t] = 0] /\ Goto(t, "woken")
    /\ UNCHANGED <<word, stage, copy, spin, ret, victim, environment, depth>>

-------------------------------------------------------------------------------
(* The rest of the VM *)

\* A thread ends; what is reserved for it stays reserved.
die(t) ==
    /\ Ready(t, "idle") /\ depth[t] = 0 /\ Goto(t, "dead")
    /\ UNCHANGED <<word, monitor, stage, locals, victim, environment, depth>>

\* A collection, JVMTI or another lock: somebody wants t suspended, and lets it go again.
ask(t) ==
    /\ asks < MaxAsks /\ t \notin asked /\ pc[t] # "dead"
    /\ asks' = asks + 1 /\ asked' = asked \cup {t}
    /\ UNCHANGED <<word, monitor, control, locals, victim, calls, depth>>

release(t) ==
    /\ t \in asked /\ asked' = asked \ {t}
    /\ UNCHANGED <<word, monitor, control, locals, victim, asks, calls, depth>>

Unreserve(t) ==
    \/ unreserve_read(t) \/ unreserve_suspend(t) \/ unreserve_wait(t)
    \/ unreserve_cas(t) \/ unreserve_resume(t)

\* What a thread goes on with once it has begun.
Step(t) ==
    \/ fast_enter(t) \/ try_enter(t) \/ recursion_inc(t) \/ spin_free(t) \/ reserve(t)
    \/ spin_fat(t) \/ spin_owned(t) \/ overflow(t) \/ safe_point(t) \/ block(t) \/ woken(t)
    \/ Unreserve(t) \/ inflate(t) \/ unreserve_self(t) \/ fatten(t)
    \/ exit(t) \/ fast_exit(t) \/ wait(t)

Next ==
    \E t \in Threads :
        \/ Step(t) \/ enter(t) \/ begin_exit(t) \/ begin_wait(t) \/ wait_returns(t)
        \/ die(t) \/ ask(t) \/ release(t)

Spec == Init /\ [][Next]_vars

\* The OS runs every thread, a monitor that is entered is left, a suspension is taken back.
\* Nobody has to enter, wait or be notified.
Fairness ==
    \A t \in Threads :
        /\ WF_vars(Step(t) \/ (begin_exit(t) /\ depth[t] > 0))
        /\ WF_vars(release(t))

FairSpec == Spec /\ Fairness

-------------------------------------------------------------------------------
(* Properties *)

Labels == SafePlaces \cup
    {"try", "inc", "spin", "reserve", "overflow", "fast_enter", "fast_exit", "exit", "wait",
     "inflate", "unreserve_self", "fatten", "ul_read", "ul_suspend", "ul_wait", "ul_cas",
     "ul_resume"}

\* Types; above all, the recursion count never runs out of its five bits into the
\* thread id (MAX_RECURSION).
TypeOK ==
    /\ word \in LockWords /\ copy \in [Threads -> LockWords]
    /\ monitor \in [owner : Threads \cup {NoThread}, entries : Nat]
    /\ pc \in [Threads -> Labels] /\ saved \in [Threads -> Nat]
    /\ stage \in [Threads -> {"none", "first", "unreserve", "second", "loop", "fat_first",
                              "fat_loop"}]
    /\ spin \in [Threads -> 0 .. SPIN_COUNT]
    /\ ret \in [Threads -> {"idle", "overflow", "wait"}]
    /\ victim \in [Threads -> Threads \cup {NoThread}]
    /\ asked \subseteq Threads /\ depth \in [Threads -> 0 .. MaxCalls]

Inside(t) == depth[t] > 0 /\ pc[t] # "waiting"

\* One thread at a time is inside, whichever of the four ways in it took (the inlined
\* fast path, the reserved word, the swapped thread id, the fat monitor) and whatever
\* unreservations and inflations happened under way.
MutualExclusion == \A t, u \in Threads : Inside(t) /\ Inside(u) => t = u

\* "lockword ... is only modified without compare-and-exchange by owner thread": between a
\* plain load of a word that is mine and the store that follows nobody else changes it.
OwnerLosesNothing ==
    \A t \in Threads :
        /\ pc[t] \in {"inc", "exit", "fast_exit", "fast_enter", "unreserve_self", "fatten"}
        /\ copy[t].id = t
        => word = copy[t]

\* hythread_thin_monitor_get_owner and _get_recursion.
get_recursion(t) ==
    IF word.fat THEN IF monitor.owner = t THEN monitor.entries ELSE 0
    ELSE IF word.id # t THEN 0
    ELSE IF word.res THEN word.rec ELSE word.rec + 1

\* "Unlocks thin monitor": between two operations the lock is held by a thread exactly as
\* often as it entered and did not exit, so that the last exit frees it.
ExitsMatchEntries == \A t \in Threads : pc[t] = "idle" => get_recursion(t) = depth[t]

\* Unreserving uses safe suspension as SafeRegion allows: the owner's word is changed only
\* while the owner is outside its unsafe regions, and the owner stays outside.
Region == INSTANCE SafeRegion WITH
    Agents <- Threads,
    unsafe <- {t \in Threads : pc[t] \notin SafePlaces},
    held <- [t \in Threads |-> {u \in Threads : victim[u] = t /\ pc[u] \in {"ul_cas", "ul_resume"}}]
UsesSafeRegion == Region!Spec

\* An entry ends: neither two threads that unreserve, nor one that is suspended while it
\* waits for the owner, nor one that blocks on a lock just inflated, is left behind.
EntryEnds == \A t \in Threads : stage[t] # "none" ~> stage[t] = "none"
-------------------------------------------------------------------------------
(* The inductive invariant, for any number of threads.  The recursion count may exceed the  *)
(* entries of a thread (a stale reservation bit, see reserve), never the other way round.   *)

Attempts == {"first", "second", "loop", "fat_first", "fat_loop"}
InflateLabels == {"inflate", "unreserve_self", "fatten"}
UnreserveLabels == {"ul_read", "ul_suspend", "ul_wait", "ul_cas", "ul_resume"}
StoreLabels == {"inc", "exit", "fast_exit", "fast_enter", "unreserve_self", "fatten"}

TypeInv ==
    /\ word \in LockWords /\ copy \in [Threads -> LockWords]
    /\ monitor \in [owner : Threads \cup {NoThread}, entries : Nat]
    /\ pc \in [Threads -> Labels] /\ saved \in [Threads -> Nat]
    /\ stage \in [Threads -> Attempts \cup {"none", "unreserve"}]
    /\ spin \in [Threads -> 0 .. SPIN_COUNT]
    /\ ret \in [Threads -> {"idle", "overflow", "wait"}]
    /\ victim \in [Threads -> Threads \cup {NoThread}]
    /\ asked \subseteq Threads /\ depth \in [Threads -> Int]
    /\ asks \in Nat /\ calls \in 0 .. MaxCalls

\* A free word counts nothing, and there is one place at a time where the owner is kept.
WordInv ==
    /\ word.fat => word = Fat
    /\ ~word.fat => monitor = Unlocked
    /\ Free(word) => word.rec = 0
    /\ monitor.owner = NoThread <=> monitor.entries = 0

\* Where a thread is in jthread_monitor_enter, and that its entry is among the calls.
StageOf(t) ==
    /\ pc[t] \in {"try", "inc", "spin", "reserve", "overflow", "block"} => stage[t] \in Attempts
    /\ pc[t] \in UnreserveLabels => stage[t] \in Attempts \cup {"unreserve"}
    /\ pc[t] = "safe_point" => stage[t] \in {"unreserve", "loop"}
    /\ pc[t] \in InflateLabels /\ ret[t] = "overflow" => stage[t] \in Attempts
    /\ depth[t] + (IF pc[t] = "fast_enter" \/ stage[t] # "none" THEN 1 ELSE 0) <= calls

\* What the copy of the word still says about it: inflation and unreservation are final, a
\* reservation has one owner, and nobody changes a word between the owner's load and store.
CopyOf(t) ==
    /\ copy[t].fat => copy[t] = Fat /\ word = Fat
    /\ ~copy[t].res => ~word.res
    /\ copy[t].res /\ copy[t].id # NoThread /\ word.res => word.id = copy[t].id
    /\ pc[t] \in StoreLabels /\ copy[t].id = t => word = copy[t]

\* Every entry is counted, in the word, in the fat monitor, or in the locals of Object.wait.
HoldOf(t) ==
    IF pc[t] = "waiting" THEN saved[t] >= 1 /\ depth[t] <= saved[t] ELSE depth[t] <= get_recursion(t)

\* What a thread knows at a label.
PlaceOf(t) ==
    /\ pc[t] = "inc" => copy[t].id = t /\ copy[t].rec < MAX_RECURSION
    /\ pc[t] = "reserve" => word.id = t /\ word.rec = 0
    /\ pc[t] = "fast_exit" => depth[t] > 0 /\ (copy[t].fat \/ copy[t].id = t)
    /\ pc[t] = "inflate" => get_recursion(t) >= 1
    /\ pc[t] = "unreserve_self" => copy[t].id = t /\ copy[t].res /\ copy[t].rec > 0
    /\ pc[t] = "fatten" => copy[t].id = t /\ ~copy[t].res
    /\ pc[t] \in {"overflow", "block", "waiting"} => word.fat

\* Whose suspension a thread that unreserves has asked for: the owner's, who stays in a safe
\* place, or has ended, until the word is no longer reserved.
VictimOf(t) ==
    /\ victim[t] # NoThread => pc[t] \in {"ul_wait", "ul_cas", "ul_resume"}
    /\ pc[t] \in UnreserveLabels \/ (pc[t] = "safe_point" /\ stage[t] = "unreserve") =>
          (word.res => word.id # NoThread)
    /\ pc[t] = "ul_suspend" => copy[t].res /\ copy[t].id # NoThread
    /\ pc[t] = "ul_wait" => copy[t].res /\ copy[t].id = victim[t] /\ victim[t] # NoThread
    /\ pc[t] \in {"ul_cas", "ul_resume"} =>
          /\ victim[t] # NoThread => pc[victim[t]] \in SafePlaces
          /\ word.res => IF victim[t] = NoThread THEN pc[word.id] = "dead" ELSE word.id = victim[t]

IInv ==
    /\ TypeInv /\ WordInv
    /\ \A t \in Threads : StageOf(t) /\ CopyOf(t) /\ HoldOf(t) /\ PlaceOf(t) /\ VictimOf(t)

\* With two threads nothing is counted that was not entered: whoever spins on a free word that
\* it saw reserved takes it while it is, since an unreservation needs an owner besides.
CountOf(t) ==
    IF pc[t] = "waiting" THEN depth[t] = saved[t]
    ELSE depth[t] = get_recursion(t) /\ (pc[t] = "reserve" => word.res)

FreshOf(t) ==
    pc[t] = "spin" /\ Free(copy[t]) /\ copy[t].res =>
        word.res \/ word.fat \/ \E u \in Threads : pc[u] = "fatten"

PairInv == IInv /\ \A t \in Threads : CountOf(t) /\ FreshOf(t)
===============================================================================
