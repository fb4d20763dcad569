----------------------------- MODULE SafeRegion -----------------------------
(***************************************************************************)
(* What safe suspension promises, without saying how.  Each thread is      *)
(* inside or outside an unsafe region, and some agents hold it suspended.  *)
(* A thread gets into an unsafe region only while nobody holds it, and     *)
(* nobody gets hold of a thread inside one: a lock per thread, shared by   *)
(* those who suspend it.  SafeSuspend implements this specification.       *)
(***************************************************************************)
EXTENDS Naturals

CONSTANTS Threads,  \* the threads that can be suspended
          Agents    \* those who can hold a thread suspended

VARIABLES unsafe,   \* the threads inside an unsafe region
          held      \* for each thread, the agents that hold it suspended

vars == <<unsafe, held>>

Init == unsafe = {} /\ held = [t \in Threads |-> {}]

\* The thread leaves its safe region (hythread_suspend_disable) or a safe point.
leave_safe_region(t) ==
    /\ t \notin unsafe
    /\ held[t] = {}
    /\ unsafe' = unsafe \cup {t}
    /\ UNCHANGED held

\* The thread enters a safe region (hythread_suspend_enable) or a safe point.
enter_safe_region(t) ==
    /\ t \in unsafe
    /\ unsafe' = unsafe \ {t}
    /\ UNCHANGED held

\* hythread_suspend_other returns, or hythread_suspend_all is done with t.
suspend(a, t) ==
    /\ t \notin unsafe
    /\ held' = [held EXCEPT ![t] = @ \cup {a}]
    /\ UNCHANGED unsafe

\* hythread_resume takes a suspension back.
resume(a, t) ==
    /\ a \in held[t]
    /\ held' = [held EXCEPT ![t] = @ \ {a}]
    /\ UNCHANGED unsafe

Next ==
    \E t \in Threads :
        \/ leave_safe_region(t)
        \/ enter_safe_region(t)
        \/ \E a \in Agents : suspend(a, t) \/ resume(a, t)

Spec == Init /\ [][Next]_vars

=============================================================================
