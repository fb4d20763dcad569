--------------------------- MODULE SafeSuspendInv ---------------------------
(***************************************************************************)
(* The inductive invariant of SafeSuspend.  Three parts are about control: *)
(* which labels a client operation can be at, what a thread knows of its   *)
(* own disable_count there, who holds the two locks.  Two relate a label   *)
(* to the suspension the operation is about.  The last one is the heart of *)
(* the protocol: once a thread has been signalled, an unsafe region it is  *)
(* in shows in memory, and one it is not in it cannot get into.            *)
(***************************************************************************)
EXTENDS SafeSuspend

\* Where a thread is in its client operation: in a safe point, or in the
\* test of hythread_suspend_disable, it is where that returns to.
At(s) == IF pc[s] \in SafePointLabels THEN ret[s] ELSE pc[s]

SendLabels == {"sr_count", "sr_request", "sr_yield"}
WaitLabels == {"ws_read", "ws_busy", "ws_state"}
ResumeLabels == {"rs_cas", "rs_request", "rs_check", "rs_state", "rs_post"}

\* The thread holds p_suspend_lock.
Critical(s) == /\ call[s] \in {"jsuspend", "jresume"}
               /\ At(s) \notin {"js_lock", "jr_lock", "js_relock"}

\* ret is used only in safe points and in hythread_resume.
RetOf(s) ==
    /\ pc[s] \notin (SafePointLabels \ {"dis_check"}) \cup ResumeLabels =>
          ret[s] = "run"
    /\ ret[s] \notin SafePointLabels \cup ResumeLabels

\* The labels of each client operation.
CallOf(s) ==
    /\ call[s] # "collect" => todo[s] = {}
    /\ call[s] = "none" => At(s) = "run"
    /\ call[s] = "unreserve" =>
          /\ target[s] # s
          /\ pc[s] \notin SafePointLabels
          /\ pc[s] \in SendLabels \cup WaitLabels \cup ResumeLabels
                       \cup {"u_held", "u_done", "u_busy"}
          /\ pc[s] \in ResumeLabels => ret[s] \in {"u_done", "u_busy"}
    /\ call[s] = "inspect" =>
          /\ target[s] # s
          /\ At(s) \in SendLabels \cup WaitLabels \cup ResumeLabels
                       \cup {"gl_lock", "gl_check", "i_unlock", "run",
                             "i_done", "failed"}
          /\ pc[s] \in ResumeLabels => ret[s] \in {"i_done", "failed"}
          /\ pc[s] \in SafePointLabels => ret[s] \in {"run", "gl_lock"}
    /\ call[s] = "collect" =>
          /\ At(s) \in SendLabels \cup WaitLabels \cup ResumeLabels
                       \cup {"gl_lock", "gl_check", "it_check", "sa_send",
                             "sa_wait", "run", "ra_check", "ra_loop"}
          /\ pc[s] \in ResumeLabels => ret[s] = "ra_loop"
          /\ pc[s] \in SafePointLabels =>
                ret[s] \in {"run", "gl_lock", "it_check", "ra_check", "ws_read"}
          /\ todo[s] \subseteq Others(s)
          /\ At(s) \in SendLabels \cup WaitLabels => target[s] \in todo[s]
          /\ At(s) \in ResumeLabels => target[s] \in Others(s) \ todo[s]
          /\ At(s) \in {"gl_lock", "gl_check"} => target[s] = s
    /\ call[s] = "jsuspend" =>
          /\ At(s) \in SendLabels \cup WaitLabels \cup ResumeLabels
                       \cup {"js_lock", "js_self", "js_busy", "js_flag",
                             "js_relock"}
          /\ pc[s] \in ResumeLabels => ret[s] = "js_busy"
          /\ pc[s] \in SafePointLabels => ret[s] \in {"js_relock", "sr_count"}
          /\ pc[s] = "js_self" => target[s] = s
    /\ call[s] = "jresume" =>
          /\ pc[s] \notin SafePointLabels
          /\ pc[s] \in ResumeLabels \cup {"jr_lock", "jr_flag"}
          /\ pc[s] \in ResumeLabels => ret[s] = "jr_flag"

\* What a thread in a safe point knows of its own disable_count; Thread.suspend
\* is called from a safe region.
OwnOf(t) ==
    /\ pc[t] = "dis_check" => Own(t) > 0
    /\ pc[t] \in {"sp_wait", "sp_loop", "sp_set"} => Own(t) = 0
    /\ pc[t] = "sp_recheck" => Own(t) = saved[t]
    /\ call[t] = "jsuspend" =>
          /\ Own(t) = 0
          /\ pc[t] \in {"sp_wait", "sp_loop", "sp_set"} => saved[t] = 0

\* Who holds the global thread lock and p_suspend_lock.
HoldsGlobal(s) ==
    \/ call[s] = "collect" /\ At(s) # "gl_lock"
    \/ call[s] = "inspect" /\ At(s) \in SendLabels \cup WaitLabels
                                          \cup {"gl_check", "i_unlock"}
LockOf(s) ==
    /\ HoldsGlobal(s) => TM_LOCK = s
    /\ Critical(s) <=> p_suspend_lock = s

\* The suspension that the operation of s works on.
Current(s) == stage[Agent(s)][target[s]]

\* How far that suspension is, by label.
CurrentOf(s) ==
    call[s] \in {"unreserve", "inspect", "collect"} \/ Critical(s) =>
        /\ At(s) \in {"gl_lock", "gl_check", "sr_count", "rs_check",
                      "rs_state", "rs_post", "u_done", "u_busy", "i_done",
                      "failed", "js_busy", "jr_flag"} => Current(s) = "none"
        /\ At(s) = "sr_request" => Current(s) = "counted"
        /\ At(s) \in {"sr_yield", "js_self"} => Current(s) = "requested"
        /\ At(s) \in WaitLabels => Current(s) = "asked"
        /\ At(s) \in {"u_held", "i_unlock", "js_flag"} => Current(s) = "stopped"
        /\ At(s) = "run" /\ call[s] = "inspect" => Current(s) = "stopped"
        /\ At(s) = "rs_cas" => Current(s) \in {"asked", "stopped"}
        /\ At(s) = "rs_request" => Current(s) = "uncounted"

\* The other suspensions of a thread, by label: for hythread_suspend_all and
\* hythread_resume_all those before and behind the iterator.
Ahead(s) ==
    IF At(s) \in WaitLabels \cup {"sa_wait"} THEN "asked"
    ELSE IF At(s) \in ResumeLabels \cup {"ra_loop"} THEN "stopped"
    ELSE "none"
Behind(s) ==
    IF At(s) \in SendLabels \cup {"sa_send"} THEN "asked"
    ELSE IF At(s) \in WaitLabels \cup {"sa_wait", "run", "ra_check"} THEN "stopped"
    ELSE "none"
RowOf(s) ==
    \A t \in Threads :
        /\ call[s] \in {"none", "jsuspend", "jresume"} => stage[s][t] = "none"
        /\ call[s] \in {"unreserve", "inspect"} /\ t # target[s] =>
              stage[s][t] = "none"
        /\ call[s] = "collect" =>
              /\ t = s => stage[s][t] = "none"
              /\ t # s =>
                  \/ At(s) \in SendLabels \cup ResumeLabels /\ t = target[s]
                  \/ t \in todo[s] /\ At(s) \notin {"run", "ra_check"}
                       /\ stage[s][t] = Ahead(s)
                  \/ (t \notin todo[s] \/ At(s) \in {"run", "ra_check"})
                       /\ stage[s][t] = Behind(s)

\* The suspensions of Thread.suspend: the flag is behind only for the thread
\* that the holder of p_suspend_lock works on.
FlagOf(s) ==
    /\ Critical(s) /\ call[s] = "jsuspend" => ~suspend_flag[target[s]]
    /\ Critical(s) /\ call[s] = "jresume" => suspend_flag[target[s]]
JavaOf(t) ==
    \/ p_suspend_lock \in Threads /\ target[p_suspend_lock] = t
    \/ stage[Java][t] = IF suspend_flag[t] THEN "stopped" ELSE "none"

\* A thread that has been signalled and is in an unsafe region shows it in
\* memory, now and after every store it still has under way.
Signalled(t) == \E a \in Agents : stage[a][t] \in {"asked", "stopped"}
Shows(t) ==
    /\ disable_count[t] > 0
    /\ \A i \in 1 .. Len(store_buffer[t]) : store_buffer[t][i] > 0
ShowsOf(t) == Signalled(t) /\ Unsafe(t) => Shows(t)

\* What it is worth to have read disable_count 0.
FoundOf(s) == pc[s] = "ws_state" => ~Unsafe(target[s])

ControlInv ==
    \A s \in Threads : RetOf(s) /\ CallOf(s) /\ OwnOf(s) /\ LockOf(s)
StageInv ==
    \A s \in Threads : CurrentOf(s) /\ RowOf(s) /\ FlagOf(s) /\ JavaOf(s)
RegionInv == \A s \in Threads : ShowsOf(s) /\ FoundOf(s)

\* The inductive invariant: labels, locks and suspensions agree, the counts
\* are right, and a signalled thread shows its unsafe region.
IInv == TypeOK /\ ControlInv /\ StageInv /\ CountsAgree /\ RegionInv
           /\ StoppedStaysSafe

=============================================================================
