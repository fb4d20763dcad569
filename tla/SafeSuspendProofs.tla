------------------------- MODULE SafeSuspendProofs --------------------------
(****************************************************************************)
(* Theorems about SafeSuspend, for any finite set of threads, any roles and *)
(* any bounds: the inductive invariant of SafeSuspendInv, the safety        *)
(* properties that follow from it, and the implementation of SafeRegion.    *)
(****************************************************************************)
EXTENDS SafeSuspendLemmas

\* What the label of a thread in hythread_send_suspend_request,
\* wait_safe_region_event or hythread_resume says of its suspension.
LEMMA WorksOn ==
    ASSUME NEW t \in Threads, LocalType, CallOf(t), CurrentOf(t)
    PROVE  /\ pc[t] = "sr_count" => Current(t) = "none"
           /\ pc[t] = "sr_request" => Current(t) = "counted"
           /\ pc[t] \in {"sr_yield", "js_self"} => Current(t) = "requested"
           /\ pc[t] \in WaitLabels => Current(t) = "asked"
           /\ pc[t] = "rs_cas" => Current(t) \in {"asked", "stopped"}
           /\ pc[t] = "rs_request" => Current(t) = "uncounted"
           /\ pc[t] = "js_self" => Agent(t) = Java /\ target[t] = t
<1> DEFINE labels == SendLabels \cup WaitLabels \cup {"rs_cas", "rs_request", "js_self"}
<1>1. pc[t] \in labels => At(t) = pc[t]
  BY Zenon DEF At, SafePointLabels, SendLabels, WaitLabels
<1>2. pc[t] \in labels =>
        call[t] \in {"unreserve", "inspect", "collect"} \/ Critical(t)
  BY Zenon, <1>1 DEF LocalType, Calls, CallOf, Critical, SendLabels, WaitLabels
<1>3. pc[t] = "js_self" => Agent(t) = Java /\ target[t] = t
  BY <1>1 DEF LocalType, Calls, CallOf, Agent, SafePointLabels, SendLabels,
       WaitLabels, ResumeLabels
<1> QED BY <1>1, <1>2, <1>3 DEF CurrentOf, SendLabels, WaitLabels

\* The life of a suspension: each step that touches one takes it from one stage to
\* the next one and changes suspend_count and request accordingly.
LEMMA StageValues ==
    ASSUME NEW t \in Threads, NEW a \in Agents, NEW v \in Threads, LocalType, CallOf(t),
           CurrentOf(t), Step(t), a = Agent(t), v = target[t]
    PROVE  \/ UNCHANGED <<suspend_count, request, stage>>
           \/ /\ suspend_count' = [suspend_count EXCEPT ![v] = @ + 1]
              /\ UNCHANGED request
              /\ stage[a][v] = "none" /\ stage' = [stage EXCEPT ![a][v] = "counted"]
           \/ /\ request' = [request EXCEPT ![v] = @ + 1]
              /\ UNCHANGED suspend_count
              /\ stage[a][v] = "counted" /\ stage' = [stage EXCEPT ![a][v] = "requested"]
           \/ /\ UNCHANGED <<suspend_count, request>> /\ send_suspend_yield(t)
              /\ stage[a][v] = "requested" /\ stage' = [stage EXCEPT ![a][v] = "asked"]
           \/ /\ UNCHANGED <<suspend_count, request>> /\ wait_safe_region_state(t)
              /\ stage[a][v] = "asked" /\ stage' = [stage EXCEPT ![a][v] = "stopped"]
           \/ /\ UNCHANGED <<suspend_count, request>> /\ jthread_suspend_self(t)
              /\ stage[a][v] = "requested" /\ stage' = [stage EXCEPT ![a][v] = "stopped"]
              /\ v = t
           \/ /\ suspend_count' = [suspend_count EXCEPT ![v] = @ - 1]
              /\ UNCHANGED request /\ resume_count(t)
              /\ stage[a][v] \in {"asked", "stopped"}
              /\ stage' = [stage EXCEPT ![a][v] = "uncounted"]
           \/ /\ request' = [request EXCEPT ![v] = @ - 1]
              /\ UNCHANGED suspend_count
              /\ stage[a][v] = "uncounted" /\ stage' = [stage EXCEPT ![a][v] = "none"]
<1>1. Current(t) = stage[a][v]
  BY Zenon DEF Current
<1>2. CASE UNCHANGED <<suspend_count, request, stage>>
  BY Zenon, <1>2
<1>3. CASE send_suspend_count(t)
  BY Zenon, <1>1, <1>3, WorksOn DEF send_suspend_count
<1>4. CASE send_suspend_request(t)
  BY <1>1, <1>4, WorksOn DEF send_suspend_request
<1>5. CASE send_suspend_yield(t)
  BY Zenon, <1>1, <1>5, WorksOn DEF send_suspend_yield
<1>6. CASE wait_safe_region_state(t)
  BY ZenonT(60), <1>1, <1>6, WorksOn DEF wait_safe_region_state, WaitLabels
<1>7. CASE resume_count(t) /\ suspend_count[target[t]] # 0
  BY <1>1, <1>7, WorksOn DEF resume_count
<1>8. CASE resume_request(t)
  BY Zenon, <1>1, <1>8, WorksOn DEF resume_request
<1>9. CASE jthread_suspend_self(t)
  BY ZenonT(60), <1>1, <1>9, WorksOn DEF jthread_suspend_self
<1> QED BY ZenonT(60), <1>2, <1>3, <1>4, <1>5, <1>6, <1>7, <1>8, <1>9, StageCases

\* A step keeps suspend_count and request equal to the numbers of suspensions.
LEMMA CountsStep ==
    ASSUME NEW t \in Threads, SharedType, LocalType, CallOf(t), CurrentOf(t),
           CountsAgree, Step(t)
    PROVE  CountsAgree'
<1>1. PICK a \in Agents : a = Agent(t)
  BY Zenon DEF Agent, Agents
<1>2. PICK v \in Threads : v = target[t]
  BY Zenon DEF LocalType
<1>3. /\ stage \in [Agents -> [Threads -> Stages]]
      /\ suspend_count \in [Threads -> Nat] /\ request \in [Threads -> Nat]
  BY Zenon DEF SharedType
<1>4. \A u \in Threads : /\ suspend_count[u] = NumberOf(u, CountedStages)
                          /\ request[u] = NumberOf(u, RequestedStages)
  BY Zenon DEF CountsAgree, NumberOf
<1>5. SUFFICES \A u \in Threads : /\ suspend_count'[u] = NumberOf(u, CountedStages)'
                                  /\ request'[u] = NumberOf(u, RequestedStages)'
  BY Zenon DEF CountsAgree, NumberOf
<1> DEFINE Change(x) == \A u \in Threads :
        /\ NumberOf(u, CountedStages)' = NumberOf(u, CountedStages)
             + (IF u = v /\ x \in CountedStages
                     /\ stage[a][v] \notin CountedStages THEN 1 ELSE 0)
             - (IF u = v /\ x \notin CountedStages
                     /\ stage[a][v] \in CountedStages THEN 1 ELSE 0)
        /\ NumberOf(u, RequestedStages)' = NumberOf(u, RequestedStages)
             + (IF u = v /\ x \in RequestedStages
                     /\ stage[a][v] \notin RequestedStages THEN 1 ELSE 0)
             - (IF u = v /\ x \notin RequestedStages
                     /\ stage[a][v] \in RequestedStages THEN 1 ELSE 0)
<1>6. ASSUME NEW x, stage' = [stage EXCEPT ![a][v] = x] PROVE Change(x)
  BY Zenon, <1>3, <1>6, CountChange
<1>7. CASE UNCHANGED <<suspend_count, request, stage>>
  BY Zenon, <1>4, <1>7 DEF NumberOf
<1>8. CASE /\ suspend_count' = [suspend_count EXCEPT ![v] = @ + 1] /\ UNCHANGED request
           /\ stage[a][v] = "none" /\ stage' = [stage EXCEPT ![a][v] = "counted"]
  <2>1. /\ stage[a][v] \notin CountedStages /\ "counted" \in CountedStages
        /\ stage[a][v] \notin RequestedStages /\ "counted" \notin RequestedStages
    BY Zenon, <1>8 DEF CountedStages, RequestedStages
  <2>2. Change("counted")
    BY <1>6, <1>8, Zenon
  <2> QED BY <2>1, <2>2, <1>3, <1>4, <1>8
<1>9. CASE /\ request' = [request EXCEPT ![v] = @ + 1] /\ UNCHANGED suspend_count
           /\ stage[a][v] = "counted" /\ stage' = [stage EXCEPT ![a][v] = "requested"]
  <2>1. /\ stage[a][v] \in CountedStages /\ "requested" \in CountedStages
        /\ stage[a][v] \notin RequestedStages /\ "requested" \in RequestedStages
    BY Zenon, <1>9 DEF CountedStages, RequestedStages
  <2>2. Change("requested")
    BY <1>6, <1>9, Zenon
  <2> QED BY <2>1, <2>2, <1>3, <1>4, <1>9
<1>10. CASE /\ UNCHANGED suspend_count /\ UNCHANGED request
           /\ stage[a][v] = "requested" /\ stage' = [stage EXCEPT ![a][v] = "asked"]
  <2>1. /\ stage[a][v] \in CountedStages /\ "asked" \in CountedStages
        /\ stage[a][v] \in RequestedStages /\ "asked" \in RequestedStages
    BY Zenon, <1>10 DEF CountedStages, RequestedStages
  <2>2. Change("asked")
    BY <1>6, <1>10, Zenon
  <2> QED BY <2>1, <2>2, <1>3, <1>4, <1>10
<1>11. CASE /\ UNCHANGED suspend_count /\ UNCHANGED request
           /\ stage[a][v] \in {"asked", "requested"} /\ stage' = [stage EXCEPT ![a][v] = "stopped"]
  <2>1. /\ stage[a][v] \in CountedStages /\ "stopped" \in CountedStages
        /\ stage[a][v] \in RequestedStages /\ "stopped" \in RequestedStages
    BY Zenon, <1>11 DEF CountedStages, RequestedStages
  <2>2. Change("stopped")
    BY <1>6, <1>11, Zenon
  <2> QED BY <2>1, <2>2, <1>3, <1>4, <1>11
<1>12. CASE /\ suspend_count' = [suspend_count EXCEPT ![v] = @ - 1] /\ UNCHANGED request
           /\ stage[a][v] \in {"asked", "stopped"} /\ stage' = [stage EXCEPT ![a][v] = "uncounted"]
  <2>1. /\ stage[a][v] \in CountedStages /\ "uncounted" \notin CountedStages
        /\ stage[a][v] \in RequestedStages /\ "uncounted" \in RequestedStages
    BY Zenon, <1>12 DEF CountedStages, RequestedStages
  <2>2. Change("uncounted")
    BY <1>6, <1>12, Zenon
  <2> QED BY <2>1, <2>2, <1>3, <1>4, <1>12
<1>13. CASE /\ request' = [request EXCEPT ![v] = @ - 1] /\ UNCHANGED suspend_count
           /\ stage[a][v] = "uncounted" /\ stage' = [stage EXCEPT ![a][v] = "none"]
  <2>1. /\ stage[a][v] \notin CountedStages /\ "none" \notin CountedStages
        /\ stage[a][v] \in RequestedStages /\ "none" \notin RequestedStages
    BY Zenon, <1>13 DEF CountedStages, RequestedStages
  <2>2. Change("none")
    BY <1>6, <1>13, Zenon
  <2> QED BY <2>1, <2>2, <1>3, <1>4, <1>13
<1> QED BY <1>1, <1>2, <1>7, <1>8, <1>9, <1>10, <1>11, <1>12, <1>13, StageValues

\* A thread that does not run in an unsafe region and is suspended does not enter
\* one by its own step: hythread_suspend_disable tests request after its store,
\* thread_safe_point_impl and hythread_set_suspend_disable test suspend_count.
LEMMA ActorStaysSafe ==
    ASSUME NEW t \in Threads, SharedType, LocalType, RetOf(t), OwnOf(t), Step(t),
           Own(t) \in 0 .. MaxDisable, ~Unsafe(t), suspend_count[t] > 0, request[t] > 0
    PROVE  ~Unsafe(t)'
<1> USE DEF RetOf, OwnOf, Unsafe, LocalType, SafePointLabels, ResumeLabels,
      Goto, protocolVars, localVars, lockVars
<1>1. CASE Drain(t)
  BY Zenon, <1>1, DrainOwn DEF Drain
<1>2. CASE safe_point(t)
  BY Zenon, <1>2 DEF Own, safe_point
<1>3. CASE Region(t)
  <2>1. CASE suspend_disable(t)
    <3>1. Own(t) = 0 /\ MaxDisable \in Nat
      BY <2>1, BoundsAssumption DEF suspend_disable
    <3>2. 1 \in 0 .. MaxDisable /\ Store(t, 1)
      BY <3>1, <2>1 DEF suspend_disable
    <3>3. Own(t)' = 1
      BY Zenon, <3>2, StoreOwn
    <3> QED BY <2>1, <3>3 DEF suspend_disable
  <2>2. CASE suspend_disable_check(t)
    BY <2>2 DEF Own, suspend_disable_check
  <2>3. CASE suspend_enable(t)
    BY Zenon, <2>3 DEF suspend_enable, Store
  <2>4. CASE blocking_call(t)
    BY Zenon, <2>4 DEF blocking_call, Store
  <2> QED BY Zenon, <1>3, <2>1, <2>2, <2>3, <2>4 DEF Region
<1>4. CASE SafePoint(t)
  <2>1. CASE safe_point_check(t)
    BY <2>1 DEF Own, safe_point_check, Return
  <2>2. CASE safe_point_enter(t)
    BY Zenon, <2>2 DEF safe_point_enter
  <2>3. CASE safe_point_wait(t)
    BY Zenon, <2>3 DEF Own, safe_point_wait
  <2>4. CASE safe_point_loop(t)
    BY Zenon, <2>4 DEF Own, safe_point_loop
  <2>5. CASE set_suspend_disable(t)
    BY Zenon, <2>5 DEF set_suspend_disable
  <2>6. CASE set_suspend_disable_check(t)
    BY ZenonT(60), <2>6 DEF Own, set_suspend_disable_check, Return
  <2> QED BY ZenonT(60), <1>4, <2>1, <2>2, <2>3, <2>4, <2>5, <2>6 DEF SafePoint
<1>5. CASE Suspend(t)
  <2>1. CASE send_suspend_count(t)
    BY Zenon, <2>1 DEF Own, send_suspend_count, Agent
  <2>2. CASE send_suspend_request(t)
    BY Zenon, <2>2 DEF Own, send_suspend_request, Agent
  <2>3. CASE send_suspend_yield(t)
    <3>1. PICK v \in Threads : v = target[t]
      BY Zenon DEF LocalType
    <3>2. Own(t)' = Own(t)
      BY Zenon, <3>1, <2>3, YieldOwn DEF send_suspend_yield
    <3> QED BY Zenon, <2>3, <3>2 DEF send_suspend_yield
  <2>4. CASE wait_safe_region_read(t)
    BY Zenon, <2>4 DEF Own, wait_safe_region_read
  <2>5. CASE wait_safe_region_busy(t)
    BY Zenon, <2>5 DEF Own, wait_safe_region_busy, BusyLabel, BusyReturn
  <2>6. CASE wait_safe_region_state(t)
    BY Zenon, <2>6 DEF Own, wait_safe_region_state, Agent, StoppedLabel
  <2> QED BY Zenon, <1>5, <2>1, <2>2, <2>3, <2>4, <2>5, <2>6 DEF Suspend
<1>6. CASE Resume(t)
  BY Zenon, <1>6 DEF Own, Resume, resume_count, Agent, Return, resume_request,
        resume_check, resume_state, resume_post
<1>7. CASE Unreserve(t)
  <2>1. CASE unreserve_resume(t)
    <3>1. PICK v \in Threads : v = target[t]
      BY Zenon DEF LocalType
    <3>2. Own(t)' = Own(t)
      BY Zenon, <3>1, <2>1, YieldOwn DEF unreserve_resume
    <3> QED BY Zenon, <2>1, <3>2 DEF unreserve_resume
  <2>2. CASE unreserve_done(t)
    BY <2>2 DEF Own, unreserve_done, End
  <2>3. CASE unreserve_busy(t)
    BY Zenon, <2>3 DEF Own, unreserve_busy, End
  <2> QED BY <1>7, <2>1, <2>2, <2>3 DEF Unreserve
<1>8. CASE Inspect(t)
  BY ZenonT(60), <1>8 DEF Own, Inspect, global_lock, global_lock_check, inspect_unlock,
        inspect_resume, inspect_done, End
<1>9. CASE Collect(t)
  BY <1>9 DEF Own, Collect, suspend_all_iterator, iterator_create,
        suspend_all_send, iterator_next, suspend_all_sent, suspend_all_wait,
        suspend_all_stopped, resume_all, resume_all_iterator,
        resume_all_next, resume_all_done, End
<1>10. CASE JavaSuspend(t)
  BY Zenon, <1>10 DEF Own, JavaSuspend, jthread_suspend_lock, suspend_lock, End,
        jthread_suspend_self, jthread_suspend_relock, jthread_suspend_busy,
        jthread_suspend_unlock, suspend_unlock, jthread_resume_lock,
        jthread_resume_unlock
<1>11. CASE Start(t)
  BY Zenon, <1>11 DEF Own, Start, suspend_all, Begin, unreserve_lock, inspect,
        jthread_suspend, jthread_resume
<1> QED BY ZenonT(60), <1>1, <1>2, <1>3, <1>4, <1>5, <1>6, <1>7, <1>8, <1>9, <1>10, <1>11 DEF Step

\* Nor does it by a step of any other thread.
LEMMA StaysSafe ==
    ASSUME NEW t \in Threads, NEW u \in Threads, SharedType, LocalType, RetOf(t),
           OwnOf(t), Step(t), ~Unsafe(u), suspend_count[u] > 0, request[u] > 0
    PROVE  ~Unsafe(u)'
<1>1. CASE u = t
  BY Zenon, <1>1, OwnType, ActorStaysSafe
<1>2. CASE u # t
  BY <1>2, LocalFrame, MemoryStep DEF Unsafe
<1> QED BY Zenon, <1>1, <1>2

\* A thread that shows its unsafe region shows it for as long as it runs in it:
\* nested hythread_suspend_disable and _enable store positive values only.
LEMMA ActorShows ==
    ASSUME NEW t \in Threads, SharedType, LocalType, Step(t), Shows(t), Unsafe(t)'
    PROVE  Shows(t)'
<1>1. /\ Own(t) \in 0 .. MaxDisable /\ MaxDisable \in Nat
      /\ pc \in [Threads -> Labels] /\ (Own(t)' > 0 \/ Own(t)' > 1)
      /\ pc'[t] \notin SafePointLabels \/ pc'[t] = "dis_check"
  BY Zenon, OwnType, BoundsAssumption DEF LocalType, Unsafe
<1>2. CASE UNCHANGED <<disable_count, store_buffer>>
  BY Zenon, <1>2 DEF Shows
<1>3. CASE Drain(t)
  BY Zenon, <1>3, DrainOwn
<1>4. ASSUME NEW n \in 0 .. MaxDisable, Store(t, n) PROVE Shows(t)'
  BY <1>1, <1>4, StoreOwn
<1>5. CASE suspend_disable(t) \/ suspend_enable(t) \/ blocking_call(t)
  <2>1. \E n \in 0 .. MaxDisable : Store(t, n)
    BY <1>1, <1>5 DEF suspend_disable, suspend_enable, blocking_call
  <2> QED BY Zenon, <2>1, <1>4
<1>6. ~safe_point_enter(t) /\ ~set_suspend_disable(t)
  BY Zenon, <1>1 DEF safe_point_enter, set_suspend_disable, Goto, SafePointLabels
<1>7. CASE send_suspend_yield(t) \/ unreserve_resume(t)
  <2>1. PICK v \in Threads : v = target[t]
    BY Zenon DEF LocalType
  <2>2. yield_other(v)
    BY Zenon, <2>1, <1>7 DEF send_suspend_yield, unreserve_resume
  <2> QED BY Zenon, <2>2, YieldOwn, ShowsOwn
<1> QED BY ZenonT(60), <1>2, <1>3, <1>5, <1>6, <1>7, MemoryCases

\* wait_safe_region_event gets past its loop only when it reads disable_count 0.
LEMMA FoundLabel ==
    ASSUME NEW t \in Threads, LocalType, RetOf(t), CallOf(t), Step(t), pc'[t] = "ws_state"
    PROVE  /\ target'[t] = target[t]
           /\ \/ pc[t] = "ws_state"
              \/ pc[t] = "ws_read" /\ disable_count[target[t]] = 0
<1> USE DEF LocalType, Calls, RetOf, CallOf, At, SafePointLabels,
      ResumeLabels, SendLabels, WaitLabels, Goto, protocolVars, localVars,
      lockVars
<1>1. CASE Drain(t)
  BY <1>1 DEF Drain
<1>2. CASE safe_point(t)
  BY SMTT(30), <1>2 DEF safe_point
<1>3. CASE Region(t)
  BY SMTT(30), <1>3 DEF Region, suspend_disable, Store, suspend_disable_check,
        suspend_enable, blocking_call
<1>4. CASE SafePoint(t)
  BY <1>4 DEF SafePoint, safe_point_check, Return, safe_point_enter,
        safe_point_wait, safe_point_loop, set_suspend_disable,
        set_suspend_disable_check
<1>5. CASE Suspend(t)
  BY SMTT(30), <1>5 DEF Suspend, send_suspend_count, Agent, send_suspend_request,
        send_suspend_yield, yield_other, wait_safe_region_read,
        wait_safe_region_busy, BusyLabel, BusyReturn, wait_safe_region_state,
        StoppedLabel
<1>6. CASE Resume(t)
  BY <1>6 DEF Resume, resume_count, Agent, Return, resume_request,
        resume_check, resume_state, resume_post
<1>7. CASE Unreserve(t)
  BY SMTT(30), <1>7 DEF Unreserve, unreserve_resume, yield_other, unreserve_done, End,
        unreserve_busy
<1>8. CASE Inspect(t)
  BY SMTT(30), <1>8 DEF Inspect, global_lock, global_lock_check, inspect_unlock,
        inspect_resume, inspect_done, End
<1>9. CASE Collect(t)
  BY SMTT(30), <1>9 DEF Collect, suspend_all_iterator, iterator_create,
        suspend_all_send, iterator_next, suspend_all_sent, suspend_all_wait,
        suspend_all_stopped, resume_all, resume_all_iterator,
        resume_all_next, resume_all_done, End
<1>10. CASE JavaSuspend(t)
  BY SMTT(30), <1>10 DEF JavaSuspend, jthread_suspend_lock, suspend_lock, End,
        jthread_suspend_self, jthread_suspend_relock, jthread_suspend_busy,
        jthread_suspend_unlock, suspend_unlock, jthread_resume_lock,
        jthread_resume_unlock
<1>11. CASE Start(t)
  BY <1>11 DEF Start, suspend_all, Begin, unreserve_lock, inspect,
        jthread_suspend, jthread_resume
<1> QED BY ZenonT(60), <1>1, <1>2, <1>3, <1>4, <1>5, <1>6, <1>7, <1>8, <1>9, <1>10, <1>11 DEF Step

\* A thread that was signalled and not resumed has suspend_count and request set.
LEMMA SuspendedCounts ==
    ASSUME NEW u \in Threads, NEW a \in Agents, CountsAgree,
           stage[a][u] \in {"asked", "stopped"}
    PROVE  suspend_count[u] > 0 /\ request[u] > 0
<1>1. stage[a][u] \in CountedStages /\ stage[a][u] \in RequestedStages
  BY Zenon DEF CountedStages, RequestedStages
<1>2. NumberOf(u, CountedStages) > 0 /\ NumberOf(u, RequestedStages) > 0
  BY Zenon, <1>1, Counted
<1> QED BY Zenon, <1>2 DEF CountsAgree, NumberOf

\* hythread_resume finds suspend_count and request positive: nobody has taken its
\* suspension back already.
LEMMA ResumeCounts ==
    ASSUME NEW t \in Threads, LocalType, CallOf(t), CurrentOf(t), CountsAgree
    PROVE  /\ pc[t] = "rs_cas" => suspend_count[target[t]] # 0
           /\ pc[t] = "rs_request" => request[target[t]] > 0
<1>1. PICK a \in Agents, v \in Threads : a = Agent(t) /\ v = target[t]
  BY DEF LocalType, Agent, Agents
<1>2. Current(t) = stage[a][v]
  BY Zenon, <1>1 DEF Current
<1>3. ASSUME pc[t] = "rs_cas" PROVE suspend_count[v] # 0
  BY <1>1, <1>2, <1>3, WorksOn, SuspendedCounts
<1>4. ASSUME pc[t] = "rs_request" PROVE request[v] > 0
  <2>1. stage[a][v] \in RequestedStages
    BY Zenon, <1>1, <1>2, <1>4, WorksOn DEF RequestedStages
  <2>2. NumberOf(v, RequestedStages) > 0
    BY Zenon, <2>1, Counted
  <2> QED BY Zenon, <2>2 DEF CountsAgree, NumberOf
<1> QED BY Zenon, <1>1, <1>3, <1>4

\* A step keeps the types.
LEMMA TypeStep ==
    ASSUME NEW t \in Threads, TypeOK, CallOf(t), CurrentOf(t), CountsAgree, Step(t)
    PROVE  TypeOK'
<1>1. SharedType /\ LocalType
  BY Zenon DEF TypeOK
<1>2. pc[t] = "rs_request" => request[target[t]] > 0
  BY <1>1, ResumeCounts
<1>3. SharedType'
  BY ZenonT(60), <1>1, <1>2, MemoryStep, ProtocolTypeStep, LockTypeStep DEF SharedType
<1>4. /\ pc \in [Threads -> Labels] /\ ret \in [Threads -> Labels]
      /\ call \in [Threads -> Calls] /\ target \in [Threads -> Threads]
      /\ todo \in [Threads -> SUBSET Threads] /\ saved \in [Threads -> 0 .. MaxDisable]
      /\ disable_count[t] \in 0 .. MaxDisable
  BY <1>1 DEF LocalType, SharedType
<1>5. LocalType'
  BY Zenon, <1>1, <1>4, OwnType, LabelTypeStep, CallTypeStep, SavedTypeStep DEF LocalType
<1> QED BY Zenon, <1>3, <1>5 DEF TypeOK

\* A signalled thread that runs in an unsafe region shows it in memory: it was
\* brought there by the signal of hythread_yield_other and stays there.
LEMMA ShowsStep ==
    ASSUME NEW t \in Threads, NEW u \in Threads, TypeOK, RetOf(t), CallOf(t), OwnOf(t),
           CurrentOf(t), CountsAgree, ShowsOf(u), Step(t)
    PROVE  ShowsOf(u)'
<1>1. SharedType /\ LocalType
  BY Zenon DEF TypeOK
<1>2. SUFFICES ASSUME NEW b \in Agents, stage'[b][u] \in {"asked", "stopped"}, Unsafe(u)'
               PROVE  Shows(u)'
  BY Zenon DEF ShowsOf, Signalled
<1>3. PICK a \in Agents, v \in Threads : a = Agent(t) /\ v = target[t]
  BY <1>1 DEF LocalType, Agent, Agents
<1>4. CASE stage[b][u] \in {"asked", "stopped"}
  <2>1. suspend_count[u] > 0 /\ request[u] > 0
    BY <1>4, SuspendedCounts
  <2>2. Unsafe(u)
    BY Zenon, <2>1, <1>1, <1>2, StaysSafe
  <2>3. Shows(u)
    BY Zenon, <2>2, <1>4 DEF ShowsOf, Signalled
  <2> QED BY Zenon, <2>3, <1>1, <1>2, ActorShows, MemoryStep
<1>5. CASE stage[b][u] \notin {"asked", "stopped"}
  <2>1. stage \in [Agents -> [Threads -> Stages]]
    BY SMTT(30), <1>1 DEF SharedType
  <2>2. \/ send_suspend_yield(t) /\ u = v
        \/ jthread_suspend_self(t) /\ u = t
    BY SMTT(30), <2>1, <1>1, <1>2, <1>3, <1>5, StageValues
  <2>3. CASE send_suspend_yield(t) /\ u = v
    <3>1. yield_other(u)
      BY Zenon, <2>3, <1>3 DEF send_suspend_yield
    <3>2. Own(u)' > 0 \/ Own(u)' > 1
      BY Zenon, <1>2 DEF Unsafe
    <3>3. Own(u)' = Own(u) /\ Own(u) \in 0 .. MaxDisable /\ (Own(u) > 0 => Shows(u)')
      BY <3>1, <1>1, YieldOwn, OwnType
    <3> QED BY <3>2, <3>3, BoundsAssumption
  <2>4. CASE jthread_suspend_self(t) /\ u = t
    BY Zenon, <2>4, <1>1, <1>2 DEF jthread_suspend_self, Goto, LocalType, Unsafe, SafePointLabels
  <2> QED BY <2>2, <2>3, <2>4
<1> QED BY Zenon, <1>4, <1>5

\* Whoever has read disable_count 0 in wait_safe_region_event, after the signal,
\* has found a thread that stays out of unsafe regions.
LEMMA FoundStep ==
    ASSUME NEW t \in Threads, NEW s \in Threads, TypeOK, RetOf(t), CallOf(t), OwnOf(t),
           CallOf(s), CurrentOf(s), CountsAgree, \A u \in Threads : ShowsOf(u),
           FoundOf(s), Step(t)
    PROVE  FoundOf(s)'
<1>1. SharedType /\ LocalType
  BY Zenon DEF TypeOK
<1>2. SUFFICES ASSUME pc'[s] = "ws_state" PROVE ~Unsafe(target[s])'
  BY Zenon DEF FoundOf
<1>3. PICK v \in Threads : v = target[s]
  BY <1>1 DEF LocalType
<1>4. /\ target'[s] = v
      /\ pc[s] = "ws_state" \/ (pc[s] = "ws_read" /\ disable_count[v] = 0)
  BY ZenonT(60), <1>1, <1>2, <1>3, LocalFrame, FoundLabel
<1>5. Agent(s) \in Agents /\ stage[Agent(s)][v] = "asked"
  BY ZenonT(60), <1>1, <1>3, <1>4, WorksOn DEF Current, WaitLabels, Agent, Agents
<1>6. ~Unsafe(v)
  BY <1>3, <1>4, <1>5 DEF FoundOf, ShowsOf, Shows, Signalled
<1>7. suspend_count[v] > 0 /\ request[v] > 0
  BY Zenon, <1>5, SuspendedCounts
<1>8. ~Unsafe(v)'
  BY ZenonT(60), <1>1, <1>6, <1>7, StaysSafe
<1> QED BY Zenon, <1>4, <1>8 DEF Unsafe, Own

\* A step keeps suspended threads out of unsafe regions.
LEMMA StoppedStep ==
    ASSUME NEW t \in Threads, TypeOK, RetOf(t), CallOf(t), OwnOf(t), CurrentOf(t),
           CountsAgree, FoundOf(t), StoppedStaysSafe, Step(t)
    PROVE  StoppedStaysSafe'
<1>1. SharedType /\ LocalType /\ stage \in [Agents -> [Threads -> Stages]]
  BY Zenon DEF TypeOK, SharedType
<1>2. SUFFICES ASSUME NEW u \in Threads, NEW b \in Agents, stage'[b][u] = "stopped"
               PROVE  ~Unsafe(u)'
  BY Zenon DEF StoppedStaysSafe
<1>3. PICK a \in Agents, v \in Threads : a = Agent(t) /\ v = target[t]
  BY <1>1 DEF LocalType, Agent, Agents
<1>4. \/ stage[b][u] = "stopped"
      \/ wait_safe_region_state(t) /\ u = v /\ stage[b][u] = "asked"
      \/ jthread_suspend_self(t) /\ u = t
  BY SMTT(30), <1>1, <1>2, <1>3, StageValues
<1>5. CASE stage[b][u] = "stopped"
  BY Zenon, <1>1, <1>5, SuspendedCounts, StaysSafe DEF StoppedStaysSafe
<1>6. CASE wait_safe_region_state(t) /\ u = v /\ stage[b][u] = "asked"
  <2>1. ~Unsafe(u)
    BY <1>3, <1>6 DEF FoundOf, wait_safe_region_state
  <2> QED BY ZenonT(60), <2>1, <1>1, <1>6, SuspendedCounts, StaysSafe
<1>7. CASE jthread_suspend_self(t) /\ u = t
  BY Zenon, <1>1, <1>7 DEF jthread_suspend_self, Goto, LocalType, Unsafe, SafePointLabels
<1> QED BY <1>4, <1>5, <1>6, <1>7

\* The inductive step.
LEMMA StepInv ==
    ASSUME IInv, NEW t \in Threads, Step(t)
    PROVE  IInv'
<1>1. /\ TypeOK /\ SharedType /\ LocalType /\ CountsAgree /\ StoppedStaysSafe
      /\ \A s \in Threads :
            /\ RetOf(s) /\ CallOf(s) /\ OwnOf(s) /\ LockOf(s)
            /\ CurrentOf(s) /\ RowOf(s) /\ FlagOf(s) /\ JavaOf(s)
            /\ ShowsOf(s) /\ FoundOf(s)
  BY DEF IInv, TypeOK, ControlInv, StageInv, RegionInv
<1>2. TypeOK' /\ target'[t] \in Threads
  BY Zenon, <1>1, TypeStep DEF TypeOK, LocalType
<1>3. Move(t)
  BY Zenon, <1>1, ResumeCounts, MoveStep
<1>4. RetOf(t)' /\ CallOf(t)' /\ OwnOf(t)' /\ LockOf(t)'
  <2>1. pc[t] \in {"run", "dis_check", "u_held"} => call[t] # "jsuspend"
    BY Zenon, <1>1 DEF RetOf, CallOf, At, SafePointLabels, SendLabels, WaitLabels, ResumeLabels
  <2> QED BY <2>1, <1>1, RetStep, CallStep, OwnStep, LockStep
<1>5. CurrentOf(t)' /\ RowOf(t)' /\ FlagOf(t)'
  BY ZenonT(60), <1>1, <1>2, <1>3, CurrentStep, RowStep, FlagStep
<1>6. \A u \in Threads : u # t => /\ RetOf(u)' /\ CallOf(u)' /\ OwnOf(u)' /\ LockOf(u)'
                                  /\ CurrentOf(u)' /\ RowOf(u)' /\ FlagOf(u)'
  BY <1>1, OtherStep
<1>7. \A u \in Threads : JavaOf(u)'
  BY Zenon, <1>1, JavaStep
<1>8. CountsAgree' /\ StoppedStaysSafe'
  BY Zenon, <1>1, CountsStep, StoppedStep
<1>9. \A u \in Threads : ShowsOf(u)' /\ FoundOf(u)'
  BY <1>1, ShowsStep, FoundStep
<1>10. ControlInv' /\ StageInv' /\ RegionInv'
  BY ZenonT(60), <1>4, <1>5, <1>6, <1>7, <1>9 DEF ControlInv, StageInv, RegionInv
<1> QED BY Zenon, <1>2, <1>8, <1>10 DEF IInv

\* The invariant does not depend on anything but the variables.
LEMMA StutterInv ==
    ASSUME IInv, UNCHANGED vars
    PROVE  IInv'
<1>0. /\ pc' = pc /\ ret' = ret /\ call' = call /\ target' = target /\ todo' = todo
      /\ saved' = saved /\ disable_count' = disable_count /\ store_buffer' = store_buffer
      /\ TM_LOCK' = TM_LOCK /\ p_suspend_lock' = p_suspend_lock /\ stage' = stage
      /\ suspend_flag' = suspend_flag /\ suspend_count' = suspend_count /\ request' = request
      /\ resume_event' = resume_event /\ suspended' = suspended
  BY Zenon DEF vars
<1>1. TypeOK'
  <2>1. SharedType'
    BY <1>0 DEF IInv, TypeOK, SharedType
  <2>2. LocalType'
    BY Zenon, <1>0 DEF IInv, TypeOK, LocalType
  <2> QED BY Zenon, <2>1, <2>2 DEF TypeOK
<1>2. ASSUME NEW s \in Threads, RetOf(s), CallOf(s), OwnOf(s), LockOf(s)
      PROVE  RetOf(s)' /\ CallOf(s)' /\ OwnOf(s)' /\ LockOf(s)'
  <2>0. /\ pc'[s] = pc[s] /\ ret'[s] = ret[s] /\ call'[s] = call[s]
        /\ target'[s] = target[s] /\ todo'[s] = todo[s]
    BY <1>0
  <2>1. At(s)' = At(s) /\ Own(s)' = Own(s)
    BY Zenon, <1>0 DEF At, Own
  <2>2. Critical(s)' <=> Critical(s)
    BY Zenon, <1>0, <2>1 DEF Critical
  <2>3. HoldsGlobal(s)' <=> HoldsGlobal(s)
    BY <1>0, <2>1 DEF HoldsGlobal
  <2>4. RetOf(s)'
    BY <2>0, <1>2 DEF RetOf
  <2>5. CallOf(s)'
    BY <2>0, <2>1, <1>2 DEF CallOf
  <2>6. OwnOf(s)'
    BY ZenonT(60), <1>0, <2>1, <1>2 DEF OwnOf
  <2>7. LockOf(s)'
    BY <1>0, <2>2, <2>3, <1>2 DEF LockOf
  <2> QED BY Zenon, <2>4, <2>5, <2>6, <2>7
<1>3. ASSUME NEW s \in Threads
      PROVE  (CurrentOf(s)' <=> CurrentOf(s)) /\ (RowOf(s)' <=> RowOf(s))
  <2>1. At(s)' = At(s) /\ Agent(s)' = Agent(s)
    BY Zenon, <1>0 DEF At, Agent
  <2>2. Current(s)' = Current(s) /\ (Critical(s)' <=> Critical(s))
    BY <1>0, <2>1 DEF Current, Critical
  <2>3. Ahead(s)' = Ahead(s) /\ Behind(s)' = Behind(s)
    BY ZenonT(60), <1>0, <2>1, <2>2 DEF Ahead, Behind
  <2>4. CurrentOf(s)' <=> CurrentOf(s)
    BY <1>0, <2>1, <2>2 DEF CurrentOf
  <2>5. RowOf(s)' <=> RowOf(s)
    BY ZenonT(60), <1>0, <2>1, <2>2, <2>3 DEF RowOf
  <2> QED BY Zenon, <2>4, <2>5
<1>6. ASSUME NEW s \in Threads
      PROVE  (FlagOf(s)' <=> FlagOf(s)) /\ (JavaOf(s)' <=> JavaOf(s))
  <2>1. At(s)' = At(s)
    BY Zenon, <1>0 DEF At
  <2>2. Critical(s)' <=> Critical(s)
    BY Zenon, <1>0, <2>1 DEF Critical
  <2> QED BY <1>0, <2>1, <2>2 DEF FlagOf, JavaOf
<1>7. ControlInv' /\ StageInv'
  BY <1>2, <1>3, <1>6 DEF IInv, ControlInv, StageInv
<1>4. CountsAgree' /\ StoppedStaysSafe'
  BY ZenonT(60), <1>0 DEF IInv, CountsAgree, StoppedStaysSafe, Unsafe, Own
<1>5. RegionInv'
  BY <1>0 DEF IInv, RegionInv, ShowsOf, FoundOf, Shows, Signalled, Unsafe, Own
<1> QED BY <1>1, <1>4, <1>5, <1>7 DEF IInv

\* The invariant holds when the threads have just been attached.
LEMMA InitInv == Init => IInv
<1> SUFFICES ASSUME Init PROVE IInv
  BY Zenon
<1>1. TypeOK
  <2>1. <<>> \in Seq(0 .. MaxDisable)
    BY Zenon, EmptySeq
  <2>2. SharedType
    BY <2>1, BoundsAssumption DEF Init, SharedType, Stages
  <2>3. LocalType
    BY BoundsAssumption DEF Init, LocalType, Labels, Calls
  <2> QED BY <2>2, <2>3 DEF TypeOK
<1>2. \A t \in Threads : Own(t) = 0 /\ ~Unsafe(t)
  BY SMTT(30) DEF Init, Own, Unsafe
<1>3. ControlInv
  BY <1>2, ThreadsAssumption DEF Init, ControlInv, RetOf, CallOf, OwnOf, LockOf, HoldsGlobal,
       Critical, At, SafePointLabels, ResumeLabels
<1>4. StageInv
  BY ThreadsAssumption DEF Init, StageInv, CurrentOf, RowOf, FlagOf, JavaOf, Critical, At,
       SafePointLabels, Agents
<1>5. CountsAgree
  <2>1. \A t \in Threads : /\ {a \in Agents : stage[a][t] \in CountedStages} = {}
                           /\ {a \in Agents : stage[a][t] \in RequestedStages} = {}
    BY Zenon DEF Init, CountedStages, RequestedStages
  <2> QED BY Zenon, <2>1, FS_EmptySet DEF Init, CountsAgree
<1>6. RegionInv /\ StoppedStaysSafe
  BY <1>2 DEF Init, RegionInv, ShowsOf, FoundOf, StoppedStaysSafe
<1> QED BY ZenonT(60), <1>1, <1>3, <1>4, <1>5, <1>6 DEF IInv

\* The inductive invariant holds in every reachable state, for any finite set of
\* threads, any roles and any bounds.
THEOREM Invariance == Spec => []IInv
<1>1. IInv /\ [Next]_vars => IInv'
  BY Zenon, StepInv, StutterInv DEF Next
<1> QED BY <1>1, InitInv, PTL DEF Spec

\* Type correctness, with resume_event a semaphore of maximum 1.
THEOREM TypeCorrect == Spec => []TypeOK
<1>1. IInv => TypeOK
  BY Zenon DEF IInv
<1> QED BY <1>1, Invariance, PTL

\* Safe suspension is safe: from the moment hythread_suspend_other or
\* hythread_suspend_all has got hold of a thread until hythread_resume, the thread
\* does not run in an unsafe region, although hythread_suspend_disable has no
\* barrier between its store and its test.
THEOREM StoppedSafe == Spec => []StoppedStaysSafe
<1>1. IInv => StoppedStaysSafe
  BY DEF IInv
<1> QED BY <1>1, Invariance, PTL

\* suspend_count and request are exactly the numbers of suspensions in progress.
THEOREM CountsCorrect == Spec => []CountsAgree
<1>1. IInv => CountsAgree
  BY Zenon DEF IInv
<1> QED BY <1>1, Invariance, PTL

\* No operation returns with a suspension left behind, TM_ERROR_EBUSY included.
THEOREM NothingLeftBehind == Spec => []SuspensionsOwned
<1>1. IInv => SuspensionsOwned
  <2> SUFFICES ASSUME IInv, NEW t \in Threads
               PROVE  /\ \A s \in Threads :
                            call[s] \in {"none", "jsuspend", "jresume"} =>
                               stage[s][t] = "none"
                      /\ p_suspend_lock = NoThread =>
                            stage[Java][t] = IF suspend_flag[t] THEN "stopped" ELSE "none"
    BY DEF SuspensionsOwned
  <2>1. \A s \in Threads : RowOf(s) /\ JavaOf(s)
    BY DEF IInv, StageInv
  <2> QED BY Zenon, <2>1, ThreadsAssumption DEF RowOf, JavaOf
<1> QED BY <1>1, Invariance, PTL

\* When hythread_suspend_all has returned, no other thread runs in an unsafe
\* region, and there is one collector at a time.
THEOREM WorldStops == Spec => []StopTheWorld
<1>1. IInv => StopTheWorld
  <2> SUFFICES ASSUME IInv, NEW s \in Threads, NEW t \in Threads, WorldStopped(s), s # t
               PROVE  ~Unsafe(t) /\ ~WorldStopped(t)
    BY Zenon DEF StopTheWorld
  <2>1. /\ RowOf(s) /\ LockOf(s) /\ LockOf(t) /\ StoppedStaysSafe
        /\ s \in Agents
    BY Zenon DEF IInv, StageInv, ControlInv, Agents
  <2>2. At(s) = "run" /\ call[s] = "collect"
    BY Zenon DEF WorldStopped, At, SafePointLabels
  <2>3. stage[s][t] = "stopped"
    BY <2>1, <2>2 DEF RowOf, Behind, SendLabels, WaitLabels, ResumeLabels
  <2>4. ~Unsafe(t)
    BY Zenon, <2>1, <2>3 DEF StoppedStaysSafe
  <2>5. TM_LOCK = s
    BY ZenonT(60), <2>1, <2>2 DEF LockOf, HoldsGlobal
  <2>6. WorldStopped(t) => TM_LOCK = t
    BY <2>1 DEF WorldStopped, LockOf, HoldsGlobal, At, SafePointLabels
  <2> QED BY Zenon, <2>4, <2>5, <2>6
<1> QED BY <1>1, Invariance, PTL

\* resume_event is changed by hysem_wait and hysem_post only.
LEMMA EventCases ==
    ASSUME NEW t \in Threads, Step(t)
    PROVE  UNCHANGED resume_event \/ safe_point_wait(t) \/ resume_post(t)
<1> USE DEF Goto, protocolVars, localVars, lockVars
<1>1. CASE Drain(t)
  BY <1>1 DEF Drain
<1>2. CASE safe_point(t)
  BY Zenon, <1>2 DEF safe_point
<1>3. CASE Region(t)
  BY ZenonT(60), <1>3 DEF Region, suspend_disable, Store, suspend_disable_check,
        suspend_enable, blocking_call
<1>4. CASE SafePoint(t)
  BY <1>4 DEF SafePoint, safe_point_check, Return, safe_point_enter,
        safe_point_wait, safe_point_loop, set_suspend_disable,
        set_suspend_disable_check
<1>5. CASE Suspend(t)
  BY Zenon, <1>5 DEF Suspend, send_suspend_count, Agent, send_suspend_request,
        send_suspend_yield, yield_other, wait_safe_region_read,
        wait_safe_region_busy, BusyLabel, BusyReturn, wait_safe_region_state,
        StoppedLabel
<1>6. CASE Resume(t)
  BY ZenonT(60), <1>6 DEF Resume, resume_count, Agent, Return, resume_request,
        resume_check, resume_state, resume_post
<1>7. CASE Unreserve(t)
  BY <1>7 DEF Unreserve, unreserve_resume, yield_other, unreserve_done, End,
        unreserve_busy
<1>8. CASE Inspect(t)
  BY Zenon, <1>8 DEF Inspect, global_lock, global_lock_check, inspect_unlock,
        inspect_resume, inspect_done, End
<1>9. CASE Collect(t)
  BY ZenonT(60), <1>9 DEF Collect, suspend_all_iterator, iterator_create,
        suspend_all_send, iterator_next, suspend_all_sent, suspend_all_wait,
        suspend_all_stopped, resume_all, resume_all_iterator,
        resume_all_next, resume_all_done, End
<1>10. CASE JavaSuspend(t)
  BY <1>10 DEF JavaSuspend, jthread_suspend_lock, suspend_lock, End,
        jthread_suspend_self, jthread_suspend_relock, jthread_suspend_busy,
        jthread_suspend_unlock, suspend_unlock, jthread_resume_lock,
        jthread_resume_unlock
<1>11. CASE Start(t)
  BY Zenon, <1>11 DEF Start, suspend_all, Begin, unreserve_lock, inspect,
        jthread_suspend, jthread_resume
<1> QED BY ZenonT(60), <1>1, <1>2, <1>3, <1>4, <1>5, <1>6, <1>7, <1>8, <1>9, <1>10, <1>11 DEF Step

\* A thread gets to wait in thread_safe_point_impl only when it has read its
\* suspend_count positive.
LEMMA WaitLabel ==
    ASSUME NEW t \in Threads, LocalType, RetOf(t), Step(t),
           pc'[t] \in {"sp_enter", "sp_wait"}
    PROVE  /\ ~safe_point_wait(t)
           /\ \/ pc[t] \in {"sp_enter", "sp_wait"}
              \/ suspend_count[t] # 0 /\ UNCHANGED suspend_count
<1> USE DEF LocalType, RetOf, SafePointLabels, ResumeLabels, Goto,
      protocolVars, localVars, lockVars
<1>1. CASE Drain(t)
  BY <1>1 DEF Drain, safe_point_wait
<1>2. CASE safe_point(t)
  BY Zenon, <1>2 DEF safe_point
<1>3. CASE Region(t)
  BY ZenonT(60), <1>3 DEF Region, suspend_disable, Store, suspend_disable_check,
        suspend_enable, blocking_call
<1>4. CASE SafePoint(t)
  BY <1>4 DEF SafePoint, safe_point_check, Return, safe_point_enter,
        safe_point_wait, safe_point_loop, set_suspend_disable,
        set_suspend_disable_check
<1>5. CASE Suspend(t)
  BY Zenon, <1>5 DEF Suspend, send_suspend_count, Agent, send_suspend_request,
        send_suspend_yield, yield_other, wait_safe_region_read,
        wait_safe_region_busy, BusyLabel, BusyReturn, wait_safe_region_state,
        StoppedLabel
<1>6. CASE Resume(t)
  BY ZenonT(60), <1>6 DEF Resume, resume_count, Agent, Return, resume_request,
        resume_check, resume_state, resume_post
<1>7. CASE Unreserve(t)
  BY <1>7 DEF Unreserve, unreserve_resume, yield_other, unreserve_done, End,
        unreserve_busy
<1>8. CASE Inspect(t)
  BY SMTT(30), <1>8 DEF Inspect, global_lock, global_lock_check, inspect_unlock,
        inspect_resume, inspect_done, End
<1>9. CASE Collect(t)
  BY <1>9 DEF Collect, suspend_all_iterator, iterator_create,
        suspend_all_send, iterator_next, suspend_all_sent, suspend_all_wait,
        suspend_all_stopped, resume_all, resume_all_iterator,
        resume_all_next, resume_all_done, End
<1>10. CASE JavaSuspend(t)
  BY Zenon, <1>10 DEF JavaSuspend, jthread_suspend_lock, suspend_lock, End,
        jthread_suspend_self, jthread_suspend_relock, jthread_suspend_busy,
        jthread_suspend_unlock, suspend_unlock, jthread_resume_lock,
        jthread_resume_unlock
<1>11. CASE Start(t)
  BY ZenonT(60), <1>11 DEF Start, suspend_all, Begin, unreserve_lock, inspect,
        jthread_suspend, jthread_resume
<1> QED BY ZenonT(60), <1>1, <1>2, <1>3, <1>4, <1>5, <1>6, <1>7, <1>8, <1>9, <1>10, <1>11 DEF Step

\* A resumer that has lowered suspend_count to 0 goes on to post the event.
LEMMA PostMoves ==
    ASSUME NEW t \in Threads, LocalType, SharedType, Step(t), suspend_count[target[t]] = 0,
           pc[t] \in {"rs_request", "rs_check", "rs_state", "rs_post"}
    PROVE  \/ resume_event'[target[t]] = 1
           \/ /\ target'[t] = target[t]
              /\ pc'[t] \in {"rs_request", "rs_check", "rs_state", "rs_post"}
<1> USE DEF LocalType, SharedType, SafePointLabels, ResumeLabels, Goto,
      protocolVars, localVars, lockVars
<1>1. CASE Drain(t)
  BY <1>1 DEF Drain
<1>2. CASE safe_point(t)
  BY Zenon, <1>2 DEF safe_point
<1>3. CASE Region(t)
  BY ZenonT(60), <1>3 DEF Region, suspend_disable, Store, suspend_disable_check,
        suspend_enable, blocking_call
<1>4. CASE SafePoint(t)
  BY <1>4 DEF SafePoint, safe_point_check, Return, safe_point_enter,
        safe_point_wait, safe_point_loop, set_suspend_disable,
        set_suspend_disable_check
<1>5. CASE Suspend(t)
  BY SMTT(30), <1>5 DEF Suspend, send_suspend_count, Agent, send_suspend_request,
        send_suspend_yield, yield_other, wait_safe_region_read,
        wait_safe_region_busy, BusyLabel, BusyReturn, wait_safe_region_state,
        StoppedLabel
<1>6. CASE Resume(t)
  BY SMTT(30), <1>6 DEF Resume, resume_count, Agent, Return, resume_request,
        resume_check, resume_state, resume_post
<1>7. CASE Unreserve(t)
  BY ZenonT(60), <1>7 DEF Unreserve, unreserve_resume, yield_other, unreserve_done, End,
        unreserve_busy
<1>8. CASE Inspect(t)
  BY <1>8 DEF Inspect, global_lock, global_lock_check, inspect_unlock,
        inspect_resume, inspect_done, End
<1>9. CASE Collect(t)
  BY ZenonT(60), <1>9 DEF Collect, suspend_all_iterator, iterator_create,
        suspend_all_send, iterator_next, suspend_all_sent, suspend_all_wait,
        suspend_all_stopped, resume_all, resume_all_iterator,
        resume_all_next, resume_all_done, End
<1>10. CASE JavaSuspend(t)
  BY <1>10 DEF JavaSuspend, jthread_suspend_lock, suspend_lock, End,
        jthread_suspend_self, jthread_suspend_relock, jthread_suspend_busy,
        jthread_suspend_unlock, suspend_unlock, jthread_resume_lock,
        jthread_resume_unlock
<1>11. CASE Start(t)
  BY Zenon, <1>11 DEF Start, suspend_all, Begin, unreserve_lock, inspect,
        jthread_suspend, jthread_resume
<1> QED BY Zenon, <1>1, <1>2, <1>3, <1>4, <1>5, <1>6, <1>7, <1>8, <1>9, <1>10, <1>11 DEF Step

\* A step loses no resumption.
LEMMA EventStep ==
    ASSUME NEW t \in Threads, TypeOK, RetOf(t), Step(t), NoLostResume
    PROVE  NoLostResume'
<1>1. SharedType /\ LocalType
  BY Zenon DEF TypeOK
<1> DEFINE posting == {"rs_request", "rs_check", "rs_state", "rs_post"}
<1>2. SUFFICES ASSUME NEW u \in Threads, pc'[u] \in {"sp_enter", "sp_wait"},
                      suspend_count'[u] = 0, resume_event'[u] # 1
               PROVE  \E s \in Threads : target'[s] = u /\ pc'[s] \in posting
  BY Zenon DEF NoLostResume
<1>3. /\ suspend_count \in [Threads -> Nat] /\ resume_event \in [Threads -> 0 .. 1]
      /\ target \in [Threads -> Threads] /\ pc \in [Threads -> Labels]
  BY Zenon, <1>1 DEF SharedType, LocalType
<1>4. CASE suspend_count[u] # 0
  <2>1. resume_count(t) /\ suspend_count[target[t]] # 0 /\ target[t] = u
    <3>1. suspend_count' # suspend_count
      BY Zenon, <1>2, <1>4
    <3>2. ~send_suspend_count(t)
      BY <1>2, <1>3, <1>4 DEF send_suspend_count
    <3>3. resume_count(t) /\ suspend_count[target[t]] # 0
      BY ZenonT(60), <3>1, <3>2, StageCases DEF send_suspend_request, send_suspend_yield,
           wait_safe_region_state, resume_request, jthread_suspend_self
    <3> QED BY SMTT(30), <3>3, <1>2, <1>3, <1>4 DEF resume_count
  <2>2. target'[t] = u /\ pc'[t] = "rs_request"
    BY <2>1, <1>3 DEF resume_count, Goto
  <2> QED BY ZenonT(60), <2>2
<1>5. CASE suspend_count[u] = 0
  <2>1. pc[u] \in {"sp_enter", "sp_wait"} /\ (u = t => ~safe_point_wait(t))
    BY ZenonT(60), <1>1, <1>2, <1>5, LocalFrame, WaitLabel
  <2>2. resume_event[u] # 1
    BY <2>1, <1>2, <1>3, EventCases DEF safe_point_wait, resume_post
  <2>3. PICK s \in Threads : target[s] = u /\ pc[s] \in posting
    BY Zenon, <2>1, <2>2, <1>5 DEF NoLostResume
  <2>4. target'[s] = u /\ pc'[s] \in posting
    BY ZenonT(60), <2>3, <1>1, <1>2, <1>5, LocalFrame, PostMoves
  <2> QED BY SMTT(30), <2>4
<1> QED BY Zenon, <1>4, <1>5

\* The semaphore resume_event never forgets a resumption.
THEOREM ResumeNotLost == Spec => []NoLostResume
<1>1. Init => NoLostResume
  BY Zenon DEF Init, NoLostResume
<1>2. IInv /\ NoLostResume /\ [Next]_vars => NoLostResume'
  <2> SUFFICES ASSUME IInv, NoLostResume, [Next]_vars PROVE NoLostResume'
    BY ZenonT(60)
  <2>1. CASE UNCHANGED vars
    BY <2>1 DEF vars, NoLostResume
  <2>2. CASE Next
    BY Zenon, <2>2, EventStep DEF Next, IInv, ControlInv
  <2> QED BY Zenon, <2>1, <2>2
<1> QED BY <1>1, <1>2, Invariance, PTL DEF Spec

\* SUSPENDED is set where a suspension returns and cleared in hythread_resume, which does
\* nothing else between the test of suspend_count and the clearing.
LEMMA StateCases ==
    ASSUME NEW t \in Threads, Step(t)
    PROVE  /\ \/ UNCHANGED suspended \/ wait_safe_region_state(t) \/ resume_state(t)
              \/ jthread_suspend_self(t)
           /\ pc[t] \in {"rs_check", "rs_state"} =>
                 resume_check(t) \/ resume_state(t) \/ UNCHANGED <<pc, target, suspended>>
<1> USE DEF Goto, protocolVars, localVars, lockVars
<1>1. CASE Drain(t)
  BY Zenon, <1>1 DEF Drain
<1>2. CASE safe_point(t)
  BY Zenon, <1>2 DEF safe_point
<1>3. CASE Region(t)
  BY ZenonT(60), <1>3 DEF Region, suspend_disable, Store, suspend_disable_check,
        suspend_enable, blocking_call
<1>4. CASE SafePoint(t)
  BY <1>4 DEF SafePoint, safe_point_check, Return, safe_point_enter,
        safe_point_wait, safe_point_loop, set_suspend_disable,
        set_suspend_disable_check
<1>5. CASE Suspend(t)
  BY Zenon, <1>5 DEF Suspend, send_suspend_count, Agent, send_suspend_request,
        send_suspend_yield, yield_other, wait_safe_region_read,
        wait_safe_region_busy, BusyLabel, BusyReturn, wait_safe_region_state,
        StoppedLabel
<1>6. CASE Resume(t)
  BY ZenonT(60), <1>6
     DEF Resume, resume_count, resume_request, resume_check, resume_state, resume_post
<1>7. CASE Unreserve(t)
  BY <1>7 DEF Unreserve, unreserve_resume, yield_other, unreserve_done, End,
        unreserve_busy
<1>8. CASE Inspect(t)
  BY Zenon, <1>8 DEF Inspect, global_lock, global_lock_check, inspect_unlock,
        inspect_resume, inspect_done, End
<1>9. CASE Collect(t)
  BY ZenonT(60), <1>9 DEF Collect, suspend_all_iterator, iterator_create,
        suspend_all_send, iterator_next, suspend_all_sent, suspend_all_wait,
        suspend_all_stopped, resume_all, resume_all_iterator,
        resume_all_next, resume_all_done, End
<1>10. CASE JavaSuspend(t)
  BY <1>10 DEF JavaSuspend, jthread_suspend_lock, suspend_lock, End,
        jthread_suspend_self, jthread_suspend_relock, jthread_suspend_busy,
        jthread_suspend_unlock, suspend_unlock, jthread_resume_lock,
        jthread_resume_unlock
<1>11. CASE Start(t)
  BY Zenon, <1>11 DEF Start, suspend_all, Begin, unreserve_lock, inspect,
        jthread_suspend, jthread_resume
<1> QED BY ZenonT(60), <1>1, <1>2, <1>3, <1>4, <1>5, <1>6, <1>7, <1>8, <1>9, <1>10, <1>11 DEF Step

\* A step leaves no SUSPENDED state behind.
LEMMA ClearStep ==
    ASSUME NEW t \in Threads, TypeOK, CountsAgree, Step(t), SuspendedClearAtEnd
    PROVE  SuspendedClearAtEnd'
<1> DEFINE clearing == {"rs_check", "rs_state"}
<1>1. /\ SharedType /\ LocalType /\ stage \in [Agents -> [Threads -> Stages]]
      /\ target \in [Threads -> Threads] /\ pc \in [Threads -> Labels]
      /\ suspended \in [Threads -> BOOLEAN]
  BY Zenon DEF TypeOK, SharedType, LocalType
<1>2. PICK a \in Agents, v \in Threads : a = Agent(t) /\ v = target[t]
  BY Zenon, <1>1 DEF Agent, Agents
<1>3. SUFFICES ASSUME NEW u \in Threads, \A b \in Agents : stage'[b][u] = "none", suspended'[u]
               PROVE  \E s \in Threads : target'[s] = u /\ pc'[s] \in clearing
  BY Zenon DEF SuspendedClearAtEnd
<1>4. ~wait_safe_region_state(t) \/ v # u
  BY <1>1, <1>2, <1>3 DEF wait_safe_region_state
<1>5. ~jthread_suspend_self(t) \/ t # u
  BY <1>1, <1>3 DEF jthread_suspend_self, Agents
<1>6. suspended[u] /\ ~(resume_state(t) /\ v = u)
  BY <1>1, <1>2, <1>3, <1>4, <1>5, StateCases
     DEF wait_safe_region_state, resume_state, jthread_suspend_self
<1>7. CASE \E b \in Agents : stage[b][u] # "none"
  <2>1. PICK b \in Agents : stage[b][u] # "none"
    BY <1>7
  <2>2. stage'[b][u] = "none"
    BY ZenonT(60), <1>3
  <2>3. resume_request(t) /\ v = u
    <3>1. ASSUME NEW c \in Agents, NEW w \in Threads, NEW x,
                 stage' = [stage EXCEPT ![c][w] = x]
          PROVE  x = "none" /\ w = u
      BY <1>1, <2>1, <2>2, <3>1
    <3>2. ASSUME \/ send_suspend_count(t) \/ send_suspend_request(t) \/ send_suspend_yield(t)
                 \/ wait_safe_region_state(t) \/ (resume_count(t) /\ suspend_count[target[t]] # 0)
          PROVE  FALSE
      <4>1. PICK x \in {"counted", "requested", "asked", "stopped", "uncounted"} :
                stage' = [stage EXCEPT ![Agent(t)][target[t]] = x]
        BY Zenon, <3>2 DEF send_suspend_count, send_suspend_request, send_suspend_yield,
                           wait_safe_region_state, resume_count
      <4>2. stage' = [stage EXCEPT ![a][v] = x]
        BY Zenon, <1>2, <4>1
      <4> QED
        BY Zenon, <3>1, <4>2
    <3>3. ASSUME jthread_suspend_self(t) PROVE FALSE
      <4>1. PICK c \in Agents : c = Java
        BY Zenon DEF Agents
      <4>2. PICK x \in {"stopped"} : stage' = [stage EXCEPT ![c][t] = x]
        BY Zenon, <3>3, <4>1 DEF jthread_suspend_self
      <4> QED
        BY Zenon, <3>1, <4>2
    <3>4. stage' # stage
      BY Zenon, <2>1, <2>2
    <3>5. resume_request(t)
      BY Zenon, <3>2, <3>3, <3>4, StageCases
    <3>6. stage' = [stage EXCEPT ![a][v] = "none"]
      BY Zenon, <1>2, <3>5 DEF resume_request
    <3> QED
      BY Zenon, <3>1, <3>5, <3>6
  <2>4. target'[t] = u /\ pc'[t] = "rs_check"
    BY ZenonT(60), <2>3, <1>1, <1>2 DEF resume_request, Goto, localVars
  <2> QED BY Zenon, <2>4
<1>8. CASE \A b \in Agents : stage[b][u] = "none"
  <2>1. PICK s \in Threads : target[s] = u /\ pc[s] \in clearing
    BY Zenon, <1>6, <1>8 DEF SuspendedClearAtEnd
  <2>2. CASE s # t
    <3>1. target'[s] = u /\ pc'[s] \in clearing
      BY ZenonT(60), <2>1, <2>2, <1>1, LocalFrame
    <3> QED BY Zenon, <3>1
  <2>3. CASE s = t
    <3>1. {b \in Agents : stage[b][u] \in CountedStages} = {}
      BY <1>8 DEF CountedStages
    <3>2. suspend_count[u] = 0
      BY Zenon, <3>1, FS_EmptySet DEF CountsAgree
    <3>3. v = u /\ pc[t] \in clearing
      BY Zenon, <2>1, <2>3, <1>2
    <3>4. resume_check(t) \/ UNCHANGED <<pc, target, suspended>>
      BY ZenonT(90), <3>3, <1>6, StateCases
    <3>5. CASE resume_check(t)
      <4>1. Goto(t, "rs_state") /\ target' = target
        <5>1. ~(suspend_count[u] > 0)
          <6>1. ~(0 > 0)
            OBVIOUS
          <6> QED BY Zenon, <3>2, <6>1
        <5> QED
          BY Zenon, <3>3, <3>5, <5>1, <1>2 DEF resume_check
      <4>2. target'[t] = u /\ pc'[t] = "rs_state"
        BY Zenon, <3>3, <4>1, <1>1, <1>2 DEF Goto
      <4> QED BY Zenon, <4>2
    <3>6. CASE UNCHANGED <<pc, target, suspended>>
      BY Zenon, <2>1, <2>3, <3>6
    <3> QED BY Zenon, <3>4, <3>5, <3>6
  <2> QED BY Zenon, <2>2, <2>3
<1> QED BY Zenon, <1>7, <1>8

\* hythread_resume: once every suspension of a thread is over its SUSPENDED state is
\* cleared, whatever the number of resumers and their order.
THEOREM StateCleared == Spec => []SuspendedClearAtEnd
<1>1. Init => SuspendedClearAtEnd
  BY DEF Init, SuspendedClearAtEnd
<1>2. IInv /\ SuspendedClearAtEnd /\ [Next]_vars => SuspendedClearAtEnd'
  <2> SUFFICES ASSUME IInv, SuspendedClearAtEnd, [Next]_vars PROVE SuspendedClearAtEnd'
    BY Zenon
  <2>1. CASE UNCHANGED vars
    BY Zenon, <2>1 DEF vars, SuspendedClearAtEnd
  <2>2. CASE Next
    BY Zenon, <2>2, ClearStep DEF Next, IInv
  <2> QED BY Zenon, <2>1, <2>2
<1> QED BY <1>1, <1>2, Invariance, PTL DEF Spec

\* Freshly attached threads satisfy the initial condition of SafeRegion.
LEMMA PromiseInit == Init => Promise!Init
<1> SUFFICES ASSUME Init PROVE Promise!Init
  BY Zenon
<1>1. \A t \in Threads : ~Unsafe(t)
  BY DEF Init, Own, Unsafe
<1>2. \A a \in Agents, t \in Threads : stage[a][t] # "stopped"
  BY Zenon DEF Init
<1> QED BY Zenon, <1>1, <1>2 DEF Promise!Init

\* Every step of SafeSuspend is a step of SafeRegion or leaves it unchanged.
LEMMA PromiseStep ==
    ASSUME IInv, NEW t \in Threads, Step(t)
    PROVE  Promise!Next \/ UNCHANGED Promise!vars
<1> DEFINE unsafe == {u \in Threads : Unsafe(u)}
           held == [u \in Threads |-> {a \in Agents : stage[a][u] = "stopped"}]
<1>1. /\ SharedType /\ LocalType /\ RetOf(t) /\ CallOf(t) /\ OwnOf(t) /\ CurrentOf(t)
      /\ FoundOf(t) /\ CountsAgree /\ stage \in [Agents -> [Threads -> Stages]]
  BY DEF IInv, TypeOK, ControlInv, StageInv, RegionInv, SharedType
<1>2. PICK a \in Agents, v \in Threads : a = Agent(t) /\ v = target[t]
  BY <1>1 DEF LocalType, Agent, Agents
<1>3. \A u \in Threads : u # t => (Unsafe(u)' <=> Unsafe(u))
  BY Zenon, <1>1, LocalFrame, MemoryStep DEF Unsafe
<1>4. ASSUME \A b \in Agents, u \in Threads :
                stage'[b][u] = "stopped" <=> stage[b][u] = "stopped"
      PROVE  Promise!Next \/ UNCHANGED Promise!vars
  <2>1. held' = held
    BY SMTT(30), <1>4
  <2>2. CASE Unsafe(t)' <=> Unsafe(t)
    <3>1. unsafe' = unsafe
      BY Zenon, <1>3, <2>2
    <3> QED BY <2>1, <3>1 DEF Promise!vars
  <2>3. CASE Unsafe(t) /\ ~Unsafe(t)'
    <3>1. t \in unsafe /\ unsafe' = unsafe \ {t}
      BY <1>3, <2>3
    <3>2. Promise!enter_safe_region(t)
      BY Zenon, <2>1, <3>1 DEF Promise!enter_safe_region
    <3> QED BY Zenon, <3>2 DEF Promise!Next
  <2>4. CASE ~Unsafe(t) /\ Unsafe(t)'
    <3>1. t \notin unsafe /\ unsafe' = unsafe \cup {t}
      BY <1>3, <2>4
    <3>2. \A b \in Agents : stage[b][t] # "stopped"
      BY ZenonT(60), <2>4, <1>1, SuspendedCounts, StaysSafe
    <3>3. held[t] = {}
      BY SMTT(30), <3>2
    <3>4. Promise!leave_safe_region(t)
      BY Zenon, <2>1, <3>1, <3>3 DEF Promise!leave_safe_region
    <3> QED BY Zenon, <3>4 DEF Promise!Next
  <2> QED BY <2>2, <2>3, <2>4
<1>5. ASSUME Unsafe(t)' <=> Unsafe(t), ~Unsafe(v),
             stage' = [stage EXCEPT ![a][v] = "stopped"]
      PROVE  Promise!Next
  <2>1. v \notin unsafe /\ unsafe' = unsafe
    BY <1>3, <1>5
  <2>2. held' = [held EXCEPT ![v] = @ \cup {a}]
    BY ZenonT(60), <1>1, <1>5
  <2>3. Promise!suspend(a, v)
    BY <2>1, <2>2 DEF Promise!suspend
  <2> QED BY Zenon, <2>3 DEF Promise!Next
<1>6. ASSUME Unsafe(t)' <=> Unsafe(t), stage[a][v] = "stopped",
             stage' = [stage EXCEPT ![a][v] = "uncounted"]
      PROVE  Promise!Next
  <2>1. unsafe' = unsafe
    BY Zenon, <1>3, <1>6
  <2>2. a \in held[v] /\ held' = [held EXCEPT ![v] = @ \ {a}]
    BY Zenon, <1>1, <1>6
  <2>3. Promise!resume(a, v)
    BY Zenon, <2>1, <2>2 DEF Promise!resume
  <2> QED BY Zenon, <2>3 DEF Promise!Next
<1>7. CASE wait_safe_region_state(t) /\ stage' = [stage EXCEPT ![a][v] = "stopped"]
  <2>1. Unsafe(t)' <=> Unsafe(t)
    BY ZenonT(60), <1>1, <1>7
       DEF wait_safe_region_state, StoppedLabel, Goto, LocalType, Unsafe, Own,
         SafePointLabels
  <2>2. ~Unsafe(v)
    BY Zenon, <1>1, <1>2, <1>7 DEF FoundOf, wait_safe_region_state
  <2> QED BY <2>1, <2>2, <1>5, <1>7
<1>8. CASE jthread_suspend_self(t) /\ v = t /\ stage' = [stage EXCEPT ![a][v] = "stopped"]
  <2>1. call[t] = "jsuspend"
    BY ZenonT(60), <1>1, <1>8
       DEF jthread_suspend_self, LocalType, Calls, CallOf, At, SafePointLabels,
         SendLabels, WaitLabels, ResumeLabels
  <2>2. ~Unsafe(t)
    BY SMTT(30), <2>1, <1>1 DEF OwnOf, Unsafe
  <2>3. ~Unsafe(t)'
    BY Zenon, <1>1, <1>8 DEF jthread_suspend_self, Goto, LocalType, Unsafe, SafePointLabels
  <2> QED BY ZenonT(60), <2>2, <2>3, <1>5, <1>8
<1>9. CASE resume_count(t) /\ stage[a][v] = "stopped"
           /\ stage' = [stage EXCEPT ![a][v] = "uncounted"]
  <2>1. Unsafe(t)' <=> Unsafe(t)
    BY ZenonT(60), <1>1, <1>9 DEF resume_count, Return, Goto, LocalType, RetOf, Unsafe, Own,
         SafePointLabels
  <2> QED BY <2>1, <1>6, <1>9
<1>10. \/ \A b \in Agents, u \in Threads :
             stage'[b][u] = "stopped" <=> stage[b][u] = "stopped"
       \/ wait_safe_region_state(t) /\ stage' = [stage EXCEPT ![a][v] = "stopped"]
       \/ jthread_suspend_self(t) /\ v = t /\ stage' = [stage EXCEPT ![a][v] = "stopped"]
       \/ resume_count(t) /\ stage[a][v] = "stopped"
             /\ stage' = [stage EXCEPT ![a][v] = "uncounted"]
  <2>1. ASSUME NEW x, x # "stopped", stage[a][v] # "stopped",
               stage' = [stage EXCEPT ![a][v] = x]
        PROVE  \A b \in Agents, u \in Threads :
                 stage'[b][u] = "stopped" <=> stage[b][u] = "stopped"
    BY Zenon, <2>1, <1>1
  <2>2. ASSUME UNCHANGED stage
        PROVE  \A b \in Agents, u \in Threads :
                 stage'[b][u] = "stopped" <=> stage[b][u] = "stopped"
    BY Zenon, <2>2
  <2>3. /\ LocalType /\ CallOf(t) /\ CurrentOf(t) /\ a = Agent(t) /\ v = target[t]
    BY ZenonT(60), <1>1, <1>2
  <2>4. \/ UNCHANGED stage
        \/ \E x \in {"counted", "requested", "asked", "none"} :
             stage[a][v] # "stopped" /\ stage' = [stage EXCEPT ![a][v] = x]
        \/ wait_safe_region_state(t) /\ stage' = [stage EXCEPT ![a][v] = "stopped"]
        \/ jthread_suspend_self(t) /\ v = t /\ stage' = [stage EXCEPT ![a][v] = "stopped"]
        \/ resume_count(t) /\ stage' = [stage EXCEPT ![a][v] = "uncounted"]
    BY <2>3, StageValues
  <2> QED BY <2>1, <2>2, <2>4
<1> QED BY ZenonT(60), <1>4, <1>7, <1>8, <1>9, <1>10

\* The protocol implements SafeRegion: a lock per thread shared by those who
\* suspend it, taken without a barrier by the thread itself.
THEOREM KeepsPromise == Spec => ImplementsSafeRegion
<1>1. IInv /\ [Next]_vars => [Promise!Next]_(Promise!vars)
  <2> SUFFICES ASSUME IInv, [Next]_vars PROVE Promise!Next \/ UNCHANGED Promise!vars
    OBVIOUS
  <2>1. CASE UNCHANGED vars
    BY Zenon, <2>1 DEF vars, Promise!vars, Unsafe, Own
  <2>2. CASE Next
    BY Zenon, <2>2, PromiseStep DEF Next
  <2> QED BY Zenon, <2>1, <2>2
<1> QED BY <1>1, PromiseInit, Invariance, PTL DEF Spec, ImplementsSafeRegion, Promise!Spec

=============================================================================
