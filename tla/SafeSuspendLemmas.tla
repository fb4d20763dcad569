------------------------- MODULE SafeSuspendLemmas --------------------------
(******************************************************************************)
(* Lemmas about SafeSuspend: stores and store buffers, labels and locals, the *)
(* two locks, types, what a step leaves alone, and the suspensions.           *)
(******************************************************************************)
EXTENDS SafeSuspendInv, FiniteSetTheorems, SequenceTheorems, TLAPS

\* How many suspensions of a thread are in one of some stages.
NumberOf(u, S) == Cardinality({b \in Agents : stage[b][u] \in S})

\* There are finitely many agents, hence finitely many suspensions of a thread.
LEMMA AgentsFinite ==
    /\ IsFiniteSet(Agents)
    /\ \A u \in Threads : \A S : IsFiniteSet({a \in Agents : stage[a][u] \in S})
<1>1. IsFiniteSet(Agents)
  BY Zenon, ThreadsAssumption, FS_AddElement DEF Agents
<1> QED BY Zenon, <1>1, FS_Subset

\* A suspension in some stage is counted.
LEMMA Counted ==
    ASSUME NEW u \in Threads, NEW S, NEW a \in Agents, stage[a][u] \in S
    PROVE  NumberOf(u, S) > 0
<1> DEFINE B == {b \in Agents : stage[b][u] \in S}
<1>1. IsFiniteSet(B) /\ B # {}
  BY Zenon, AgentsFinite
<1>2. Cardinality(B) \in Nat /\ Cardinality(B) # 0
  BY Zenon, <1>1, FS_EmptySet, FS_CardinalityType
<1> QED BY <1>2 DEF NumberOf

\* Moving one suspension to another stage changes the number of suspensions in a
\* set of stages by one, for its target only, or not at all.
LEMMA CountChange ==
    ASSUME NEW S, NEW a \in Agents, NEW u \in Threads, NEW x,
           stage \in [Agents -> [Threads -> Stages]],
           stage' = [stage EXCEPT ![a][u] = x]
    PROVE  \A v \in Threads :
             NumberOf(v, S)' = NumberOf(v, S)
               + (IF v = u /\ x \in S /\ stage[a][u] \notin S THEN 1 ELSE 0)
               - (IF v = u /\ x \notin S /\ stage[a][u] \in S THEN 1 ELSE 0)
<1>1. SUFFICES ASSUME NEW v \in Threads
               PROVE  NumberOf(v, S)' = NumberOf(v, S)
                        + (IF v = u /\ x \in S /\ stage[a][u] \notin S THEN 1 ELSE 0)
                        - (IF v = u /\ x \notin S /\ stage[a][u] \in S THEN 1 ELSE 0)
  BY Zenon
<1> DEFINE B == {b \in Agents : stage[b][v] \in S}
           C == {b \in Agents : stage'[b][v] \in S}
<1>2. IsFiniteSet(B) /\ Cardinality(B) \in Nat
  BY Zenon, AgentsFinite, FS_CardinalityType
<1>3. \A b \in Agents : stage'[b][v] = IF b = a /\ v = u THEN x ELSE stage[b][v]
  BY Zenon
<1>4. ASSUME v = u, x \in S, stage[a][u] \notin S
      PROVE  C = B \cup {a} /\ a \notin B
  BY Zenon, <1>3, <1>4
<1>5. ASSUME v = u, x \notin S, stage[a][u] \in S
      PROVE  C = B \ {a} /\ a \in B
  BY Zenon, <1>3, <1>5
<1>6. ASSUME v # u \/ (x \in S <=> stage[a][u] \in S)
      PROVE  C = B
  BY ZenonT(60), <1>3, <1>6
<1>7. SUFFICES Cardinality(C) =
                 Cardinality(B)
                   + (IF v = u /\ x \in S /\ stage[a][u] \notin S THEN 1 ELSE 0)
                   - (IF v = u /\ x \notin S /\ stage[a][u] \in S THEN 1 ELSE 0)
  BY Zenon DEF NumberOf
<1> HIDE DEF B, C
<1>8. /\ a \notin B => Cardinality(B \cup {a}) = Cardinality(B) + 1
      /\ a \in B => Cardinality(B \ {a}) = Cardinality(B) - 1
  BY Zenon, <1>2, FS_AddElement, FS_RemoveElement
<1>9. CASE v = u /\ x \in S /\ stage[a][u] \notin S
  <2>1. Cardinality(C) = Cardinality(B) + 1
    BY <1>9, <1>4, <1>8, Zenon
  <2> QED BY <2>1, <1>2, <1>9
<1>10. CASE v = u /\ x \notin S /\ stage[a][u] \in S
  <2>1. Cardinality(C) = Cardinality(B) - 1
    BY <1>10, <1>5, <1>8, Zenon
  <2> QED BY <2>1, <1>2, <1>10
<1>11. CASE v # u \/ (x \in S <=> stage[a][u] \in S)
  BY <1>11, <1>2, <1>6
<1> QED BY ZenonT(60), <1>9, <1>10, <1>11

\* The value a thread reads in its own disable_count, and every store of it that
\* is still on its way, is within the nesting bound of hythread_suspend_disable.
LEMMA OwnType ==
    ASSUME NEW t \in Threads, SharedType
    PROVE  /\ Own(t) \in 0 .. MaxDisable
           /\ Len(store_buffer[t]) \in Nat
           /\ \A i \in 1 .. Len(store_buffer[t]) :
                 store_buffer[t][i] \in 0 .. MaxDisable
<1>1. /\ disable_count[t] \in 0 .. MaxDisable
      /\ store_buffer[t] \in Seq(0 .. MaxDisable)
  BY Zenon DEF SharedType
<1>2. /\ Len(store_buffer[t]) \in Nat
      /\ \A i \in 1 .. Len(store_buffer[t]) :
            store_buffer[t][i] \in 0 .. MaxDisable
  BY Zenon, <1>1, LenProperties, ElementOfSeq
<1>3. CASE store_buffer[t] # <<>>
  <2>1. Len(store_buffer[t]) \in 1 .. Len(store_buffer[t])
    BY <1>1, <1>3, EmptySeq
  <2> QED BY Zenon, <2>1, <1>1, <1>2, <1>3 DEF Own
<1> QED BY Zenon, <1>1, <1>2, <1>3 DEF Own

\* A plain store of disable_count (hythread_suspend_disable and _enable): the
\* thread sees it at once, memory and the other threads see no change yet, and a
\* thread that shows its unsafe region still shows it if the value is positive.
LEMMA StoreOwn ==
    ASSUME NEW t \in Threads, SharedType, NEW n \in 0 .. MaxDisable, Store(t, n)
    PROVE  /\ store_buffer' \in [Threads -> Seq(0 .. MaxDisable)]
           /\ disable_count' = disable_count
           /\ Own(t)' = n
           /\ \A u \in Threads \ {t} : store_buffer'[u] = store_buffer[u]
           /\ n > 0 /\ Shows(t) => Shows(t)'
<1> DEFINE b == store_buffer[t]
<1>1. b \in Seq(0 .. MaxDisable) /\ store_buffer \in [Threads -> Seq(0 .. MaxDisable)]
  BY Zenon DEF SharedType
<1>2. /\ Append(b, n) \in Seq(0 .. MaxDisable)
      /\ Len(Append(b, n)) = Len(b) + 1
      /\ Append(b, n)[Len(b) + 1] = n
      /\ \A i \in 1 .. Len(b) : Append(b, n)[i] = b[i]
  BY <1>1, AppendProperties
<1>3. Len(b) \in Nat
  BY Zenon, <1>1, LenProperties
<1>4. Append(b, n) # <<>>
  BY <1>2, <1>3, EmptySeq
<1>5. store_buffer'[t] = Append(b, n) /\ disable_count' = disable_count
  BY Zenon, <1>1 DEF Store
<1>6. store_buffer' \in [Threads -> Seq(0 .. MaxDisable)]
  BY Zenon, <1>1, <1>2 DEF Store
<1>7. \A u \in Threads \ {t} : store_buffer'[u] = store_buffer[u]
  BY Zenon, <1>1 DEF Store
<1>8. Own(t)' = n
  BY Zenon, <1>2, <1>3, <1>4, <1>5 DEF Own
<1>9. ASSUME n > 0, Shows(t) PROVE Shows(t)'
  <2>1. SUFFICES ASSUME NEW i \in 1 .. Len(b) + 1
                 PROVE  store_buffer'[t][i] > 0
    BY Zenon, <1>9, <1>2, <1>5 DEF Shows
  <2>2. CASE i \in 1 .. Len(b)
    BY Zenon, <2>2, <1>9, <1>2, <1>5 DEF Shows
  <2>3. CASE i = Len(b) + 1
    BY Zenon, <2>3, <1>9, <1>2, <1>5
  <2> QED BY <2>2, <2>3, <1>3
<1> QED BY Zenon, <1>5, <1>6, <1>7, <1>8, <1>9

\* A buffered store that reaches memory changes what no thread reads in its own
\* disable_count, and hides no unsafe region that was shown.
LEMMA DrainOwn ==
    ASSUME NEW t \in Threads, SharedType, Drain(t)
    PROVE  /\ store_buffer' \in [Threads -> Seq(0 .. MaxDisable)]
           /\ disable_count' \in [Threads -> 0 .. MaxDisable]
           /\ \A u \in Threads : Own(u)' = Own(u)
           /\ \A u \in Threads : Shows(u) => Shows(u)'
<1> DEFINE b == store_buffer[t]
<1>1. /\ b \in Seq(0 .. MaxDisable) /\ b # <<>>
      /\ store_buffer \in [Threads -> Seq(0 .. MaxDisable)]
      /\ disable_count \in [Threads -> 0 .. MaxDisable]
  BY Zenon DEF SharedType, Drain
<1>2. /\ Head(b) \in 0 .. MaxDisable
      /\ Tail(b) \in Seq(0 .. MaxDisable)
      /\ Len(Tail(b)) = Len(b) - 1
      /\ \A i \in 1 .. Len(Tail(b)) : Tail(b)[i] = b[i + 1]
  BY Zenon, <1>1, HeadTailProperties
<1>3. Len(b) \in Nat \ {0} /\ Head(b) = b[1]
  BY <1>1, EmptySeq
<1>4. /\ store_buffer'[t] = Tail(b) /\ disable_count'[t] = Head(b)
      /\ \A u \in Threads \ {t} : /\ store_buffer'[u] = store_buffer[u]
                                   /\ disable_count'[u] = disable_count[u]
  BY Zenon, <1>1 DEF Drain
<1>5. /\ store_buffer' \in [Threads -> Seq(0 .. MaxDisable)]
      /\ disable_count' \in [Threads -> 0 .. MaxDisable]
  BY Zenon, <1>1, <1>2 DEF Drain
<1>6. Own(t)' = Own(t)
  <2>1. CASE Tail(b) = <<>>
    <3>1. Len(Tail(b)) = 0
      BY Zenon, <2>1, EmptySeq
    <3>2. Len(b) = 1
      BY <3>1, <1>2, <1>3
    <3> QED BY Zenon, <3>2, <2>1, <1>1, <1>3, <1>4 DEF Own
  <2>2. CASE Tail(b) # <<>>
    <3>1. Len(Tail(b)) \in Nat \ {0}
      BY Zenon, <2>2, <1>2, EmptySeq
    <3>2. Tail(b)[Len(Tail(b))] = b[Len(Tail(b)) + 1]
      <4>1. \A n \in Nat \ {0} : n \in 1 .. n
        OBVIOUS
      <4> QED BY <4>1, <3>1, <1>2, Zenon
    <3>3. Len(Tail(b)) + 1 = Len(b)
      BY <1>2, <1>3
    <3> QED BY Zenon, <3>2, <3>3, <2>2, <1>1, <1>4 DEF Own
  <2> QED BY Zenon, <2>1, <2>2
<1>7. ASSUME Shows(t) PROVE Shows(t)'
  BY <1>7, <1>2, <1>3, <1>4 DEF Shows
<1>8. \A u \in Threads \ {t} : Own(u)' = Own(u) /\ (Shows(u) => Shows(u)')
  BY Zenon, <1>4 DEF Own, Shows
<1> QED BY Zenon, <1>5, <1>6, <1>7, <1>8

\* hythread_yield_other(t) completes the stores of t: nothing changes for t
\* itself, and if t is in an unsafe region memory shows it from now on.
LEMMA YieldOwn ==
    ASSUME NEW t \in Threads, SharedType, yield_other(t)
    PROVE  /\ store_buffer' \in [Threads -> Seq(0 .. MaxDisable)]
           /\ disable_count' \in [Threads -> 0 .. MaxDisable]
           /\ \A u \in Threads : Own(u)' = Own(u)
           /\ Own(t) > 0 => Shows(t)'
           /\ \A u \in Threads \ {t} : Shows(u) => Shows(u)'
<1>1. /\ store_buffer \in [Threads -> Seq(0 .. MaxDisable)]
      /\ disable_count \in [Threads -> 0 .. MaxDisable]
      /\ Own(t) \in 0 .. MaxDisable
  BY Zenon, OwnType DEF SharedType
<1>2. <<>> \in Seq(0 .. MaxDisable) /\ Len(<<>>) = 0
  BY Zenon, EmptySeq
<1>3. /\ store_buffer'[t] = <<>> /\ disable_count'[t] = Own(t)
      /\ \A u \in Threads \ {t} : /\ store_buffer'[u] = store_buffer[u]
                                   /\ disable_count'[u] = disable_count[u]
  BY Zenon, <1>1 DEF yield_other
<1>4. /\ store_buffer' \in [Threads -> Seq(0 .. MaxDisable)]
      /\ disable_count' \in [Threads -> 0 .. MaxDisable]
  BY Zenon, <1>1, <1>2 DEF yield_other
<1>5. Own(t)' = Own(t) /\ \A u \in Threads \ {t} : Own(u)' = Own(u)
  BY Zenon, <1>3 DEF Own
<1>6. Own(t) > 0 => Shows(t)'
  BY <1>1, <1>2, <1>3 DEF Shows
<1>7. \A u \in Threads \ {t} : Shows(u) => Shows(u)'
  BY Zenon, <1>3 DEF Shows
<1> QED BY Zenon, <1>4, <1>5, <1>6, <1>7

\* A step of one thread leaves the label and the locals of all others alone: no
\* function of the thread manager touches another thread's stack.
LEMMA LocalFrame ==
    ASSUME NEW t \in Threads, NEW u \in Threads, u # t, LocalType, Step(t)
    PROVE  /\ pc'[u] = pc[u] /\ ret'[u] = ret[u] /\ call'[u] = call[u]
           /\ target'[u] = target[u] /\ todo'[u] = todo[u] /\ saved'[u] = saved[u]
<1> USE DEF LocalType, Goto, protocolVars, localVars, lockVars
<1>1. CASE Drain(t)
  BY Zenon, <1>1 DEF Drain
<1>2. CASE safe_point(t)
  BY Zenon, <1>2 DEF safe_point
<1>3. CASE Region(t)
  BY Zenon, <1>3 DEF Region, suspend_disable, Store, suspend_disable_check,
        suspend_enable, blocking_call
<1>4. CASE SafePoint(t)
  BY ZenonT(60), <1>4 DEF SafePoint, safe_point_check, Return, safe_point_enter,
        safe_point_wait, safe_point_loop, set_suspend_disable,
        set_suspend_disable_check
<1>5. CASE Suspend(t)
  BY Zenon, <1>5 DEF Suspend, send_suspend_count, Agent, send_suspend_request,
        send_suspend_yield, yield_other, wait_safe_region_read,
        wait_safe_region_busy, BusyLabel, BusyReturn, wait_safe_region_state,
        StoppedLabel
<1>6. CASE Resume(t)
  BY Zenon, <1>6 DEF Resume, resume_count, Agent, Return, resume_request,
        resume_check, resume_state, resume_post
<1>7. CASE Unreserve(t)
  BY Zenon, <1>7 DEF Unreserve, unreserve_resume, yield_other, unreserve_done, End,
        unreserve_busy
<1>8. CASE Inspect(t)
  BY <1>8 DEF Inspect, global_lock, global_lock_check, inspect_unlock,
        inspect_resume, inspect_done, End
<1>9. CASE Collect(t)
  BY ZenonT(60), <1>9 DEF Collect, suspend_all_iterator, iterator_create,
        suspend_all_send, iterator_next, suspend_all_sent, suspend_all_wait,
        suspend_all_stopped, resume_all, resume_all_iterator,
        resume_all_next, resume_all_done, End
<1>10. CASE JavaSuspend(t)
  BY ZenonT(60), <1>10 DEF JavaSuspend, jthread_suspend_lock, suspend_lock, End,
        jthread_suspend_self, jthread_suspend_relock, jthread_suspend_busy,
        jthread_suspend_unlock, suspend_unlock, jthread_resume_lock,
        jthread_resume_unlock
<1>11. CASE Start(t)
  BY <1>11 DEF Start, suspend_all, Begin, unreserve_lock, inspect,
        jthread_suspend, jthread_resume
<1> QED BY Zenon, <1>1, <1>2, <1>3, <1>4, <1>5, <1>6, <1>7, <1>8, <1>9, <1>10, <1>11 DEF Step

\* The step of a thread keeps its return label right: set by the callers of
\* thread_safe_point_impl and hythread_resume, reset on return.
LEMMA RetStep ==
    ASSUME NEW t \in Threads, LocalType, RetOf(t), Step(t)
    PROVE  RetOf(t)'
<1> USE DEF LocalType, RetOf, At, SafePointLabels, ResumeLabels, SendLabels,
      WaitLabels, Goto, protocolVars, localVars, lockVars
<1>1. CASE Drain(t)
  BY Zenon, <1>1 DEF Drain
<1>2. CASE safe_point(t)
  BY Zenon, <1>2 DEF safe_point
<1>3. CASE Region(t)
  BY Zenon, <1>3 DEF Region, suspend_disable, Store, suspend_disable_check,
        suspend_enable, blocking_call
<1>4. CASE SafePoint(t)
  BY <1>4 DEF SafePoint, safe_point_check, Return, safe_point_enter,
        safe_point_wait, safe_point_loop, set_suspend_disable,
        set_suspend_disable_check
<1>5. CASE Suspend(t)
  BY Zenon, <1>5 DEF Suspend, send_suspend_count, Agent, send_suspend_request,
        send_suspend_yield, yield_other, wait_safe_region_read,
        wait_safe_region_busy, BusyLabel, BusyReturn, wait_safe_region_state,
        StoppedLabel
<1>6. CASE Resume(t)
  BY Zenon, <1>6 DEF Resume, resume_count, Agent, Return, resume_request,
        resume_check, resume_state, resume_post
<1>7. CASE Unreserve(t)
  BY <1>7 DEF Unreserve, unreserve_resume, yield_other, unreserve_done, End,
        unreserve_busy
<1>8. CASE Inspect(t)
  BY Zenon, <1>8 DEF Inspect, global_lock, global_lock_check, inspect_unlock,
        inspect_resume, inspect_done, End
<1>9. CASE Collect(t)
  BY ZenonT(60), <1>9 DEF Collect, suspend_all_iterator, iterator_create,
        suspend_all_send, iterator_next, suspend_all_sent, suspend_all_wait,
        suspend_all_stopped, resume_all, resume_all_iterator,
        resume_all_next, resume_all_done, End
<1>10. CASE JavaSuspend(t)
  BY ZenonT(60), <1>10 DEF JavaSuspend, jthread_suspend_lock, suspend_lock, End,
        jthread_suspend_self, jthread_suspend_relock, jthread_suspend_busy,
        jthread_suspend_unlock, suspend_unlock, jthread_resume_lock,
        jthread_resume_unlock
<1>11. CASE Start(t)
  BY ZenonT(60), <1>11 DEF Start, suspend_all, Begin, unreserve_lock, inspect,
        jthread_suspend, jthread_resume
<1> QED BY Zenon, <1>1, <1>2, <1>3, <1>4, <1>5, <1>6, <1>7, <1>8, <1>9, <1>10, <1>11 DEF Step

\* The step of a thread keeps it at a label of the client operation it is in
\* (hythread_unreserve_lock, jvmtiGetStackTrace, hythread_suspend_all,
\* jthread_suspend, jthread_resume).
LEMMA CallStep ==
    ASSUME NEW t \in Threads, LocalType, RetOf(t), CallOf(t), Step(t)
    PROVE  CallOf(t)'
<1> USE DEF LocalType, Calls, RetOf, CallOf, Others, At, SafePointLabels,
      ResumeLabels, SendLabels, WaitLabels, Goto, protocolVars, localVars,
      lockVars
<1>1. CASE Drain(t)
  BY <1>1 DEF Drain
<1>2. CASE safe_point(t)
  BY ZenonT(60), <1>2 DEF safe_point
<1>3. CASE Region(t)
  BY ZenonT(60), <1>3 DEF Region, suspend_disable, Store, suspend_disable_check,
        suspend_enable, blocking_call
<1>4. CASE SafePoint(t)
  BY <1>4 DEF SafePoint, safe_point_check, Return, safe_point_enter,
        safe_point_wait, safe_point_loop, set_suspend_disable,
        set_suspend_disable_check
<1>5. CASE Suspend(t)
  BY SMTT(30), <1>5 DEF Suspend, send_suspend_count, Agent, send_suspend_request,
        send_suspend_yield, yield_other, wait_safe_region_read,
        wait_safe_region_busy, BusyLabel, BusyReturn, wait_safe_region_state,
        StoppedLabel
<1>6. CASE Resume(t)
  BY ZenonT(60), <1>6 DEF Resume, resume_count, Agent, Return, resume_request,
        resume_check, resume_state, resume_post
<1>7. CASE Unreserve(t)
  BY ZenonT(60), <1>7 DEF Unreserve, unreserve_resume, yield_other, unreserve_done, End,
        unreserve_busy
<1>8. CASE Inspect(t)
  BY SMTT(30), <1>8 DEF Inspect, global_lock, global_lock_check, inspect_unlock,
        inspect_resume, inspect_done, End
<1>9. CASE Collect(t)
  BY <1>9 DEF Collect, suspend_all_iterator, iterator_create,
        suspend_all_send, iterator_next, suspend_all_sent, suspend_all_wait,
        suspend_all_stopped, resume_all, resume_all_iterator,
        resume_all_next, resume_all_done, End
<1>10. CASE JavaSuspend(t)
  BY ZenonT(60), <1>10 DEF JavaSuspend, jthread_suspend_lock, suspend_lock, End,
        jthread_suspend_self, jthread_suspend_relock, jthread_suspend_busy,
        jthread_suspend_unlock, suspend_unlock, jthread_resume_lock,
        jthread_resume_unlock
<1>11. CASE Start(t)
  BY <1>11 DEF Start, suspend_all, Begin, unreserve_lock, inspect,
        jthread_suspend, jthread_resume
<1> QED BY ZenonT(60), <1>1, <1>2, <1>3, <1>4, <1>5, <1>6, <1>7, <1>8, <1>9, <1>10, <1>11 DEF Step

\* The step of a thread keeps the global thread lock and p_suspend_lock with the
\* thread whose label says that it holds them.
LEMMA LockStep ==
    ASSUME NEW t \in Threads, LocalType, RetOf(t), CallOf(t), LockOf(t), Step(t)
    PROVE  LockOf(t)'
<1> USE ThreadsAssumption DEF LocalType, Calls, RetOf, CallOf, LockOf,
      HoldsGlobal, Critical, At, SafePointLabels, ResumeLabels, SendLabels,
      WaitLabels, Goto, protocolVars, localVars, lockVars
<1>1. CASE Drain(t)
  BY ZenonT(60), <1>1 DEF Drain
<1>2. CASE safe_point(t)
  BY Zenon, <1>2 DEF safe_point
<1>3. CASE Region(t)
  BY ZenonT(60), <1>3 DEF Region, suspend_disable, Store, suspend_disable_check,
        suspend_enable, blocking_call
<1>4. CASE SafePoint(t)
  BY ZenonT(60), <1>4 DEF SafePoint, safe_point_check, Return, safe_point_enter,
        safe_point_wait, safe_point_loop, set_suspend_disable,
        set_suspend_disable_check
<1>5. CASE Suspend(t)
  BY ZenonT(60), <1>5 DEF Suspend, send_suspend_count, Agent, send_suspend_request,
        send_suspend_yield, yield_other, wait_safe_region_read,
        wait_safe_region_busy, BusyLabel, BusyReturn, wait_safe_region_state,
        StoppedLabel
<1>6. CASE Resume(t)
  BY ZenonT(60), <1>6 DEF Resume, resume_count, Agent, Return, resume_request,
        resume_check, resume_state, resume_post
<1>7. CASE Unreserve(t)
  BY ZenonT(60), <1>7 DEF Unreserve, unreserve_resume, yield_other, unreserve_done, End,
        unreserve_busy
<1>8. CASE Inspect(t)
  BY ZenonT(60), <1>8 DEF Inspect, global_lock, global_lock_check, inspect_unlock,
        inspect_resume, inspect_done, End
<1>9. CASE Collect(t)
  BY ZenonT(60), <1>9 DEF Collect, suspend_all_iterator, iterator_create,
        suspend_all_send, iterator_next, suspend_all_sent, suspend_all_wait,
        suspend_all_stopped, resume_all, resume_all_iterator,
        resume_all_next, resume_all_done, End
<1>10. CASE JavaSuspend(t)
  BY ZenonT(60), <1>10 DEF JavaSuspend, jthread_suspend_lock, suspend_lock, End,
        jthread_suspend_self, jthread_suspend_relock, jthread_suspend_busy,
        jthread_suspend_unlock, suspend_unlock, jthread_resume_lock,
        jthread_resume_unlock
<1>11. CASE Start(t)
  BY <1>11 DEF Start, suspend_all, Begin, unreserve_lock, inspect,
        jthread_suspend, jthread_resume
<1> QED BY ZenonT(60), <1>1, <1>2, <1>3, <1>4, <1>5, <1>6, <1>7, <1>8, <1>9, <1>10, <1>11 DEF Step

\* The steps that touch disable_count or a store buffer, one by one.
LEMMA MemoryCases ==
    ASSUME NEW t \in Threads, Step(t)
    PROVE  \/ UNCHANGED <<disable_count, store_buffer>>
           \/ Drain(t) \/ suspend_disable(t) \/ suspend_enable(t)
           \/ blocking_call(t) \/ safe_point_enter(t) \/ set_suspend_disable(t)
           \/ send_suspend_yield(t) \/ unreserve_resume(t)
<1> USE DEF Goto, protocolVars, localVars, lockVars
<1>1. CASE Drain(t)
  BY Zenon, <1>1 DEF Drain
<1>2. CASE safe_point(t)
  BY Zenon, <1>2 DEF safe_point
<1>3. CASE Region(t)
  BY Zenon, <1>3 DEF Region, suspend_disable, Store, suspend_disable_check,
        suspend_enable, blocking_call
<1>4. CASE SafePoint(t)
  BY Zenon, <1>4 DEF SafePoint, safe_point_check, Return, safe_point_enter,
        safe_point_wait, safe_point_loop, set_suspend_disable,
        set_suspend_disable_check
<1>5. CASE Suspend(t)
  BY Zenon, <1>5 DEF Suspend, send_suspend_count, Agent, send_suspend_request,
        send_suspend_yield, yield_other, wait_safe_region_read,
        wait_safe_region_busy, BusyLabel, BusyReturn, wait_safe_region_state,
        StoppedLabel
<1>6. CASE Resume(t)
  BY Zenon, <1>6 DEF Resume, resume_count, Agent, Return, resume_request,
        resume_check, resume_state, resume_post
<1>7. CASE Unreserve(t)
  BY Zenon, <1>7 DEF Unreserve, unreserve_resume, yield_other, unreserve_done, End,
        unreserve_busy
<1>8. CASE Inspect(t)
  BY Zenon, <1>8 DEF Inspect, global_lock, global_lock_check, inspect_unlock,
        inspect_resume, inspect_done, End
<1>9. CASE Collect(t)
  BY Zenon, <1>9 DEF Collect, suspend_all_iterator, iterator_create,
        suspend_all_send, iterator_next, suspend_all_sent, suspend_all_wait,
        suspend_all_stopped, resume_all, resume_all_iterator,
        resume_all_next, resume_all_done, End
<1>10. CASE JavaSuspend(t)
  BY Zenon, <1>10 DEF JavaSuspend, jthread_suspend_lock, suspend_lock, End,
        jthread_suspend_self, jthread_suspend_relock, jthread_suspend_busy,
        jthread_suspend_unlock, suspend_unlock, jthread_resume_lock,
        jthread_resume_unlock
<1>11. CASE Start(t)
  BY Zenon, <1>11 DEF Start, suspend_all, Begin, unreserve_lock, inspect,
        jthread_suspend, jthread_resume
<1> QED BY Zenon, <1>1, <1>2, <1>3, <1>4, <1>5, <1>6, <1>7, <1>8, <1>9, <1>10, <1>11 DEF Step

\* The steps that touch suspend_count, request or a suspension, one by one.
LEMMA StageCases ==
    ASSUME NEW t \in Threads, Step(t)
    PROVE  \/ UNCHANGED <<suspend_count, request, stage>>
           \/ send_suspend_count(t) \/ send_suspend_request(t)
           \/ send_suspend_yield(t) \/ wait_safe_region_state(t)
           \/ resume_count(t) /\ suspend_count[target[t]] # 0
           \/ resume_request(t) \/ jthread_suspend_self(t)
<1> USE DEF Goto, protocolVars, localVars, lockVars
<1>1. CASE Drain(t)
  BY Zenon, <1>1 DEF Drain
<1>2. CASE safe_point(t)
  BY Zenon, <1>2 DEF safe_point
<1>3. CASE Region(t)
  BY Zenon, <1>3 DEF Region, suspend_disable, Store, suspend_disable_check,
        suspend_enable, blocking_call
<1>4. CASE SafePoint(t)
  BY Zenon, <1>4 DEF SafePoint, safe_point_check, Return, safe_point_enter,
        safe_point_wait, safe_point_loop, set_suspend_disable,
        set_suspend_disable_check
<1>5. CASE Suspend(t)
  BY Zenon, <1>5 DEF Suspend, send_suspend_count, Agent, send_suspend_request,
        send_suspend_yield, yield_other, wait_safe_region_read,
        wait_safe_region_busy, BusyLabel, BusyReturn, wait_safe_region_state,
        StoppedLabel
<1>6. CASE Resume(t)
  BY Zenon, <1>6 DEF Resume, resume_count, Agent, Return, resume_request,
        resume_check, resume_state, resume_post
<1>7. CASE Unreserve(t)
  BY Zenon, <1>7 DEF Unreserve, unreserve_resume, yield_other, unreserve_done, End,
        unreserve_busy
<1>8. CASE Inspect(t)
  BY Zenon, <1>8 DEF Inspect, global_lock, global_lock_check, inspect_unlock,
        inspect_resume, inspect_done, End
<1>9. CASE Collect(t)
  BY Zenon, <1>9 DEF Collect, suspend_all_iterator, iterator_create,
        suspend_all_send, iterator_next, suspend_all_sent, suspend_all_wait,
        suspend_all_stopped, resume_all, resume_all_iterator,
        resume_all_next, resume_all_done, End
<1>10. CASE JavaSuspend(t)
  BY Zenon, <1>10 DEF JavaSuspend, jthread_suspend_lock, suspend_lock, End,
        jthread_suspend_self, jthread_suspend_relock, jthread_suspend_busy,
        jthread_suspend_unlock, suspend_unlock, jthread_resume_lock,
        jthread_resume_unlock
<1>11. CASE Start(t)
  BY Zenon, <1>11 DEF Start, suspend_all, Begin, unreserve_lock, inspect,
        jthread_suspend, jthread_resume
<1> QED BY ZenonT(60), <1>1, <1>2, <1>3, <1>4, <1>5, <1>6, <1>7, <1>8, <1>9, <1>10, <1>11 DEF Step

\* Every step leads to a label of the model.
LEMMA LabelTypeStep ==
    ASSUME NEW t \in Threads, pc \in [Threads -> Labels], ret \in [Threads -> Labels], Step(t)
    PROVE  pc' \in [Threads -> Labels] /\ ret' \in [Threads -> Labels]
<1> USE DEF Labels, Goto, protocolVars, localVars, lockVars
<1>1. CASE Drain(t)
  BY Zenon, <1>1 DEF Drain
<1>2. CASE safe_point(t)
  BY Zenon, <1>2 DEF safe_point
<1>3. CASE Region(t)
  BY ZenonT(60), <1>3 DEF Region, suspend_disable, Store, suspend_disable_check,
        suspend_enable, blocking_call
<1>4. CASE SafePoint(t)
  BY ZenonT(60), <1>4 DEF SafePoint, safe_point_check, Return, safe_point_enter,
        safe_point_wait, safe_point_loop, set_suspend_disable,
        set_suspend_disable_check
<1>5. CASE Suspend(t)
  BY ZenonT(60), <1>5 DEF Suspend, send_suspend_count, Agent, send_suspend_request,
        send_suspend_yield, yield_other, wait_safe_region_read,
        wait_safe_region_busy, BusyLabel, BusyReturn, wait_safe_region_state,
        StoppedLabel
<1>6. CASE Resume(t)
  BY ZenonT(60), <1>6 DEF Resume, resume_count, Agent, Return, resume_request,
        resume_check, resume_state, resume_post
<1>7. CASE Unreserve(t)
  BY ZenonT(60), <1>7 DEF Unreserve, unreserve_resume, yield_other, unreserve_done, End,
        unreserve_busy
<1>8. CASE Inspect(t)
  BY ZenonT(60), <1>8 DEF Inspect, global_lock, global_lock_check, inspect_unlock,
        inspect_resume, inspect_done, End
<1>9. CASE Collect(t)
  BY ZenonT(60), <1>9 DEF Collect, suspend_all_iterator, iterator_create,
        suspend_all_send, iterator_next, suspend_all_sent, suspend_all_wait,
        suspend_all_stopped, resume_all, resume_all_iterator,
        resume_all_next, resume_all_done, End
<1>10. CASE JavaSuspend(t)
  BY ZenonT(60), <1>10 DEF JavaSuspend, jthread_suspend_lock, suspend_lock, End,
        jthread_suspend_self, jthread_suspend_relock, jthread_suspend_busy,
        jthread_suspend_unlock, suspend_unlock, jthread_resume_lock,
        jthread_resume_unlock
<1>11. CASE Start(t)
  BY ZenonT(60), <1>11 DEF Start, suspend_all, Begin, unreserve_lock, inspect,
        jthread_suspend, jthread_resume
<1> QED BY ZenonT(60), <1>1, <1>2, <1>3, <1>4, <1>5, <1>6, <1>7, <1>8, <1>9, <1>10, <1>11 DEF Step

\* Every step keeps the operation, its target and its iterator within their types.
LEMMA CallTypeStep ==
    ASSUME NEW t \in Threads, call \in [Threads -> Calls], target \in [Threads -> Threads],
           todo \in [Threads -> SUBSET Threads], Step(t)
    PROVE  call' \in [Threads -> Calls] /\ target' \in [Threads -> Threads]
           /\ todo' \in [Threads -> SUBSET Threads]
<1> USE DEF Calls, Others, Goto, protocolVars, localVars, lockVars
<1>1. CASE Drain(t)
  BY Zenon, <1>1 DEF Drain
<1>2. CASE safe_point(t)
  BY Zenon, <1>2 DEF safe_point
<1>3. CASE Region(t)
  BY Zenon, <1>3 DEF Region, suspend_disable, Store, suspend_disable_check,
        suspend_enable, blocking_call
<1>4. CASE SafePoint(t)
  BY Zenon, <1>4 DEF SafePoint, safe_point_check, Return, safe_point_enter,
        safe_point_wait, safe_point_loop, set_suspend_disable,
        set_suspend_disable_check
<1>5. CASE Suspend(t)
  BY <1>5 DEF Suspend, send_suspend_count, Agent, send_suspend_request,
        send_suspend_yield, yield_other, wait_safe_region_read,
        wait_safe_region_busy, BusyLabel, BusyReturn, wait_safe_region_state,
        StoppedLabel
<1>6. CASE Resume(t)
  BY Zenon, <1>6 DEF Resume, resume_count, Agent, Return, resume_request,
        resume_check, resume_state, resume_post
<1>7. CASE Unreserve(t)
  BY <1>7 DEF Unreserve, unreserve_resume, yield_other, unreserve_done, End,
        unreserve_busy
<1>8. CASE Inspect(t)
  BY <1>8 DEF Inspect, global_lock, global_lock_check, inspect_unlock,
        inspect_resume, inspect_done, End
<1>9. CASE Collect(t)
  BY <1>9 DEF Collect, suspend_all_iterator, iterator_create,
        suspend_all_send, iterator_next, suspend_all_sent, suspend_all_wait,
        suspend_all_stopped, resume_all, resume_all_iterator,
        resume_all_next, resume_all_done, End
<1>10. CASE JavaSuspend(t)
  BY <1>10 DEF JavaSuspend, jthread_suspend_lock, suspend_lock, End,
        jthread_suspend_self, jthread_suspend_relock, jthread_suspend_busy,
        jthread_suspend_unlock, suspend_unlock, jthread_resume_lock,
        jthread_resume_unlock
<1>11. CASE Start(t)
  BY <1>11 DEF Start, suspend_all, Begin, unreserve_lock, inspect,
        jthread_suspend, jthread_resume
<1> QED BY Zenon, <1>1, <1>2, <1>3, <1>4, <1>5, <1>6, <1>7, <1>8, <1>9, <1>10, <1>11 DEF Step

\* A thread whose unsafe region shows in memory is in one: its own disable_count
\* is positive.
LEMMA ShowsOwn ==
    ASSUME NEW t \in Threads, SharedType, Shows(t)
    PROVE  Own(t) > 0
<1>1. store_buffer[t] \in Seq(0 .. MaxDisable)
  BY Zenon DEF SharedType
<1>2. CASE store_buffer[t] # <<>>
  <2>1. Len(store_buffer[t]) \in 1 .. Len(store_buffer[t])
    BY <1>1, <1>2, EmptySeq
  <2> QED BY Zenon, <2>1, <1>2 DEF Own, Shows
<1> QED BY Zenon, <1>2 DEF Own, Shows

\* A step keeps the types of disable_count and of the buffers.  What the other
\* threads read in their own disable_count stays, and so does an unsafe region
\* that one of them shows: only hythread_yield_other writes for another thread.
LEMMA MemoryStep ==
    ASSUME NEW t \in Threads, SharedType, LocalType, Step(t)
    PROVE  /\ disable_count' \in [Threads -> 0 .. MaxDisable]
           /\ store_buffer' \in [Threads -> Seq(0 .. MaxDisable)]
           /\ \A u \in Threads \ {t} :
                 Own(u)' = Own(u) /\ (Shows(u) => Shows(u)')
<1> DEFINE Goal == /\ disable_count' \in [Threads -> 0 .. MaxDisable]
                   /\ store_buffer' \in [Threads -> Seq(0 .. MaxDisable)]
                   /\ \A u \in Threads \ {t} :
                         Own(u)' = Own(u) /\ (Shows(u) => Shows(u)')
<1>1. /\ disable_count \in [Threads -> 0 .. MaxDisable]
      /\ store_buffer \in [Threads -> Seq(0 .. MaxDisable)]
      /\ saved[t] \in 0 .. MaxDisable /\ target[t] \in Threads
      /\ Own(t) \in 0 .. MaxDisable /\ MaxDisable \in Nat
  BY Zenon, OwnType, BoundsAssumption DEF SharedType, LocalType
<1>2. CASE UNCHANGED <<disable_count, store_buffer>>
  BY Zenon, <1>1, <1>2 DEF Own, Shows
<1>3. CASE Drain(t)
  BY Zenon, <1>3, DrainOwn
<1>4. ASSUME NEW n \in 0 .. MaxDisable, Store(t, n) PROVE Goal
  <2>1. /\ store_buffer' \in [Threads -> Seq(0 .. MaxDisable)]
        /\ disable_count' = disable_count
        /\ \A u \in Threads \ {t} : store_buffer'[u] = store_buffer[u]
    BY Zenon, <1>4, StoreOwn
  <2> QED BY Zenon, <1>1, <2>1 DEF Own, Shows
<1>5. CASE suspend_disable(t)
  <2>1. Own(t) + 1 \in 0 .. MaxDisable /\ Store(t, Own(t) + 1)
    BY <1>1, <1>5 DEF suspend_disable
  <2> QED BY Zenon, <2>1, <1>4
<1>6. CASE suspend_enable(t)
  <2>1. Own(t) - 1 \in 0 .. MaxDisable /\ Store(t, Own(t) - 1)
    BY <1>1, <1>6 DEF suspend_enable
  <2> QED BY Zenon, <2>1, <1>4
<1>7. CASE blocking_call(t)
  <2>1. 0 \in 0 .. MaxDisable /\ Store(t, 0)
    BY <1>1, <1>7 DEF blocking_call
  <2> QED BY Zenon, <2>1, <1>4
<1>8. ASSUME NEW n \in 0 .. MaxDisable, UNCHANGED store_buffer,
             disable_count' = [disable_count EXCEPT ![t] = n]
      PROVE  Goal
  BY Zenon, <1>1, <1>8 DEF Own, Shows
<1>9. CASE safe_point_enter(t)
  <2>1. 0 \in 0 .. MaxDisable
    BY <1>1
  <2> QED BY Zenon, <2>1, <1>8, <1>9 DEF safe_point_enter
<1>10. CASE set_suspend_disable(t)
  BY Zenon, <1>1, <1>8, <1>10 DEF set_suspend_disable
<1>11. ASSUME NEW v \in Threads, yield_other(v) PROVE Goal
  <2>1. /\ store_buffer' \in [Threads -> Seq(0 .. MaxDisable)]
        /\ disable_count' \in [Threads -> 0 .. MaxDisable]
        /\ \A u \in Threads : Own(u)' = Own(u)
        /\ Own(v) > 0 => Shows(v)'
        /\ \A u \in Threads \ {v} : Shows(u) => Shows(u)'
    BY Zenon, <1>1, <1>11, YieldOwn
  <2>2. Shows(v) => Own(v) > 0
    BY Zenon, ShowsOwn
  <2> QED BY Zenon, <2>1, <2>2
<1>12. CASE send_suspend_yield(t) \/ unreserve_resume(t)
  <2>1. PICK v \in Threads : v = target[t]
    BY ZenonT(60), <1>1
  <2>2. yield_other(v)
    BY ZenonT(60), <2>1, <1>12 DEF send_suspend_yield, unreserve_resume
  <2> QED BY Zenon, <2>2, <1>11
<1> HIDE DEF Goal
<1>13. Goal
  BY Zenon, <1>2, <1>3, <1>5, <1>6, <1>7, <1>9, <1>10, <1>12, MemoryCases DEF Goal
<1> QED BY Zenon, <1>13 DEF Goal

\* A step keeps the types of suspend_count, request and the suspensions; request
\* is not lowered below 0 because hythread_resume lowers it once per suspension.
LEMMA ProtocolTypeStep ==
    ASSUME NEW t \in Threads, SharedType, LocalType, Step(t),
           pc[t] = "rs_request" => request[target[t]] > 0
    PROVE  /\ suspend_count' \in [Threads -> Nat]
           /\ request' \in [Threads -> Nat]
           /\ stage' \in [Agents -> [Threads -> Stages]]
<1>1. /\ suspend_count \in [Threads -> Nat] /\ request \in [Threads -> Nat]
      /\ stage \in [Agents -> [Threads -> Stages]]
      /\ target[t] \in Threads
  BY Zenon DEF SharedType, LocalType
<1>2. Agent(t) \in Agents /\ Java \in Agents
  BY Zenon DEF Agent, Agents
<1>3. ASSUME NEW a \in Agents, NEW u \in Threads, NEW x \in Stages
      PROVE  [stage EXCEPT ![a][u] = x] \in [Agents -> [Threads -> Stages]]
  BY Zenon, <1>1
<1>4. CASE UNCHANGED <<suspend_count, request, stage>>
  BY Zenon, <1>1, <1>4
<1>5. CASE send_suspend_count(t) \/ (resume_count(t) /\ suspend_count[target[t]] # 0)
  <2>1. /\ suspend_count' \in [Threads -> Nat] /\ UNCHANGED request
        /\ \E x \in Stages : stage' = [stage EXCEPT ![Agent(t)][target[t]] = x]
    BY <1>1, <1>5 DEF send_suspend_count, resume_count, Stages
  <2> QED BY <2>1, <1>1, <1>2, <1>3
<1>6. CASE send_suspend_request(t) \/ resume_request(t)
  <2>1. request' \in [Threads -> Nat]
    BY <1>1, <1>6 DEF send_suspend_request, resume_request
  <2>2. /\ UNCHANGED suspend_count
        /\ \E x \in Stages : stage' = [stage EXCEPT ![Agent(t)][target[t]] = x]
    BY Zenon, <1>6 DEF send_suspend_request, resume_request, Stages
  <2> QED BY <2>1, <2>2, <1>1, <1>2, <1>3
<1>7. CASE send_suspend_yield(t) \/ wait_safe_region_state(t)
  <2>1. /\ UNCHANGED <<suspend_count, request>>
        /\ \E x \in Stages : stage' = [stage EXCEPT ![Agent(t)][target[t]] = x]
    BY Zenon, <1>7 DEF send_suspend_yield, wait_safe_region_state, Stages
  <2> QED BY <2>1, <1>1, <1>2, <1>3
<1>8. CASE jthread_suspend_self(t)
  <2>1. /\ UNCHANGED <<suspend_count, request>>
        /\ \E x \in Stages : stage' = [stage EXCEPT ![Java][t] = x]
    BY Zenon, <1>8 DEF jthread_suspend_self, Stages
  <2> QED BY <2>1, <1>1, <1>2, <1>3
<1> QED BY Zenon, <1>4, <1>5, <1>6, <1>7, <1>8, StageCases

\* A step keeps the types of resume_event, of the SUSPENDED state, of suspend_flag
\* and of the two locks; the semaphore resume_event stays within 0 .. 1.
LEMMA LockTypeStep ==
    ASSUME NEW t \in Threads, SharedType, LocalType, Step(t)
    PROVE  /\ resume_event' \in [Threads -> 0 .. 1] /\ suspended' \in [Threads -> BOOLEAN]
           /\ suspend_flag' \in [Threads -> BOOLEAN]
           /\ TM_LOCK' \in Threads \cup {NoThread}
           /\ p_suspend_lock' \in Threads \cup {NoThread}
<1> USE DEF SharedType, LocalType, Goto, protocolVars, localVars, lockVars
<1>1. CASE Drain(t)
  BY Zenon, <1>1 DEF Drain
<1>2. CASE safe_point(t)
  BY Zenon, <1>2 DEF safe_point
<1>3. CASE Region(t)
  BY ZenonT(60), <1>3 DEF Region, suspend_disable, Store, suspend_disable_check,
        suspend_enable, blocking_call
<1>4. CASE SafePoint(t)
  <2>1. CASE safe_point_check(t)
    BY Zenon, <2>1 DEF safe_point_check, Return
  <2>2. CASE safe_point_enter(t)
    BY Zenon, <2>2 DEF safe_point_enter
  <2>3. CASE safe_point_wait(t)
    BY <2>3 DEF safe_point_wait
  <2>4. CASE safe_point_loop(t)
    BY Zenon, <2>4 DEF safe_point_loop
  <2>5. CASE set_suspend_disable(t)
    BY Zenon, <2>5 DEF set_suspend_disable
  <2>6. CASE set_suspend_disable_check(t)
    BY Zenon, <2>6 DEF set_suspend_disable_check, Return
  <2> QED BY Zenon, <1>4, <2>1, <2>2, <2>3, <2>4, <2>5, <2>6 DEF SafePoint
<1>5. CASE Suspend(t)
  BY ZenonT(60), <1>5 DEF Suspend, send_suspend_count, Agent, send_suspend_request,
        send_suspend_yield, yield_other, wait_safe_region_read,
        wait_safe_region_busy, BusyLabel, BusyReturn, wait_safe_region_state,
        StoppedLabel
<1>6. CASE Resume(t)
  <2>1. CASE resume_count(t)
    BY Zenon, <2>1 DEF resume_count, Agent, Return
  <2>2. CASE resume_request(t)
    BY Zenon, <2>2 DEF resume_request, Agent
  <2>3. CASE resume_check(t)
    BY Zenon, <2>3 DEF resume_check, Return
  <2>4. CASE resume_state(t)
    BY Zenon, <2>4 DEF resume_state
  <2>5. CASE resume_post(t)
    BY <2>5 DEF resume_post, Return
  <2> QED BY Zenon, <1>6, <2>1, <2>2, <2>3, <2>4, <2>5 DEF Resume
<1>7. CASE Unreserve(t)
  <2>1. CASE unreserve_resume(t)
    BY Zenon, <2>1 DEF unreserve_resume
  <2>2. CASE unreserve_done(t)
    BY Zenon, <2>2 DEF unreserve_done, End
  <2>3. CASE unreserve_busy(t)
    BY Zenon, <2>3 DEF unreserve_busy, End
  <2> QED BY Zenon, <1>7, <2>1, <2>2, <2>3 DEF Unreserve
<1>8. CASE Inspect(t)
  <2>1. CASE global_lock(t)
    BY Zenon, <2>1 DEF global_lock
  <2>2. CASE global_lock_check(t)
    BY Zenon, <2>2 DEF global_lock_check
  <2>3. CASE inspect_unlock(t)
    BY Zenon, <2>3 DEF inspect_unlock
  <2>4. CASE inspect_resume(t)
    BY Zenon, <2>4 DEF inspect_resume
  <2>5. CASE inspect_done(t)
    BY Zenon, <2>5 DEF inspect_done
  <2> QED BY ZenonT(60), <1>8, <2>1, <2>2, <2>3, <2>4, <2>5 DEF Inspect
<1>9. CASE Collect(t)
  BY ZenonT(60), <1>9 DEF Collect, suspend_all_iterator, iterator_create,
        suspend_all_send, iterator_next, suspend_all_sent, suspend_all_wait,
        suspend_all_stopped, resume_all, resume_all_iterator,
        resume_all_next, resume_all_done, End
<1>10. CASE JavaSuspend(t)
  BY ZenonT(60), <1>10 DEF JavaSuspend, jthread_suspend_lock, suspend_lock, End,
        jthread_suspend_self, jthread_suspend_relock, jthread_suspend_busy,
        jthread_suspend_unlock, suspend_unlock, jthread_resume_lock,
        jthread_resume_unlock
<1>11. CASE Start(t)
  <2>1. CASE suspend_all(t)
    BY Zenon, <2>1 DEF suspend_all
  <2>2. ASSUME NEW u \in Threads, unreserve_lock(t, u) \/ inspect(t, u)
        PROVE  UNCHANGED <<resume_event, suspended, suspend_flag, TM_LOCK, p_suspend_lock>>
    BY Zenon, <2>2 DEF unreserve_lock, inspect
  <2>3. ASSUME NEW u \in Threads, jthread_suspend(t, u) \/ jthread_resume(t, u)
        PROVE  UNCHANGED <<resume_event, suspended, suspend_flag, TM_LOCK, p_suspend_lock>>
    BY Zenon, <2>3 DEF jthread_suspend, jthread_resume
  <2> QED BY ZenonT(60), <1>11, <2>1, <2>2, <2>3 DEF Start
<1> QED BY ZenonT(60), <1>1, <1>2, <1>3, <1>4, <1>5, <1>6, <1>7, <1>8, <1>9, <1>10, <1>11 DEF Step

\* A step keeps the type of the disable_count saved in thread_safe_point_impl.
LEMMA SavedTypeStep ==
    ASSUME NEW t \in Threads, saved \in [Threads -> 0 .. MaxDisable],
           Own(t) \in 0 .. MaxDisable, disable_count[t] \in 0 .. MaxDisable, Step(t)
    PROVE  saved' \in [Threads -> 0 .. MaxDisable]
<1> USE BoundsAssumption DEF Goto, protocolVars, localVars, lockVars
<1>1. CASE Drain(t)
  BY Zenon, <1>1 DEF Drain
<1>2. CASE safe_point(t)
  BY Zenon, <1>2 DEF safe_point
<1>3. CASE Region(t)
  BY Zenon, <1>3 DEF Region, suspend_disable, Store, suspend_disable_check,
        suspend_enable, blocking_call
<1>4. CASE SafePoint(t)
  BY <1>4 DEF SafePoint, safe_point_check, Return, safe_point_enter,
        safe_point_wait, safe_point_loop, set_suspend_disable,
        set_suspend_disable_check
<1>5. CASE Suspend(t)
  BY Zenon, <1>5 DEF Suspend, send_suspend_count, Agent, send_suspend_request,
        send_suspend_yield, yield_other, wait_safe_region_read,
        wait_safe_region_busy, BusyLabel, BusyReturn, wait_safe_region_state,
        StoppedLabel
<1>6. CASE Resume(t)
  BY Zenon, <1>6 DEF Resume, resume_count, Agent, Return, resume_request,
        resume_check, resume_state, resume_post
<1>7. CASE Unreserve(t)
  BY Zenon, <1>7 DEF Unreserve, unreserve_resume, yield_other, unreserve_done, End,
        unreserve_busy
<1>8. CASE Inspect(t)
  BY Zenon, <1>8 DEF Inspect, global_lock, global_lock_check, inspect_unlock,
        inspect_resume, inspect_done, End
<1>9. CASE Collect(t)
  BY Zenon, <1>9 DEF Collect, suspend_all_iterator, iterator_create,
        suspend_all_send, iterator_next, suspend_all_sent, suspend_all_wait,
        suspend_all_stopped, resume_all, resume_all_iterator,
        resume_all_next, resume_all_done, End
<1>10. CASE JavaSuspend(t)
  BY ZenonT(60), <1>10 DEF JavaSuspend, jthread_suspend_lock, suspend_lock, End,
        jthread_suspend_self, jthread_suspend_relock, jthread_suspend_busy,
        jthread_suspend_unlock, suspend_unlock, jthread_resume_lock,
        jthread_resume_unlock
<1>11. CASE Start(t)
  BY Zenon, <1>11 DEF Start, suspend_all, Begin, unreserve_lock, inspect,
        jthread_suspend, jthread_resume
<1> QED BY Zenon, <1>1, <1>2, <1>3, <1>4, <1>5, <1>6, <1>7, <1>8, <1>9, <1>10, <1>11 DEF Step

\* No step takes a lock from another thread (hythread_global_lock and
\* p_suspend_lock are mutexes), and none hands p_suspend_lock to another one.
LEMMA LockFrame ==
    ASSUME NEW t \in Threads, NEW u \in Threads, u # t,
           LocalType, RetOf(t), CallOf(t), LockOf(t), Step(t)
    PROVE  /\ TM_LOCK = u => TM_LOCK' = u
           /\ p_suspend_lock = u <=> p_suspend_lock' = u
<1> USE ThreadsAssumption DEF LocalType, Calls, RetOf, CallOf, LockOf,
      HoldsGlobal, Critical, At, SafePointLabels, ResumeLabels, SendLabels,
      WaitLabels, Goto, protocolVars, localVars, lockVars
<1>1. CASE Drain(t)
  BY ZenonT(60), <1>1 DEF Drain
<1>2. CASE safe_point(t)
  BY Zenon, <1>2 DEF safe_point
<1>3. CASE Region(t)
  BY Zenon, <1>3 DEF Region, suspend_disable, Store, suspend_disable_check,
        suspend_enable, blocking_call
<1>4. CASE SafePoint(t)
  BY Zenon, <1>4 DEF SafePoint, safe_point_check, Return, safe_point_enter,
        safe_point_wait, safe_point_loop, set_suspend_disable,
        set_suspend_disable_check
<1>5. CASE Suspend(t)
  BY Zenon, <1>5 DEF Suspend, send_suspend_count, Agent, send_suspend_request,
        send_suspend_yield, yield_other, wait_safe_region_read,
        wait_safe_region_busy, BusyLabel, BusyReturn, wait_safe_region_state,
        StoppedLabel
<1>6. CASE Resume(t)
  BY Zenon, <1>6 DEF Resume, resume_count, Agent, Return, resume_request,
        resume_check, resume_state, resume_post
<1>7. CASE Unreserve(t)
  BY Zenon, <1>7 DEF Unreserve, unreserve_resume, yield_other, unreserve_done, End,
        unreserve_busy
<1>8. CASE Inspect(t)
  BY Zenon, <1>8 DEF Inspect, global_lock, global_lock_check, inspect_unlock,
        inspect_resume, inspect_done, End
<1>9. CASE Collect(t)
  BY ZenonT(60), <1>9 DEF Collect, suspend_all_iterator, iterator_create,
        suspend_all_send, iterator_next, suspend_all_sent, suspend_all_wait,
        suspend_all_stopped, resume_all, resume_all_iterator,
        resume_all_next, resume_all_done, End
<1>10. CASE JavaSuspend(t)
  <2>1. CASE jthread_suspend_lock(t)
    BY ZenonT(60), <2>1 DEF jthread_suspend_lock, suspend_lock, End
  <2>2. CASE jthread_suspend_self(t)
    BY ZenonT(60), <2>2 DEF jthread_suspend_self
  <2>3. CASE jthread_suspend_relock(t)
    BY Zenon, <2>3 DEF jthread_suspend_relock, End
  <2>4. CASE jthread_suspend_busy(t)
    BY ZenonT(60), <2>4 DEF jthread_suspend_busy
  <2>5. CASE jthread_suspend_unlock(t)
    BY Zenon, <2>5 DEF jthread_suspend_unlock, suspend_unlock, End
  <2>6. CASE jthread_resume_lock(t)
    BY Zenon, <2>6 DEF jthread_resume_lock, suspend_lock, End
  <2>7. CASE jthread_resume_unlock(t)
    BY Zenon, <2>7 DEF jthread_resume_unlock, suspend_unlock, End
  <2> QED BY Zenon, <1>10, <2>1, <2>2, <2>3, <2>4, <2>5, <2>6, <2>7 DEF JavaSuspend
<1>11. CASE Start(t)
  BY Zenon, <1>11 DEF Start, suspend_all, Begin, unreserve_lock, inspect,
        jthread_suspend, jthread_resume
<1> QED BY ZenonT(60), <1>1, <1>2, <1>3, <1>4, <1>5, <1>6, <1>7, <1>8, <1>9, <1>10, <1>11 DEF Step

\* A step touches only the suspension its operation works on, and one of
\* Thread.suspend only with p_suspend_lock held.
LEMMA StageFrame ==
    ASSUME NEW t \in Threads, SharedType, LocalType, RetOf(t), CallOf(t), Step(t)
    PROVE  /\ \A a \in Agents : \A u \in Threads :
                 (a = Agent(t) /\ u = target[t]) \/ stage'[a][u] = stage[a][u]
           /\ \A u \in Threads :
                 Critical(t) \/ stage'[Java][u] = stage[Java][u]
<1>1. /\ stage \in [Agents -> [Threads -> Stages]]
      /\ target[t] \in Threads /\ Agent(t) \in Agents /\ Java \in Agents
      /\ Java \notin Threads
  BY Zenon, ThreadsAssumption DEF SharedType, LocalType, Agent, Agents
<1>2. ASSUME NEW x, stage' = [stage EXCEPT ![Agent(t)][target[t]] = x],
             pc[t] \in {"sr_count", "sr_request", "sr_yield", "ws_state", "rs_cas",
                       "rs_request", "js_self"}
      PROVE  /\ \A a \in Agents : \A u \in Threads :
                   (a = Agent(t) /\ u = target[t]) \/ stage'[a][u] = stage[a][u]
             /\ \A u \in Threads :
                   Critical(t) \/ stage'[Java][u] = stage[Java][u]
  <2>1. \A a \in Agents : \A u \in Threads :
                   (a = Agent(t) /\ u = target[t]) \/ stage'[a][u] = stage[a][u]
    BY Zenon, <1>1, <1>2
  <2>2. Agent(t) = Java => Critical(t)
    BY Zenon, <1>1, <1>2 DEF Agent, Critical, At, SafePointLabels
  <2> QED BY Zenon, <2>1, <2>2, <1>1
<1>3. CASE UNCHANGED <<suspend_count, request, stage>>
  BY Zenon, <1>3
<1>4. CASE jthread_suspend_self(t)
  <2>1. call[t] = "jsuspend" /\ target[t] = t
    BY Zenon, <1>4 DEF jthread_suspend_self, LocalType, Calls, CallOf, At, SafePointLabels,
         SendLabels, WaitLabels, ResumeLabels
  <2>2. stage' = [stage EXCEPT ![Agent(t)][target[t]] = "stopped"] /\ pc[t] = "js_self"
    BY Zenon, <1>4, <2>1 DEF jthread_suspend_self, Agent
  <2> QED BY Zenon, <2>2, <1>2
<1>5. CASE ~UNCHANGED <<suspend_count, request, stage>> /\ ~jthread_suspend_self(t)
  <2>1. /\ \E x : stage' = [stage EXCEPT ![Agent(t)][target[t]] = x]
        /\ pc[t] \in {"sr_count", "sr_request", "sr_yield", "ws_state", "rs_cas",
                       "rs_request", "js_self"}
    BY Zenon, <1>5, StageCases DEF send_suspend_count, send_suspend_request,
         send_suspend_yield, wait_safe_region_state, resume_count, resume_request
  <2> QED BY Zenon, <2>1, <1>2
<1> QED BY Zenon, <1>3, <1>4, <1>5

\* suspend_flag is written only with p_suspend_lock held (jthread_suspend,
\* jthread_resume).
LEMMA FlagFrame ==
    ASSUME NEW t \in Threads, LocalType, RetOf(t), CallOf(t), LockOf(t), Step(t)
    PROVE  suspend_flag' = suspend_flag \/ (Critical(t) /\ ~Critical(t)')
<1> USE DEF LocalType, Calls, RetOf, CallOf, LockOf, Critical, At,
      SafePointLabels, ResumeLabels, SendLabels, WaitLabels, Goto,
      protocolVars, localVars, lockVars
<1>1. CASE Drain(t)
  BY Zenon, <1>1 DEF Drain
<1>2. CASE safe_point(t)
  BY Zenon, <1>2 DEF safe_point
<1>3. CASE Region(t)
  BY Zenon, <1>3 DEF Region, suspend_disable, Store, suspend_disable_check,
        suspend_enable, blocking_call
<1>4. CASE SafePoint(t)
  BY Zenon, <1>4 DEF SafePoint, safe_point_check, Return, safe_point_enter,
        safe_point_wait, safe_point_loop, set_suspend_disable,
        set_suspend_disable_check
<1>5. CASE Suspend(t)
  BY Zenon, <1>5 DEF Suspend, send_suspend_count, Agent, send_suspend_request,
        send_suspend_yield, yield_other, wait_safe_region_read,
        wait_safe_region_busy, BusyLabel, BusyReturn, wait_safe_region_state,
        StoppedLabel
<1>6. CASE Resume(t)
  BY Zenon, <1>6 DEF Resume, resume_count, Agent, Return, resume_request,
        resume_check, resume_state, resume_post
<1>7. CASE Unreserve(t)
  BY Zenon, <1>7 DEF Unreserve, unreserve_resume, yield_other, unreserve_done, End,
        unreserve_busy
<1>8. CASE Inspect(t)
  BY Zenon, <1>8 DEF Inspect, global_lock, global_lock_check, inspect_unlock,
        inspect_resume, inspect_done, End
<1>9. CASE Collect(t)
  BY Zenon, <1>9 DEF Collect, suspend_all_iterator, iterator_create,
        suspend_all_send, iterator_next, suspend_all_sent, suspend_all_wait,
        suspend_all_stopped, resume_all, resume_all_iterator,
        resume_all_next, resume_all_done, End
<1>10. CASE JavaSuspend(t)
  BY ZenonT(60), <1>10 DEF JavaSuspend, jthread_suspend_lock, suspend_lock, End,
        jthread_suspend_self, jthread_suspend_relock, jthread_suspend_busy,
        jthread_suspend_unlock, suspend_unlock, jthread_resume_lock,
        jthread_resume_unlock
<1>11. CASE Start(t)
  BY Zenon, <1>11 DEF Start, suspend_all, Begin, unreserve_lock, inspect,
        jthread_suspend, jthread_resume
<1> QED BY ZenonT(60), <1>1, <1>2, <1>3, <1>4, <1>5, <1>6, <1>7, <1>8, <1>9, <1>10, <1>11 DEF Step

\* In thread_safe_point_impl and hythread_set_suspend_disable the thread keeps
\* knowing its own disable_count: 0 while it waits, the saved value afterwards.
LEMMA OwnStep ==
    ASSUME NEW t \in Threads, SharedType, LocalType, RetOf(t), OwnOf(t), Step(t),
           pc[t] \in {"run", "dis_check", "u_held"} => call[t] # "jsuspend"
    PROVE  OwnOf(t)'
<1> USE DEF LocalType, RetOf, OwnOf, SafePointLabels, ResumeLabels, Goto,
      protocolVars, localVars, lockVars
<1>1. CASE Drain(t)
  BY Zenon, <1>1, DrainOwn DEF Drain
<1>2. CASE safe_point(t)
  BY Zenon, <1>2 DEF Own, safe_point
<1>3. CASE Region(t)
  <2>1. CASE suspend_disable(t)
    <3>1. Own(t) \in 0 .. MaxDisable /\ MaxDisable \in Nat
      BY Zenon, OwnType, BoundsAssumption
    <3>2. Own(t) + 1 \in 0 .. MaxDisable /\ Store(t, Own(t) + 1)
      BY <3>1, <2>1 DEF suspend_disable
    <3>3. PICK n \in 0 .. MaxDisable : n = Own(t) + 1
      BY Zenon, <3>2
    <3>4. Own(t)' = n /\ n > 0
      BY <3>1, <3>2, <3>3, StoreOwn
    <3>5. call[t] # "jsuspend"
      BY Zenon, <2>1 DEF suspend_disable
    <3> QED BY ZenonT(60), <2>1, <3>4, <3>5 DEF suspend_disable
  <2>2. CASE suspend_disable_check(t)
    BY Zenon, <2>2 DEF Own, suspend_disable_check
  <2>3. CASE suspend_enable(t)
    <3>1. call[t] # "jsuspend"
      BY Zenon, <2>3 DEF suspend_enable
    <3> QED BY Zenon, <2>3, <3>1 DEF suspend_enable
  <2>4. CASE blocking_call(t)
    <3>1. 0 \in 0 .. MaxDisable
      BY BoundsAssumption
    <3>2. Own(t)' = 0
      BY Zenon, <3>1, <2>4, StoreOwn DEF blocking_call
    <3>3. call[t] # "jsuspend"
      BY Zenon, <2>4 DEF blocking_call
    <3> QED BY ZenonT(60), <2>4, <3>2, <3>3 DEF blocking_call
  <2> QED BY Zenon, <1>3, <2>1, <2>2, <2>3, <2>4 DEF Region
<1>4. CASE SafePoint(t)
  <2>1. CASE safe_point_check(t)
    BY Zenon, <2>1 DEF Own, safe_point_check, Return
  <2>2. CASE safe_point_enter(t)
    <3>1. store_buffer'[t] = <<>> /\ disable_count'[t] = 0
      BY Zenon, <2>2 DEF Own, safe_point_enter, Drained, SharedType
    <3>2. Own(t) = disable_count[t]
      BY Zenon, <2>2 DEF Own, safe_point_enter, Drained, Own
    <3>3. Own(t)' = 0
      BY Zenon, <3>1 DEF Own
    <3> QED BY Zenon, <2>2, <3>2, <3>3 DEF safe_point_enter
  <2>3. CASE safe_point_wait(t)
    BY Zenon, <2>3 DEF Own, safe_point_wait
  <2>4. CASE safe_point_loop(t)
    BY Zenon, <2>4 DEF Own, safe_point_loop
  <2>5. CASE set_suspend_disable(t)
    <3>1. store_buffer'[t] = <<>> /\ disable_count'[t] = saved[t]
      BY Zenon, <2>5 DEF set_suspend_disable, Drained, SharedType
    <3>2. Own(t)' = saved[t]
      BY Zenon, <3>1 DEF Own
    <3> QED BY Zenon, <2>5, <3>2 DEF set_suspend_disable
  <2>6. CASE set_suspend_disable_check(t)
    BY ZenonT(60), <2>6 DEF Own, set_suspend_disable_check, Return
  <2> QED BY ZenonT(60), <1>4, <2>1, <2>2, <2>3, <2>4, <2>5, <2>6 DEF SafePoint
<1>5. CASE Suspend(t)
  <2>1. CASE send_suspend_count(t)
    BY Zenon, <2>1 DEF Own, send_suspend_count, Agent
  <2>2. CASE send_suspend_request(t)
    BY Zenon, <2>2 DEF Own, send_suspend_request, Agent
  <2>3. CASE send_suspend_yield(t)
    <3>1. PICK v \in Threads : v = target[t]
      BY Zenon, <2>3
    <3>2. Own(t)' = Own(t)
      BY Zenon, <3>1, <2>3, YieldOwn DEF send_suspend_yield
    <3> QED BY Zenon, <2>3, <3>2 DEF send_suspend_yield
  <2>4. CASE wait_safe_region_read(t)
    BY Zenon, <2>4 DEF Own, wait_safe_region_read
  <2>5. CASE wait_safe_region_busy(t)
    BY Zenon, <2>5 DEF Own, wait_safe_region_busy, BusyLabel, BusyReturn
  <2>6. CASE wait_safe_region_state(t)
    BY Zenon, <2>6 DEF Own, wait_safe_region_state, Agent, StoppedLabel
  <2> QED BY Zenon, <1>5, <2>1, <2>2, <2>3, <2>4, <2>5, <2>6 DEF Suspend
<1>6. CASE Resume(t)
  BY Zenon, <1>6 DEF Own, Resume, resume_count, Agent, Return, resume_request,
        resume_check, resume_state, resume_post
<1>7. CASE Unreserve(t)
  <2>1. CASE unreserve_resume(t)
    BY Zenon, <2>1 DEF unreserve_resume
  <2>2. CASE unreserve_done(t)
    BY Zenon, <2>2 DEF Own, unreserve_done, End
  <2>3. CASE unreserve_busy(t)
    BY Zenon, <2>3 DEF Own, unreserve_busy, End
  <2> QED BY Zenon, <1>7, <2>1, <2>2, <2>3 DEF Unreserve
<1>8. CASE Inspect(t)
  BY ZenonT(60), <1>8 DEF Own, Inspect, global_lock, global_lock_check, inspect_unlock,
        inspect_resume, inspect_done, End
<1>9. CASE Collect(t)
  <2>1. CASE suspend_all_iterator(t)
    BY Zenon, <2>1 DEF Own, suspend_all_iterator, iterator_create
  <2>2. CASE suspend_all_send(t)
    BY Zenon, <2>2 DEF Own, suspend_all_send, iterator_next
  <2>3. CASE suspend_all_sent(t)
    BY Zenon, <2>3 DEF Own, suspend_all_sent
  <2>4. CASE suspend_all_wait(t)
    BY Zenon, <2>4 DEF Own, suspend_all_wait, iterator_next
  <2>5. CASE suspend_all_stopped(t)
    BY Zenon, <2>5 DEF Own, suspend_all_stopped
  <2>6. CASE resume_all(t)
    BY Zenon, <2>6 DEF Own, resume_all
  <2>7. CASE resume_all_iterator(t)
    BY Zenon, <2>7 DEF Own, resume_all_iterator, iterator_create
  <2>8. CASE resume_all_next(t)
    BY Zenon, <2>8 DEF Own, resume_all_next, iterator_next
  <2>9. CASE resume_all_done(t)
    BY ZenonT(60), <2>9 DEF Own, resume_all_done, End
  <2> QED BY Zenon, <1>9, <2>1, <2>2, <2>3, <2>4, <2>5, <2>6, <2>7, <2>8, <2>9 DEF Collect
<1>10. CASE JavaSuspend(t)
  BY ZenonT(60), <1>10 DEF Own, JavaSuspend, jthread_suspend_lock, suspend_lock, End,
        jthread_suspend_self, jthread_suspend_relock, jthread_suspend_busy,
        jthread_suspend_unlock, suspend_unlock, jthread_resume_lock,
        jthread_resume_unlock
<1>11. CASE Start(t)
  BY ZenonT(60), <1>11 DEF Own, Start, suspend_all, Begin, unreserve_lock, inspect,
        jthread_suspend, jthread_resume
<1> QED BY ZenonT(60), <1>1, <1>2, <1>3, <1>4, <1>5, <1>6, <1>7, <1>8, <1>9, <1>10, <1>11 DEF Step

-----------------------------------------------------------------------------
(* The suspensions.  A step is seen as a move of an operation; moves keep      *)
(* labels and suspensions in agreement, and suspend_count and request equal to *)
(* the numbers of suspensions.                                                 *)


\* The steps of an operation seen from outside: where the thread is in it, whom
\* it is about, and what happens to the suspension it works on.
Keeps(t) == call'[t] = call[t] /\ target'[t] = target[t]
Moves(t, from, to) == At(t) = from /\ At(t)' = to
Sets(t, x) == stage' = [stage EXCEPT ![Agent(t)][target[t]] = x]
SameTodo(t) == todo'[t] = todo[t]

Stay(t) == Keeps(t) /\ At(t)' = At(t) /\ SameTodo(t) /\ UNCHANGED stage

SuspendMove(t) ==
    /\ Keeps(t)
    /\ \/ Moves(t, "sr_count", "sr_request") /\ Sets(t, "counted") /\ SameTodo(t)
       \/ /\ At(t) = "sr_request" /\ Sets(t, "requested") /\ SameTodo(t)
          /\ At(t)' \in {"sr_yield", "js_self"}
          /\ At(t)' = "js_self" => call[t] = "jsuspend"
       \/ /\ Moves(t, "sr_yield", "ws_read") /\ Sets(t, "asked") /\ SameTodo(t)
          /\ call[t] \in {"unreserve", "inspect", "jsuspend"}
       \/ /\ Moves(t, "sr_yield", "sa_send") /\ Sets(t, "asked")
          /\ call[t] = "collect" /\ todo'[t] = todo[t] \ {target[t]}
       \/ /\ At(t) \in {"ws_read", "ws_busy"} /\ UNCHANGED stage /\ SameTodo(t)
          /\ At(t)' \in WaitLabels \cup {"rs_cas"}
          /\ At(t)' = "rs_cas" => call[t] # "collect"
       \/ /\ At(t) = "ws_state" /\ Sets(t, "stopped")
          /\ todo'[t] = todo[t] \ {target[t]}
          /\ \/ call[t] = "collect" /\ At(t)' = "sa_wait"
             \/ call[t] = "unreserve" /\ At(t)' = "u_held"
             \/ call[t] = "inspect" /\ At(t)' = "i_unlock"
             \/ call[t] = "jsuspend" /\ At(t)' = "js_flag"

ResumeMove(t) ==
    /\ Keeps(t) /\ SameTodo(t)
    /\ \/ Moves(t, "rs_cas", "rs_request") /\ Sets(t, "uncounted")
       \/ Moves(t, "rs_request", "rs_check") /\ Sets(t, "none")
       \/ /\ At(t) \in {"rs_check", "rs_state", "rs_post"} /\ UNCHANGED stage
          /\ \/ At(t)' \in {"rs_state", "rs_post"}
             \/ call[t] = "unreserve" /\ At(t)' \in {"u_done", "u_busy"}
             \/ call[t] = "inspect" /\ At(t)' \in {"i_done", "failed"}
             \/ call[t] = "collect" /\ At(t)' = "ra_loop"
             \/ call[t] = "jsuspend" /\ At(t)' = "js_busy"
             \/ call[t] = "jresume" /\ At(t)' = "jr_flag"

Ends(t) == call'[t] = "none" /\ At(t)' = "run"

UnreserveMove(t) ==
    /\ call[t] = "unreserve" /\ UNCHANGED stage /\ SameTodo(t)
    /\ \/ Keeps(t) /\ Moves(t, "u_held", "rs_cas")
       \/ At(t) \in {"u_done", "u_busy"} /\ Ends(t)

InspectMove(t) ==
    /\ call[t] \in {"inspect", "collect"} /\ UNCHANGED stage /\ SameTodo(t)
    /\ \/ Keeps(t) /\ Moves(t, "gl_lock", "gl_check")
       \/ Keeps(t) /\ Moves(t, "gl_check", "gl_lock")
       \/ Keeps(t) /\ Moves(t, "gl_check", "it_check") /\ call[t] = "collect"
       \/ Keeps(t) /\ Moves(t, "gl_check", "sr_count") /\ call[t] = "inspect"
       \/ Keeps(t) /\ Moves(t, "i_unlock", "run") /\ call[t] = "inspect"
       \/ Keeps(t) /\ Moves(t, "run", "rs_cas") /\ call[t] = "inspect"
       \/ At(t) = "i_done" /\ Ends(t) /\ call[t] = "inspect"

Picks(t) == call'[t] = call[t] /\ target'[t] \in todo[t]

CollectMove(t) ==
    /\ call[t] = "collect" /\ UNCHANGED stage
    /\ \/ Keeps(t) /\ Moves(t, "it_check", "sa_send") /\ todo'[t] = Others(t)
       \/ Picks(t) /\ Moves(t, "sa_send", "sr_count") /\ SameTodo(t)
       \/ /\ Keeps(t) /\ Moves(t, "sa_send", "sa_wait") /\ todo[t] = {}
          /\ todo'[t] = Others(t)
       \/ Picks(t) /\ Moves(t, "sa_wait", "ws_read") /\ SameTodo(t)
       \/ Keeps(t) /\ Moves(t, "sa_wait", "run") /\ todo[t] = {} /\ SameTodo(t)
       \/ Keeps(t) /\ Moves(t, "run", "ra_check") /\ SameTodo(t)
       \/ Keeps(t) /\ Moves(t, "ra_check", "ra_loop") /\ todo'[t] = Others(t)
       \/ /\ Picks(t) /\ Moves(t, "ra_loop", "rs_cas")
          /\ todo'[t] = todo[t] \ {target'[t]}
       \/ At(t) = "ra_loop" /\ todo[t] = {} /\ Ends(t) /\ SameTodo(t)

JavaMove(t) ==
    /\ call[t] \in {"jsuspend", "jresume"} /\ SameTodo(t)
    /\ \/ /\ Keeps(t) /\ Moves(t, "js_lock", "sr_count") /\ UNCHANGED stage
          /\ p_suspend_lock = NoThread /\ ~suspend_flag[target[t]]
       \/ /\ Keeps(t) /\ Moves(t, "jr_lock", "rs_cas") /\ UNCHANGED stage
          /\ p_suspend_lock = NoThread /\ suspend_flag[target[t]]
       \/ Keeps(t) /\ Moves(t, "js_self", "js_relock") /\ Sets(t, "stopped")
       \/ Keeps(t) /\ Moves(t, "js_busy", "sr_count") /\ UNCHANGED stage
       \/ Ends(t) /\ UNCHANGED stage

StartMove(t) ==
    /\ call[t] = "none" /\ UNCHANGED stage /\ SameTodo(t)
    /\ target'[t] \in Threads
    /\ \/ call'[t] = "unreserve" /\ At(t)' = "sr_count"
       \/ call'[t] = "inspect" /\ At(t)' = "gl_lock"
       \/ call'[t] = "collect" /\ At(t)' = "gl_lock" /\ target'[t] = t
       \/ call'[t] = "jsuspend" /\ At(t)' = "js_lock"
       \/ call'[t] = "jresume" /\ At(t)' = "jr_lock"

Move(t) ==
    \/ Stay(t) \/ SuspendMove(t) \/ ResumeMove(t) \/ UnreserveMove(t)
    \/ InspectMove(t) \/ CollectMove(t) \/ JavaMove(t) \/ StartMove(t)

\* Every step of a thread is one of the moves above.
LEMMA MoveStep ==
    ASSUME NEW t \in Threads, SharedType, LocalType, RetOf(t), CallOf(t),
           pc[t] = "rs_cas" => suspend_count[target[t]] # 0, Step(t)
    PROVE  Move(t)
<1> USE DEF LocalType, Calls, RetOf, CallOf, Keeps, Moves, Sets, SameTodo,
      Ends, Picks, At, SafePointLabels, ResumeLabels, SendLabels, WaitLabels,
      Goto, protocolVars, localVars, lockVars
<1>1. CASE Drain(t)
  BY ZenonT(60), <1>1 DEF Move, Stay, Drain
<1>2. CASE safe_point(t)
  BY ZenonT(60), <1>2 DEF Move, Stay, safe_point
<1>3. CASE Region(t)
  BY ZenonT(60), <1>3 DEF Move, Stay, Region, suspend_disable, Store, suspend_disable_check,
        suspend_enable, blocking_call
<1>4. CASE SafePoint(t)
  BY Zenon, <1>4 DEF Move, Stay, SafePoint, safe_point_check, Return, safe_point_enter,
        safe_point_wait, safe_point_loop, set_suspend_disable,
        set_suspend_disable_check
<1>5. CASE Suspend(t)
  <2>1. CASE send_suspend_count(t)
    BY ZenonT(60), <2>1 DEF Move, SuspendMove, send_suspend_count
  <2>2. CASE send_suspend_request(t)
    BY Zenon, <2>2 DEF Move, SuspendMove, send_suspend_request, Others
  <2>3. CASE send_suspend_yield(t)
    BY ZenonT(60), <2>3 DEF Move, SuspendMove, send_suspend_yield, Others
  <2>4. CASE wait_safe_region_read(t)
    BY Zenon, <2>4 DEF Move, SuspendMove, wait_safe_region_read
  <2>5. CASE wait_safe_region_busy(t)
    BY ZenonT(60), <2>5 DEF Move, SuspendMove, wait_safe_region_busy, BusyLabel, BusyReturn
  <2>6. CASE wait_safe_region_state(t)
    BY Zenon, <2>6 DEF Move, SuspendMove, wait_safe_region_state, StoppedLabel
  <2> QED BY ZenonT(60), <1>5, <2>1, <2>2, <2>3, <2>4, <2>5, <2>6 DEF Suspend
<1>6. CASE Resume(t)
  <2>1. CASE resume_count(t)
    BY ZenonT(60), <2>1 DEF Move, ResumeMove, resume_count, Return
  <2>2. CASE resume_request(t)
    BY ZenonT(60), <2>2 DEF Move, ResumeMove, resume_request
  <2>3. CASE resume_check(t)
    BY ZenonT(60), <2>3 DEF Move, ResumeMove, resume_check, Return
  <2>4. CASE resume_state(t)
    BY Zenon, <2>4 DEF Move, ResumeMove, resume_state
  <2>5. CASE resume_post(t)
    BY ZenonT(60), <2>5 DEF Move, ResumeMove, resume_post, Return
  <2> QED BY ZenonT(60), <1>6, <2>1, <2>2, <2>3, <2>4, <2>5 DEF Resume
<1>7. CASE Unreserve(t)
  BY ZenonT(60), <1>7 DEF Move, UnreserveMove, Unreserve, unreserve_resume, unreserve_done, End,
        unreserve_busy
<1>8. CASE Inspect(t)
  <2>1. CASE global_lock(t)
    BY ZenonT(60), <2>1 DEF Move, InspectMove, global_lock
  <2>2. CASE global_lock_check(t)
    BY ZenonT(60), <2>2 DEF Move, InspectMove, global_lock_check
  <2>3. CASE inspect_unlock(t)
    BY Zenon, <2>3 DEF Move, InspectMove, inspect_unlock
  <2>4. CASE inspect_resume(t)
    BY Zenon, <2>4 DEF Move, InspectMove, inspect_resume
  <2>5. CASE inspect_done(t)
    BY ZenonT(60), <2>5 DEF Move, InspectMove, inspect_done, End
  <2> QED BY Zenon, <1>8, <2>1, <2>2, <2>3, <2>4, <2>5 DEF Inspect
<1>9. CASE Collect(t)
  <2>1. CASE suspend_all_iterator(t)
    <3>1. CASE suspend_count[t] > 0
      BY ZenonT(60), <2>1, <3>1 DEF Move, Stay, suspend_all_iterator, iterator_create
    <3>2. CASE ~(suspend_count[t] > 0)
      BY ZenonT(60), <2>1, <3>2 DEF Move, CollectMove, suspend_all_iterator, iterator_create
    <3> QED BY Zenon, <3>1, <3>2
  <2>2. CASE suspend_all_send(t)
    BY Zenon, <2>2 DEF Move, CollectMove, Stay, Others, suspend_all_send, iterator_next
  <2>3. CASE suspend_all_sent(t)
    BY Zenon, <2>3 DEF Move, CollectMove, Stay, Others, suspend_all_sent
  <2>4. CASE suspend_all_wait(t)
    BY ZenonT(60), <2>4 DEF Move, CollectMove, Stay, Others, suspend_all_wait, iterator_next
  <2>5. CASE suspend_all_stopped(t)
    BY ZenonT(60), <2>5 DEF Move, CollectMove, Stay, Others, suspend_all_stopped
  <2>6. CASE resume_all(t)
    BY ZenonT(60), <2>6 DEF Move, CollectMove, Stay, Others, resume_all
  <2>7. CASE resume_all_iterator(t)
    <3>1. CASE suspend_count[t] > 0
      BY ZenonT(60), <2>7, <3>1 DEF Move, Stay, resume_all_iterator, iterator_create
    <3>2. CASE ~(suspend_count[t] > 0)
      BY ZenonT(60), <2>7, <3>2 DEF Move, CollectMove, resume_all_iterator, iterator_create
    <3> QED BY Zenon, <3>1, <3>2
  <2>8. CASE resume_all_next(t)
    BY Zenon, <2>8 DEF Move, CollectMove, Stay, Others, resume_all_next, iterator_next
  <2>9. CASE resume_all_done(t)
    BY Zenon, <2>9 DEF Move, CollectMove, Stay, Others, resume_all_done, End
  <2> QED BY ZenonT(60), <1>9, <2>1, <2>2, <2>3, <2>4, <2>5, <2>6, <2>7, <2>8, <2>9 DEF Collect
<1>10. CASE JavaSuspend(t)
  <2>1. CASE jthread_suspend_lock(t)
    BY ZenonT(60), <2>1 DEF Move, JavaMove, jthread_suspend_lock, suspend_lock, End
  <2>2. CASE jthread_suspend_self(t)
    BY Zenon, <2>2 DEF Move, JavaMove, jthread_suspend_self, Agent
  <2>3. CASE jthread_suspend_relock(t)
    BY Zenon, <2>3 DEF Move, JavaMove, jthread_suspend_relock, End
  <2>4. CASE jthread_suspend_busy(t)
    BY ZenonT(60), <2>4 DEF Move, JavaMove, jthread_suspend_busy
  <2>5. CASE jthread_suspend_unlock(t)
    BY ZenonT(60), <2>5 DEF Move, JavaMove, jthread_suspend_unlock, suspend_unlock, End
  <2>6. CASE jthread_resume_lock(t)
    <3>1. CASE suspend_flag[target[t]] = FALSE
      BY ZenonT(60), <2>6, <3>1 DEF Move, JavaMove, jthread_resume_lock, suspend_lock, End
    <3>2. CASE suspend_flag[target[t]] # FALSE
      <4>1. suspend_flag[target[t]]
        BY Zenon, <3>2 DEF SharedType
      <4> QED BY ZenonT(60), <2>6, <3>2, <4>1 DEF Move, JavaMove, jthread_resume_lock, suspend_lock
    <3> QED BY Zenon, <3>1, <3>2
  <2>7. CASE jthread_resume_unlock(t)
    BY Zenon, <2>7 DEF Move, JavaMove, jthread_resume_unlock, suspend_unlock, End
  <2> QED BY ZenonT(60), <1>10, <2>1, <2>2, <2>3, <2>4, <2>5, <2>6, <2>7 DEF JavaSuspend
<1>11. CASE Start(t)
  <2>1. CASE suspend_all(t)
    BY ZenonT(60), <2>1 DEF Move, StartMove, suspend_all, Begin
  <2>2. ASSUME NEW x \in Threads, unreserve_lock(t, x)
       PROVE  Move(t)
    BY Zenon, <2>2 DEF Move, StartMove, unreserve_lock, Begin
  <2>3. ASSUME NEW x \in Threads, inspect(t, x)
       PROVE  Move(t)
    BY ZenonT(60), <2>3 DEF Move, StartMove, inspect, Begin
  <2>4. ASSUME NEW x \in Threads, jthread_suspend(t, x)
       PROVE  Move(t)
    BY ZenonT(60), <2>4 DEF Move, StartMove, jthread_suspend, Begin
  <2>5. ASSUME NEW x \in Threads, jthread_resume(t, x)
       PROVE  Move(t)
    BY ZenonT(60), <2>5 DEF Move, StartMove, jthread_resume, Begin
  <2> QED BY ZenonT(60), <1>11, <2>1, <2>2, <2>3, <2>4, <2>5 DEF Start
<1> QED BY ZenonT(60), <1>1, <1>2, <1>3, <1>4, <1>5, <1>6, <1>7, <1>8, <1>9, <1>10, <1>11 DEF Step

\* jthread_suspend works on a thread whose suspend_flag is clear and
\* jthread_resume on one whose flag is set, as tested under p_suspend_lock.
LEMMA FlagStep ==
    ASSUME NEW t \in Threads, LocalType, RetOf(t), CallOf(t), LockOf(t), FlagOf(t), Step(t), Move(t)
    PROVE  FlagOf(t)'
<1>1. SUFFICES ASSUME Critical(t)' PROVE FlagOf(t)'
  BY Zenon DEF FlagOf
<1>2. suspend_flag' = suspend_flag
  BY Zenon, <1>1, FlagFrame
<1> USE DEF FlagOf, Critical, Moves
<1>3. CASE Stay(t)
  BY ZenonT(60), <1>1, <1>2, <1>3 DEF Stay, Keeps
<1>4. CASE SuspendMove(t)
  BY ZenonT(60), <1>1, <1>2, <1>4 DEF SuspendMove, Keeps
<1>5. CASE ResumeMove(t)
  BY Zenon, <1>1, <1>2, <1>5 DEF ResumeMove, Keeps
<1>6. CASE UnreserveMove(t) \/ InspectMove(t) \/ CollectMove(t)
  BY ZenonT(60), <1>1, <1>6 DEF UnreserveMove, InspectMove, CollectMove, Keeps, Ends, Picks
<1>7. CASE JavaMove(t)
  <2>1. /\ At(t) \in {"js_lock", "sr_count"} =>
             call[t] \in {"none", "unreserve", "inspect", "collect", "jsuspend"}
        /\ At(t) = "jr_lock" => call[t] = "jresume"
    BY Zenon, <1>7 DEF JavaMove, CallOf, At, SafePointLabels, SendLabels, WaitLabels, ResumeLabels
  <2> QED BY ZenonT(60), <2>1, <1>1, <1>2, <1>7 DEF JavaMove, Keeps, Ends
<1>8. CASE StartMove(t)
  BY ZenonT(60), <1>1, <1>8 DEF StartMove
<1> QED BY ZenonT(60), <1>3, <1>4, <1>5, <1>6, <1>7, <1>8 DEF Move

\* A step of a thread keeps its label and the suspension it works on in agreement
\* (hythread_send_suspend_request, wait_safe_region_event, hythread_resume).
LEMMA CurrentStep ==
    ASSUME NEW t \in Threads, SharedType, LocalType, target'[t] \in Threads,
           CallOf(t), CurrentOf(t), RowOf(t), \A u \in Threads : JavaOf(u), Move(t)
    PROVE  CurrentOf(t)'
<1>1. /\ stage \in [Agents -> [Threads -> Stages]]
      /\ target[t] \in Threads /\ Agent(t) \in Agents
      /\ NoThread \notin Threads
  BY Zenon, ThreadsAssumption DEF SharedType, LocalType, Agent, Agents
<1>2. Keeps(t) => Agent(t)' = Agent(t)
  BY Zenon DEF Keeps, Agent
<1>3. Keeps(t) /\ UNCHANGED stage => Current(t)' = Current(t)
  BY Zenon, <1>2 DEF Keeps, Current
<1>4. \A x : Keeps(t) /\ Sets(t, x) => Current(t)' = x
  BY <1>1, <1>2 DEF Keeps, Current, Sets
<1> USE DEF CurrentOf, Critical, Moves, SendLabels, WaitLabels
<1>5. CASE Stay(t)
  BY Zenon, <1>3, <1>5 DEF Stay, Keeps
<1>6. CASE SuspendMove(t)
  BY Zenon, <1>3, <1>4, <1>6 DEF SuspendMove, Keeps
<1>7. CASE ResumeMove(t)
  BY ZenonT(60), <1>3, <1>4, <1>7 DEF ResumeMove, Keeps
<1>8. CASE UnreserveMove(t)
  BY ZenonT(60), <1>3, <1>8 DEF UnreserveMove, Keeps, Ends
<1>9. CASE InspectMove(t)
  BY Zenon, <1>3, <1>9 DEF InspectMove, Keeps, Ends
<1>10. CASE CollectMove(t)
  <2>1. CASE Ends(t) \/ ~Picks(t)
    BY ZenonT(60), <2>1, <1>3, <1>10 DEF CollectMove, Keeps, Ends
  <2>2. CASE Picks(t)
    <3>1. call[t] = "collect" /\ target'[t] \in todo[t] /\ target'[t] # t
      BY ZenonT(60), <2>2, <1>10 DEF CollectMove, Picks, CallOf, Others
    <3>2. Current(t)' = stage[t][target'[t]]
      BY Zenon, <2>2, <3>1, <1>10 DEF CollectMove, Picks, Current, Agent
    <3>3. CASE At(t) \in {"sa_send", "sa_wait", "ra_loop"}
      <4>1. stage[t][target'[t]] = Ahead(t)
        BY Zenon, <3>1, <3>3 DEF RowOf, ResumeLabels
      <4>2. Current(t)' = CASE At(t) = "sa_send" -> "none"
                           [] At(t) = "sa_wait" -> "asked"
                           [] At(t) = "ra_loop" -> "stopped"
        BY ZenonT(60), <3>2, <3>3, <4>1 DEF Ahead, ResumeLabels
      <4> QED BY ZenonT(60), <4>2, <3>1, <3>3, <1>10, <2>2, <1>3 DEF CollectMove, Picks, Ends, Keeps
    <3>4. CASE At(t) \notin {"sa_send", "sa_wait", "ra_loop"}
      BY ZenonT(60), <3>1, <3>4, <1>10, <1>3 DEF CollectMove, Keeps
    <3> QED BY ZenonT(60), <3>3, <3>4
  <2> QED BY Zenon, <2>1, <2>2
<1>11. CASE JavaMove(t)
  <2>1. p_suspend_lock = NoThread =>
           Current(t) = IF suspend_flag[target[t]] THEN "stopped" ELSE "none"
    BY ZenonT(60), <1>1, <1>11 DEF JavaMove, JavaOf, Current, Agent
  <2> QED BY ZenonT(60), <2>1, <1>3, <1>4, <1>11 DEF JavaMove, Keeps, Ends
<1>12. CASE StartMove(t)
  <2>1. call'[t] \in {"unreserve", "inspect", "collect"} =>
           Current(t)' = stage[t][target'[t]]
    BY Zenon, <1>12 DEF StartMove, Current, Agent
  <2>2. stage[t][target'[t]] = "none"
    BY Zenon, <1>12 DEF StartMove, RowOf
  <2> QED BY ZenonT(60), <2>1, <2>2, <1>12 DEF StartMove
<1> QED BY ZenonT(60), <1>5, <1>6, <1>7, <1>8, <1>9, <1>10, <1>11, <1>12 DEF Move

\* A step of a thread keeps its other suspensions right: those before and behind
\* the iterator of hythread_suspend_all and hythread_resume_all.
LEMMA RowStep ==
    ASSUME NEW t \in Threads, SharedType, LocalType, CallOf(t), CurrentOf(t),
           RowOf(t), Move(t)
    PROVE  RowOf(t)'
<1>1. /\ stage \in [Agents -> [Threads -> Stages]]
      /\ target[t] \in Threads /\ t \in Agents /\ Java \notin Threads
      /\ call[t] \in {"jsuspend", "jresume"} => Agent(t) = Java
      /\ call[t] \notin {"jsuspend", "jresume"} =>
            Agent(t) = t /\ Current(t) = stage[t][target[t]]
  BY Zenon, ThreadsAssumption DEF SharedType, LocalType, Agent, Agents, Current
<1>2. \A x : Sets(t, x) /\ Agent(t) = t =>
          /\ stage'[t][target[t]] = x
          /\ \A u \in Threads : u # target[t] => stage'[t][u] = stage[t][u]
  BY <1>1 DEF Sets
<1>3. \A x : Sets(t, x) /\ Agent(t) = Java =>
          \A u \in Threads : stage'[t][u] = stage[t][u]
  BY Zenon, <1>1 DEF Sets, Agents
<1>4. SUFFICES ASSUME NEW u \in Threads
               PROVE  /\ call'[t] \in {"none", "jsuspend", "jresume"} =>
                            stage'[t][u] = "none"
                      /\ call'[t] \in {"unreserve", "inspect"} /\ u # target'[t] =>
                            stage'[t][u] = "none"
                      /\ call'[t] = "collect" =>
                           /\ u = t => stage'[t][u] = "none"
                           /\ u # t =>
                               \/ At(t)' \in SendLabels \cup ResumeLabels /\ u = target'[t]
                               \/ u \in todo'[t] /\ At(t)' \notin {"run", "ra_check"}
                                    /\ stage'[t][u] = Ahead(t)'
                               \/ (u \notin todo'[t] \/ At(t)' \in {"run", "ra_check"})
                                    /\ stage'[t][u] = Behind(t)'
  BY Zenon DEF RowOf
<1> USE DEF RowOf, Ahead, Behind, Moves, SendLabels, WaitLabels, ResumeLabels
<1>5. CASE Stay(t)
  BY Zenon, <1>5 DEF Stay, Keeps, SameTodo
<1>6. CASE SuspendMove(t)
  <2>1. CASE call[t] = "collect"
    <3>1. /\ target[t] \in todo[t] \/ At(t) \notin SendLabels \cup WaitLabels
          /\ todo[t] \subseteq Threads \ {t}
      BY ZenonT(60), <2>1 DEF CallOf, Others
    <3> QED BY ZenonT(60), <2>1, <3>1, <1>1, <1>2, <1>6 DEF SuspendMove, Keeps, SameTodo, CurrentOf
  <2>2. CASE call[t] # "collect"
    <3>1. Keeps(t) /\ (UNCHANGED stage \/ \E x : Sets(t, x))
      BY ZenonT(60), <1>6 DEF SuspendMove
    <3>2. call[t] # "none"
      BY ZenonT(60), <1>6 DEF SuspendMove, CallOf
    <3>3. call[t] \in {"unreserve", "inspect", "jsuspend", "jresume"}
      BY ZenonT(60), <2>2, <3>2 DEF LocalType, Calls
    <3>4. (u = target[t] /\ Agent(t) = t) \/ stage'[t][u] = stage[t][u]
      BY ZenonT(60), <3>1, <3>3, <1>1, <1>2, <1>3
    <3> QED BY ZenonT(60), <3>1, <3>3, <3>4, <1>1 DEF Keeps
  <2> QED BY ZenonT(60), <2>1, <2>2
<1>7. CASE ResumeMove(t)
  <2>1. CASE call[t] = "collect"
    <3>1. target[t] \in Threads \ {t} /\ target[t] \notin todo[t]
      BY ZenonT(60), <2>1, <1>7 DEF ResumeMove, CallOf, Others
    <3> QED BY ZenonT(60), <2>1, <3>1, <1>1, <1>2, <1>7 DEF ResumeMove, Keeps, SameTodo, CurrentOf
  <2>2. CASE call[t] # "collect"
    <3>1. Keeps(t) /\ (UNCHANGED stage \/ \E x : Sets(t, x))
      BY Zenon, <1>7 DEF ResumeMove
    <3>2. call[t] # "none"
      BY Zenon, <1>7 DEF ResumeMove, CallOf
    <3>3. call[t] \in {"unreserve", "inspect", "jsuspend", "jresume"}
      BY ZenonT(60), <2>2, <3>2 DEF LocalType, Calls
    <3>4. (u = target[t] /\ Agent(t) = t) \/ stage'[t][u] = stage[t][u]
      BY Zenon, <3>1, <3>3, <1>1, <1>2, <1>3
    <3> QED BY ZenonT(60), <3>1, <3>3, <3>4, <1>1 DEF Keeps
  <2> QED BY ZenonT(60), <2>1, <2>2
<1>8. CASE UnreserveMove(t)
  BY Zenon, <1>1, <1>8 DEF UnreserveMove, Keeps, Ends, CurrentOf
<1>9. CASE InspectMove(t)
  BY Zenon, <1>1, <1>9 DEF InspectMove, Keeps, Ends, SameTodo, CurrentOf
<1>10. CASE CollectMove(t)
  <2>1. todo[t] \subseteq Threads \ {t}
    BY Zenon, <1>10 DEF CollectMove, CallOf, Others
  <2> QED BY Zenon, <2>1, <1>1, <1>10 DEF CollectMove, Keeps, Ends, Picks, SameTodo, Others
<1>11. CASE JavaMove(t)
  BY Zenon, <1>1, <1>3, <1>11 DEF JavaMove, Keeps, Ends
<1>12. CASE StartMove(t)
  BY Zenon, <1>12 DEF StartMove
<1> QED BY ZenonT(60), <1>5, <1>6, <1>7, <1>8, <1>9, <1>10, <1>11, <1>12 DEF Move

\* What a step can do to p_suspend_lock and suspend_flag: nothing, take the lock,
\* or write the flag and give the lock up with the suspension in agreement.
LEMMA JavaCases ==
    ASSUME NEW t \in Threads, SharedType, LocalType, RetOf(t), CallOf(t), LockOf(t),
           CurrentOf(t), Step(t)
    PROVE  \/ /\ UNCHANGED <<p_suspend_lock, suspend_flag>>
              /\ p_suspend_lock = t => target'[t] = target[t]
           \/ /\ p_suspend_lock = NoThread /\ p_suspend_lock' = t
              /\ UNCHANGED <<suspend_flag, target, stage>>
           \/ /\ p_suspend_lock = t /\ p_suspend_lock' = NoThread
              /\ \E f \in BOOLEAN :
                    /\ suspend_flag' = [suspend_flag EXCEPT ![target[t]] = f]
                    /\ stage'[Java][target[t]] = IF f THEN "stopped" ELSE "none"
<1> USE ThreadsAssumption DEF LocalType, Calls, RetOf, CallOf, LockOf,
      Critical, At, SafePointLabels, ResumeLabels, SendLabels, WaitLabels,
      Goto, protocolVars, localVars, lockVars
<1>1. CASE Drain(t)
  BY Zenon, <1>1 DEF Drain
<1>2. CASE safe_point(t)
  BY Zenon, <1>2 DEF safe_point
<1>3. CASE Region(t)
  BY Zenon, <1>3 DEF Region, suspend_disable, Store, suspend_disable_check,
        suspend_enable, blocking_call
<1>4. CASE SafePoint(t)
  BY ZenonT(60), <1>4 DEF SafePoint, safe_point_check, Return, safe_point_enter,
        safe_point_wait, safe_point_loop, set_suspend_disable,
        set_suspend_disable_check
<1>5. CASE Suspend(t)
  BY ZenonT(60), <1>5 DEF Suspend, send_suspend_count, Agent, send_suspend_request,
        send_suspend_yield, yield_other, wait_safe_region_read,
        wait_safe_region_busy, BusyLabel, BusyReturn, wait_safe_region_state,
        StoppedLabel
<1>6. CASE Resume(t)
  BY Zenon, <1>6 DEF Resume, resume_count, Agent, Return, resume_request,
        resume_check, resume_state, resume_post
<1>7. CASE Unreserve(t)
  BY Zenon, <1>7 DEF Unreserve, unreserve_resume, yield_other, unreserve_done, End,
        unreserve_busy
<1>8. CASE Inspect(t)
  BY Zenon, <1>8 DEF Inspect, global_lock, global_lock_check, inspect_unlock,
        inspect_resume, inspect_done, End
<1>9. CASE Collect(t)
  BY ZenonT(60), <1>9 DEF Collect, suspend_all_iterator, iterator_create,
        suspend_all_send, iterator_next, suspend_all_sent, suspend_all_wait,
        suspend_all_stopped, resume_all, resume_all_iterator,
        resume_all_next, resume_all_done, End
<1>10. CASE JavaSuspend(t)
  <2>1. CASE jthread_suspend_lock(t)
    BY ZenonT(60), <2>1 DEF jthread_suspend_lock, suspend_lock, End
  <2>2. CASE jthread_suspend_self(t)
    <3>1. target[t] = t /\ Critical(t)
      BY ZenonT(60), <2>2 DEF jthread_suspend_self
    <3> QED BY ZenonT(60), <2>2, <3>1 DEF jthread_suspend_self, SharedType, Agents
  <2>3. CASE jthread_suspend_relock(t)
    BY ZenonT(60), <2>3 DEF jthread_suspend_relock, End
  <2>4. CASE jthread_suspend_busy(t)
    BY ZenonT(60), <2>4 DEF jthread_suspend_busy
  <2>5. CASE jthread_suspend_unlock(t)
    <3>1. call[t] = "jsuspend" /\ At(t) = "js_flag" /\ Critical(t)
      BY ZenonT(60), <2>5 DEF jthread_suspend_unlock, suspend_unlock
    <3>2. stage[Java][target[t]] = "stopped"
      BY ZenonT(60), <3>1 DEF CurrentOf, Current, Agent
    <3> QED BY ZenonT(60), <2>5, <3>1, <3>2 DEF jthread_suspend_unlock, suspend_unlock
  <2>6. CASE jthread_resume_lock(t)
    BY ZenonT(60), <2>6 DEF jthread_resume_lock, suspend_lock, End
  <2>7. CASE jthread_resume_unlock(t)
    <3>1. call[t] = "jresume" /\ At(t) = "jr_flag" /\ Critical(t)
      BY ZenonT(60), <2>7 DEF jthread_resume_unlock, suspend_unlock
    <3>2. stage[Java][target[t]] = "none"
      BY ZenonT(60), <3>1 DEF CurrentOf, Current, Agent
    <3> QED BY ZenonT(60), <2>7, <3>1, <3>2 DEF jthread_resume_unlock, suspend_unlock
  <2> QED BY ZenonT(60), <1>10, <2>1, <2>2, <2>3, <2>4, <2>5, <2>6, <2>7 DEF JavaSuspend
<1>11. CASE Start(t)
  BY ZenonT(60), <1>11 DEF Start, suspend_all, Begin, unreserve_lock, inspect,
        jthread_suspend, jthread_resume
<1> QED BY ZenonT(60), <1>1, <1>2, <1>3, <1>4, <1>5, <1>6, <1>7, <1>8, <1>9, <1>10, <1>11 DEF Step

\* Unless p_suspend_lock is held for it, a thread is suspended by Thread.suspend
\* exactly when its suspend_flag is set.
LEMMA JavaStep ==
    ASSUME NEW t \in Threads, SharedType, LocalType, RetOf(t), CallOf(t), LockOf(t),
           CurrentOf(t), \A u \in Threads : JavaOf(u), Step(t)
    PROVE  \A u \in Threads : JavaOf(u)'
<1>1. SUFFICES ASSUME NEW u \in Threads PROVE JavaOf(u)'
  BY Zenon
<1>2. NoThread \notin Threads /\ Java \in Agents /\ Java \notin Threads
  BY Zenon, ThreadsAssumption DEF Agents
<1>3. /\ suspend_flag \in [Threads -> BOOLEAN] /\ target[t] \in Threads
      /\ p_suspend_lock \in Threads \cup {NoThread}
      /\ Critical(t) <=> p_suspend_lock = t
  BY Zenon DEF SharedType, LocalType, LockOf
<1>4. \/ p_suspend_lock = t /\ u = target[t]
      \/ stage'[Java][u] = stage[Java][u]
  BY Zenon, <1>2, <1>3, StageFrame
<1>5. \A s \in Threads : s # t => target'[s] = target[s]
  BY Zenon, LocalFrame
<1>6. CASE /\ UNCHANGED <<p_suspend_lock, suspend_flag>>
           /\ p_suspend_lock = t => target'[t] = target[t]
  BY ZenonT(60), <1>2, <1>3, <1>4, <1>5, <1>6 DEF JavaOf
<1>7. CASE /\ p_suspend_lock = NoThread /\ p_suspend_lock' = t
           /\ UNCHANGED <<suspend_flag, target, stage>>
  BY ZenonT(60), <1>2, <1>7 DEF JavaOf
<1>8. ASSUME p_suspend_lock = t, p_suspend_lock' = NoThread, NEW f \in BOOLEAN,
             suspend_flag' = [suspend_flag EXCEPT ![target[t]] = f],
             stage'[Java][target[t]] = IF f THEN "stopped" ELSE "none"
      PROVE  JavaOf(u)'
  BY Zenon, <1>2, <1>3, <1>4, <1>8 DEF JavaOf
<1> QED BY Zenon, <1>6, <1>7, <1>8, JavaCases

\* A step of one thread keeps what the invariant says of the labels, locks and
\* suspensions of another one.
LEMMA OtherStep ==
    ASSUME NEW t \in Threads, NEW u \in Threads, u # t, SharedType, LocalType,
           RetOf(t), CallOf(t), LockOf(t), Step(t),
           RetOf(u), CallOf(u), OwnOf(u), LockOf(u), CurrentOf(u), RowOf(u), FlagOf(u)
    PROVE  /\ RetOf(u)' /\ CallOf(u)' /\ OwnOf(u)' /\ LockOf(u)'
           /\ CurrentOf(u)' /\ RowOf(u)' /\ FlagOf(u)'
<1>1. /\ pc'[u] = pc[u] /\ ret'[u] = ret[u] /\ call'[u] = call[u]
      /\ target'[u] = target[u] /\ todo'[u] = todo[u] /\ saved'[u] = saved[u]
  BY Zenon, LocalFrame
<1>2. /\ At(u)' = At(u) /\ Agent(u)' = Agent(u) /\ Critical(u)' = Critical(u)
      /\ HoldsGlobal(u)' = HoldsGlobal(u)
  BY Zenon, <1>1 DEF At, Agent, Critical, HoldsGlobal
<1>3. /\ target[u] \in Threads /\ Agent(u) \in Agents /\ Java \in Agents
      /\ u \in Agents /\ Java \notin Threads
      /\ Agent(u) \in {u, Java} /\ Agent(t) \in {t, Java}
      /\ Agent(u) = Java => call[u] \in {"jsuspend", "jresume"}
  BY Zenon, ThreadsAssumption DEF LocalType, Agent, Agents
<1>4. Critical(t) <=> p_suspend_lock = t
  BY ZenonT(60) DEF LockOf
<1>5. Critical(u) <=> p_suspend_lock = u
  BY Zenon DEF LockOf
<1>6. \A v \in Threads : stage'[u][v] = stage[u][v]
  BY ZenonT(60), <1>3, StageFrame
<1>7. Agent(u) = u \/ Critical(u) => Current(u)' = Current(u)
  <2>1. Current(u)' = stage'[Agent(u)][target[u]]
    BY Zenon, <1>1, <1>2 DEF Current
  <2>2. CASE Agent(u) = u
    BY Zenon, <1>3, <1>6, <2>1, <2>2 DEF Current
  <2>3. CASE Critical(u)
    <3>1. ~Critical(t)
      BY Zenon, <1>4, <1>5, <2>3
    <3>2. stage'[Java][target[u]] = stage[Java][target[u]]
      BY Zenon, <1>3, <3>1, StageFrame
    <3> QED BY Zenon, <1>3, <1>6, <2>1, <3>2 DEF Current
  <2> QED BY Zenon, <2>2, <2>3
<1>8. RetOf(u)' /\ CallOf(u)'
  BY ZenonT(60), <1>1, <1>2 DEF RetOf, CallOf
<1>9. Own(u)' = Own(u)
  BY Zenon, MemoryStep
<1>10. OwnOf(u)'
  BY Zenon, <1>1, <1>9 DEF OwnOf
<1>11. LockOf(u)'
  BY ZenonT(60), <1>2, LockFrame DEF LockOf
<1>12. CurrentOf(u)'
  BY Zenon, <1>1, <1>2, <1>3, <1>7 DEF CurrentOf
<1>13. RowOf(u)'
  BY ZenonT(60), <1>1, <1>2, <1>6 DEF RowOf, Ahead, Behind
<1>14. FlagOf(u)'
  BY Zenon, <1>1, <1>2, <1>4, <1>5, FlagFrame DEF FlagOf
<1> QED BY Zenon, <1>8, <1>10, <1>11, <1>12, <1>13, <1>14
=============================================================================
