--------------------------- MODULE ClassInitProofs ---------------------------
(***************************************************************************)
(* The inductive invariant IInv of ClassInit is kept by every step: first  *)
(* what a step does to the stack of its thread, then the operations that   *)
(* link a class, then those that initialize it.  The theorems at the end   *)
(* follow from it.                                                         *)
(***************************************************************************)
EXTENDS ClassInit, SequenceTheorems, TLAPS

-----------------------------------------------------------------------------
(* The three things a step does to the stack of its thread. *)

Others(t) ==
    /\ stack' \in [Threads -> Seq(Frames)]
    /\ \A u \in Threads \ {t} : stack'[u] = stack[u]
Below(t) == \A i \in 1..(Depth(t) - 1) : stack'[t][i] = stack[t][i]

Goes(t, f) ==
    /\ Others(t) /\ Below(t)
    /\ Len(stack'[t]) = Depth(t)
    /\ stack'[t][Depth(t)] = f

Calls(t, f, g) ==
    /\ Others(t) /\ Below(t)
    /\ Len(stack'[t]) = Depth(t) + 1
    /\ stack'[t][Depth(t)] = f
    /\ stack'[t][Depth(t) + 1] = g

Returns(t) ==
    /\ Others(t) /\ Below(t)
    /\ Len(stack'[t]) = Depth(t) - 1

\* The innermost activation is typed.
LEMMA TopType ==
    ASSUME TypeOK, NEW t \in Threads, Depth(t) > 0
    PROVE  /\ stack[t] \in Seq(Frames) /\ Depth(t) \in Nat /\ Depth(t) \in 1..Depth(t)
           /\ Top(t) \in Frames /\ Top(t).cls \in Classes
           /\ \A i \in 1..Depth(t) : stack[t][i] \in Frames
<1>1. stack[t] \in Seq(Frames) /\ Depth(t) \in Nat
  BY DEF TypeOK, Depth
<1>2. Depth(t) \in 1..Depth(t) /\ \A i \in 1..Depth(t) : stack[t][i] \in Frames
  BY <1>1, ElementOfSeq DEF Depth
<1>3. Top(t) \in Frames
  BY Zenon, <1>2 DEF Top
<1> QED
  BY Zenon, <1>1, <1>2, <1>3 DEF Frames

\* A class and its superclass.
LEMMA SuperType ==
    ASSUME TypeOK, NEW c \in Classes
    PROVE  Super(c) \in Classes \cup {NoClass} /\ Super(c) # c
BY Zenon, WorldsAssumption, HierarchyAssumption DEF TypeOK, Super

\* Activations of typed stacks are of classes.
LEMMA FrameClass ==
    ASSUME NEW s \in Seq(Frames), NEW i \in 1..Len(s)
    PROVE  s[i].cls \in Classes
<1>1. s[i] \in Frames
  BY Zenon, ElementOfSeq
<1> QED
  BY Zenon, <1>1 DEF Frames

\* Goto changes the label of the innermost activation.
LEMMA GotoShape ==
    ASSUME TypeOK, NEW t \in Threads, Depth(t) > 0, NEW l \in Labels, Goto(t, l)
    PROVE  \E f \in Frames : f.cls = Top(t).cls /\ f.at = l /\ Goes(t, f)
<1> DEFINE f == [Top(t) EXCEPT !.at = l]
<1>1. f \in Frames /\ f.cls = Top(t).cls /\ f.at = l
  BY Zenon, TopType DEF Frames
<1>2. stack' = [stack EXCEPT ![t] = [stack[t] EXCEPT ![Depth(t)] = f]]
  BY Zenon DEF Goto, Top
<1> HIDE DEF f
<1>3. /\ [stack[t] EXCEPT ![Depth(t)] = f] \in Seq(Frames)
      /\ Len([stack[t] EXCEPT ![Depth(t)] = f]) = Len(stack[t])
      /\ \A j \in 1..Len(stack[t]) :
            [stack[t] EXCEPT ![Depth(t)] = f][j] = IF j = Depth(t) THEN f ELSE stack[t][j]
  BY <1>1, TopType, ExceptSeq DEF Depth
<1>4. stack \in [Threads -> Seq(Frames)]
  BY Zenon DEF TypeOK
<1>5. stack'[t] = [stack[t] EXCEPT ![Depth(t)] = f]
  BY Zenon, <1>2, <1>4
<1>6. Others(t)
  BY Zenon, <1>2, <1>3, <1>4 DEF Others
<1>7. Below(t) /\ Len(stack'[t]) = Depth(t) /\ stack'[t][Depth(t)] = f
  BY <1>3, <1>5, TopType DEF Below, Depth
<1> QED
  BY Zenon, <1>1, <1>6, <1>7 DEF Goes

\* An activation is pushed on top of one that changes.
LEMMA PushShape ==
    ASSUME TypeOK, NEW t \in Threads, Depth(t) > 0, NEW f \in Frames, NEW g \in Frames,
           Push(t, f, g)
    PROVE  Calls(t, f, g)
<1> DEFINE s == [stack[t] EXCEPT ![Depth(t)] = f]
<1>1. /\ s \in Seq(Frames) /\ Len(s) = Len(stack[t])
      /\ \A j \in 1..Len(stack[t]) : s[j] = IF j = Depth(t) THEN f ELSE stack[t][j]
  BY TopType, ExceptSeq DEF Depth
<1> HIDE DEF s
<1>2. /\ Append(s, g) \in Seq(Frames) /\ Len(Append(s, g)) = Len(s) + 1
      /\ \A i \in 1..Len(s) : Append(s, g)[i] = s[i]
      /\ Append(s, g)[Len(s) + 1] = g
  BY <1>1, AppendProperties
<1>3. stack \in [Threads -> Seq(Frames)]
  BY Zenon DEF TypeOK
<1>4. stack'[t] = Append(s, g)
  BY Zenon, <1>3 DEF Push, Depth, s
<1>5. Others(t)
  BY Zenon, <1>2, <1>3 DEF Others, Push, Depth, s
<1> QED
  BY <1>1, <1>2, <1>4, <1>5, TopType DEF Calls, Below, Depth

\* Return removes the innermost activation.
LEMMA ReturnShape ==
    ASSUME TypeOK, NEW t \in Threads, Depth(t) > 0, Return(t)
    PROVE  Returns(t)
<1> DEFINE s == SubSeq(stack[t], 1, Len(stack[t]) - 1)
<1>1. /\ s \in Seq(Frames) /\ Len(s) = Depth(t) - 1
      /\ \A i \in 1..(Depth(t) - 1) : s[i] = stack[t][i]
  <2>1. Depth(t) \in Nat /\ Depth(t) > 0 /\ \A i \in 1..(Depth(t) - 1) : stack[t][i] \in Frames
    BY TopType
  <2>2. /\ s \in Seq(Frames)
        /\ Len(s) = IF 1 <= Depth(t) - 1 THEN Depth(t) - 1 - 1 + 1 ELSE 0
        /\ \A i \in 1..(Depth(t) - 1 - 1 + 1) : s[i] = stack[t][1 + i - 1]
    BY <2>1, SubSeqProperties DEF Depth
  <2> QED
    BY <2>1, <2>2
<1> HIDE DEF s
<1>2. stack \in [Threads -> Seq(Frames)]
  BY Zenon DEF TypeOK
<1>3. stack'[t] = s
  BY Zenon, <1>2 DEF Return, s
<1>4. Others(t)
  BY Zenon, <1>1, <1>2 DEF Others, Return, s
<1> QED
  BY Zenon, <1>1, <1>3, <1>4 DEF Returns, Below

-----------------------------------------------------------------------------
(* What a step of one thread has to leave alone, so that the invariant survives. *)

\* Activation f of u is not the innermost one of t, nor does it run the same initializer.
Foreign(t, u, f) ==
    /\ u # t \/ f.at \in Resting
    /\ u = t /\ f.at \in Running /\ Top(t).at \in Running => f.cls # Top(t).cls

Carries(t) ==
    \A u \in Threads, f \in Frames : FrameInv(u, f) /\ Foreign(t, u, f) => FrameInv(u, f)'

Keeps(t) ==
    /\ Carries(t)
    /\ \A d \in Classes : m_state[d] = "Initialized" => m_state'[d] = "Initialized"
    /\ \A u \in Threads \ {t} : u \in exn <=> u \in exn'
    /\ \A u \in Threads \ {t} : At(u, "wait") /\ u \notin notified' =>
          m_state'[Top(u).cls] = "Initializing" /\ initializingThread'[Top(u).cls] # u

\* The parts of the invariant that do not mention the stack.
Shared == TypeOK /\ (\A c \in Classes : ClassInv(c)) /\ InitializedOnce
Stacks == FramesInv /\ Calling /\ Single /\ RunnerExists /\ NoLostWaiter /\ SuperCalls

\* Below the innermost activation there are only activations foreign to it.
LEMMA ForeignBelow ==
    ASSUME IInv, NEW t \in Threads, Depth(t) > 0
    PROVE  /\ \A i \in 1..(Depth(t) - 1) : Foreign(t, t, stack[t][i])
           /\ \A u \in Threads \ {t} : \A i \in 1..Depth(u) : Foreign(t, u, stack[u][i])
<1>1. Depth(t) \in Nat /\ Depth(t) \in 1..Depth(t)
  BY Zenon, TopType DEF IInv
<1>2. ASSUME NEW i \in 1..(Depth(t) - 1)
      PROVE  Foreign(t, t, stack[t][i])
  <2>1. stack[t][i].at \in Resting /\ i \in 1..Depth(t) /\ i # Depth(t)
    BY <1>1, <1>2 DEF IInv, Calling
  <2> QED
    BY Zenon, <1>1, <2>1 DEF IInv, Single, Foreign, Top
<1> QED
  BY Zenon, <1>2 DEF Foreign

\* Activations of all threads, after a step that keeps what it has to keep.
LEMMA FramesKept ==
    ASSUME IInv, NEW t \in Threads, Depth(t) > 0, Carries(t), Others(t), Below(t)
    PROVE  /\ \A u \in Threads \ {t} : \A i \in 1..Depth(u)' : FrameInv(u, stack[u][i])'
           /\ \A i \in 1..(Depth(t) - 1) : FrameInv(t, stack[t][i])'
<1>1. ASSUME NEW u \in Threads \ {t}, NEW i \in 1..Depth(u)'
      PROVE  FrameInv(u, stack[u][i])'
  <2>1. stack'[u] = stack[u] /\ Depth(u)' = Depth(u)
    BY Zenon DEF Others, Depth
  <2>2. stack[u][i] \in Frames /\ FrameInv(u, stack[u][i]) /\ Foreign(t, u, stack[u][i])
    BY <1>1, <2>1, TopType, ForeignBelow DEF IInv, FramesInv, TypeOK, Depth
  <2>3. PICK g \in Frames : g = stack[u][i]
    BY Zenon, <2>2
  <2>4. FrameInv(u, g)'
    BY Zenon, <2>2, <2>3 DEF Carries
  <2> QED
    BY Zenon, <2>1, <2>3, <2>4 DEF FrameInv, PastConstraints
<1>2. ASSUME NEW i \in 1..(Depth(t) - 1)
      PROVE  FrameInv(t, stack[t][i])'
  <2>1. i \in 1..Depth(t) /\ stack'[t][i] = stack[t][i]
    BY <1>2, TopType DEF IInv, Below
  <2>2. stack[t][i] \in Frames /\ FrameInv(t, stack[t][i]) /\ Foreign(t, t, stack[t][i])
    BY Zenon, <2>1, TopType, ForeignBelow DEF IInv, FramesInv
  <2>3. PICK g \in Frames : g = stack[t][i]
    BY Zenon, <2>2
  <2>4. FrameInv(t, g)'
    BY Zenon, <2>2, <2>3 DEF Carries
  <2> QED
    BY Zenon, <2>1, <2>3, <2>4 DEF FrameInv, PastConstraints
<1> QED
  BY Zenon, <1>1, <1>2

\* What is to be shown of superclasses after a step.
LEMMA SuperCallsNext ==
    ASSUME world' = world, stack' \in [Threads -> Seq(Frames)],
           \A u \in Threads, i \in Nat, c \in Classes, s \in Classes :
              i \in 1..Depth(u)' /\ c = stack'[u][i].cls /\ s = Super(c) => SuperCall(u, i, s)'
    PROVE  SuperCalls'
<1>1. SUFFICES ASSUME NEW u \in Threads, NEW i \in 1..Depth(u)', NEW s \in Classes,
                      s = Super(stack[u][i].cls)'
               PROVE  SuperCall(u, i, s)'
  BY Zenon DEF SuperCalls
<1>2. stack'[u][i].cls \in Classes
  BY Zenon, FrameClass DEF Depth
<1>3. PICK c \in Classes : c = stack'[u][i].cls
  BY Zenon, <1>2
<1>4. s = Super(c)
  BY Zenon, <1>1, <1>3 DEF Super
<1> QED
  BY <1>1, <1>3, <1>4

-----------------------------------------------------------------------------
(* The stacks stay right, whichever of the three things a step does to them. *)

\* The innermost activation of t goes on as f.
LEMMA GoStep ==
    ASSUME IInv, NEW t \in Threads, Depth(t) > 0, NEW f \in Frames, Goes(t, f), Keeps(t),
           world' = world, f.cls = Top(t).cls, FrameInv(t, f)',
           Top(t).at \in Running => f.at \in Running,
           f.at \in Running => Top(t).at \in Running \/ initializingThread[f.cls] # t,
           \A u \in Threads, d \in Classes : initializingThread'[d] = u =>
              initializingThread[d] = u \/ (u = t /\ d = f.cls /\ f.at \in Running),
           f.at = "wait" => m_state'[f.cls] = "Initializing" /\ initializingThread'[f.cls] # t,
           f.at = "clinit" => ~HasSuper(f.cls),
           f.at = "running" => Top(t).at = "running" \/ (Top(t).at = "clinit" /\ t \notin exn),
           f.at \in LinkLabels => Top(t).at \in LinkLabels
    PROVE  Stacks'
<1>1. /\ Depth(t) \in Nat /\ Depth(t) > 0 /\ Top(t) \in Frames
      /\ Top(t) = stack[t][Depth(t)]
  BY Zenon, TopType DEF IInv, Top
<1>2. /\ Depth(t)' = Depth(t) /\ stack'[t][Depth(t)] = f
      /\ \A i \in 1..(Depth(t) - 1) : stack'[t][i] = stack[t][i]
      /\ \A u \in Threads \ {t} : stack'[u] = stack[u] /\ Depth(u)' = Depth(u)
  BY Zenon DEF Goes, Others, Below, Depth
<1>3. \A u \in Threads : Depth(u) \in Nat
  BY DEF IInv, TypeOK, Depth
<1>4. Carries(t) /\ Others(t) /\ Below(t)
  BY Zenon DEF Keeps, Goes
<1>5. FramesInv'
  <2>1. ASSUME NEW i \in 1..Depth(t)'
        PROVE  FrameInv(t, stack[t][i])'
    <3>1. CASE i = Depth(t)
      BY Zenon, <3>1, <1>2 DEF FrameInv, PastConstraints
    <3>2. CASE i # Depth(t)
      BY <3>2, <1>1, <1>2, <1>4, <2>1, FramesKept
    <3> QED
      BY Zenon, <3>1, <3>2
  <2> QED
    BY <2>1, <1>4, FramesKept DEF FramesInv
<1>6. Calling'
  BY <1>1, <1>2 DEF IInv, Calling
<1>7. Single'
  <2>1. ASSUME NEW i \in 1..(Depth(t) - 1), f.at \in Running, stack[t][i].at \in Running
        PROVE  stack[t][i].cls # f.cls
    <3>1. i \in 1..Depth(t) /\ i # Depth(t) /\ Depth(t) \in 1..Depth(t)
      BY <1>1, <2>1
    <3>2. initializingThread[stack[t][i].cls] = t
      BY Zenon, <2>1, <3>1 DEF IInv, FramesInv, FrameInv
    <3> QED
      BY Zenon, <1>1, <2>1, <3>1, <3>2 DEF IInv, Single
  <2> QED
    BY <1>1, <1>2, <1>3, <2>1 DEF IInv, Single
<1>8. RunnerExists'
  <2>1. SUFFICES ASSUME NEW u \in Threads, NEW d \in Classes, initializingThread'[d] = u
                 PROVE  \E i \in 1..Depth(u)' : stack'[u][i].at \in Running /\ stack'[u][i].cls = d
    BY Zenon DEF RunnerExists
  <2>2. CASE initializingThread[d] # u
    BY <1>1, <1>2, <2>1, <2>2
  <2>3. CASE initializingThread[d] = u
    <3>1. PICK i \in 1..Depth(u) : stack[u][i].at \in Running /\ stack[u][i].cls = d
      BY Zenon, <2>3 DEF IInv, RunnerExists
    <3>2. CASE u = t /\ i = Depth(t)
      BY Zenon, <1>1, <1>2, <3>1, <3>2
    <3>3. CASE u # t \/ i # Depth(t)
      BY <1>1, <1>2, <1>3, <3>1, <3>3
    <3> QED
      BY Zenon, <3>2, <3>3
  <2> QED
    BY Zenon, <2>2, <2>3
<1>9. NoLostWaiter'
  BY <1>1, <1>2 DEF NoLostWaiter, At, Top, Keeps
<1>10. SuperCalls'
  <2>1. ASSUME NEW u \in Threads, NEW i \in 1..Depth(u), NEW s \in Classes, UsableBelow(u, i, s)
        PROVE  UsableBelow(u, i, s)'
    BY <1>1, <1>2, <1>3, <2>1 DEF UsableBelow, Keeps
  <2>2. SUFFICES ASSUME NEW u \in Threads, NEW i \in Nat, NEW c \in Classes, NEW s \in Classes,
                        i \in 1..Depth(u)', c = stack'[u][i].cls, s = Super(c)
                 PROVE  SuperCall(u, i, s)'
    BY Zenon, <1>4, SuperCallsNext DEF Others
  <2>3. i \in 1..Depth(u) /\ Depth(u)' = Depth(u) /\ HasSuper(c) /\ Depth(u) \in Nat
    BY Zenon, <1>2, <1>3, <2>2, NoClassAssumption DEF HasSuper
  <2>4. UsableBelow(u, i, s) => UsableBelow(u, i, s)'
    BY Zenon, <2>1, <2>3
  <2>5. CASE u = t /\ i = Depth(t)
    <3>1. f = stack'[t][i] /\ c = stack[t][i].cls /\ Top(t) = stack[t][i] /\ f.cls = c
      BY Zenon, <1>1, <1>2, <2>2, <2>5
    <3>2. SuperCall(t, i, s)
      BY Zenon, <2>2, <2>3, <2>5, <3>1 DEF IInv, SuperCalls
    <3>3. f.at = "running" => UsableBelow(t, i, s)
      BY Zenon, <2>5, <3>1, <3>2 DEF SuperCall
    <3>4. f.at # "clinit"
      BY Zenon, <2>3, <3>1
    <3> QED
      BY Zenon, <2>4, <2>5, <3>1, <3>3, <3>4 DEF SuperCall
  <2>6. CASE u # t \/ i # Depth(t)
    <3>1. stack'[u][i] = stack[u][i]
      BY <1>1, <1>2, <2>3, <2>6
    <3>2. SuperCall(u, i, s)
      BY Zenon, <2>2, <2>3, <3>1 DEF IInv, SuperCalls
    <3>3. CASE i = Depth(u)
      <4>1. u # t /\ (u \in exn <=> u \in exn')
        BY Zenon, <2>6, <3>3 DEF Keeps
      <4> QED
        BY Zenon, <2>3, <2>4, <3>1, <3>2, <3>3, <4>1 DEF SuperCall
    <3>4. CASE i # Depth(u)
      <4>1. i + 1 \in 1..Depth(u)
        BY <2>3, <3>4
      <4>2. /\ stack'[u][i + 1].cls = stack[u][i + 1].cls
            /\ stack'[u][i + 1].at \in LinkLabels => stack[u][i + 1].at \in LinkLabels
        BY <1>1, <1>2, <2>3, <4>1
      <4> QED
        BY Zenon, <2>3, <2>4, <3>1, <3>2, <3>4, <4>2 DEF SuperCall
    <3> QED
      BY Zenon, <3>3, <3>4
  <2> QED
    BY Zenon, <2>5, <2>6
<1> QED
  BY Zenon, <1>5, <1>6, <1>7, <1>8, <1>9, <1>10 DEF Stacks

\* The innermost activation of t goes on as f below a new activation g.
LEMMA CallStep ==
    ASSUME IInv, NEW t \in Threads, Depth(t) > 0, NEW f \in Frames, NEW g \in Frames,
           Calls(t, f, g), UNCHANGED <<world, shared, exn>>,
           f.cls = Top(t).cls, f.at \in Resting, FrameInv(t, f), FrameInv(t, g),
           f.at \in Running <=> Top(t).at \in Running,
           g.at \notin Running, g.at # "wait",
           f.at = "clinit" /\ HasSuper(f.cls) => g.cls = Super(f.cls) /\ g.at \notin LinkLabels,
           f.at = "running" => Top(t).at = "running",
           f.at \in LinkLabels => Top(t).at \in LinkLabels
    PROVE  Stacks'
<1>1. /\ Depth(t) \in Nat /\ Depth(t) > 0 /\ Top(t) \in Frames
      /\ Top(t) = stack[t][Depth(t)]
  BY Zenon, TopType DEF IInv, Top
<1>2. /\ Depth(t)' = Depth(t) + 1 /\ stack'[t][Depth(t)] = f /\ stack'[t][Depth(t) + 1] = g
      /\ \A i \in 1..(Depth(t) - 1) : stack'[t][i] = stack[t][i]
      /\ \A u \in Threads \ {t} : stack'[u] = stack[u] /\ Depth(u)' = Depth(u)
  BY Zenon DEF Calls, Others, Below, Depth
<1>3. \A u \in Threads : Depth(u) \in Nat
  BY DEF IInv, TypeOK, Depth
<1>4. /\ Others(t) /\ Below(t)
      /\ m_state' = m_state /\ initializingThread' = initializingThread
      /\ m_lock' = m_lock /\ notified' = notified /\ runs' = runs /\ exn' = exn
  BY Zenon DEF Calls, shared
<1>5. FramesInv'
  <2>1. ASSUME NEW u \in Threads, NEW h \in Frames, FrameInv(u, h)
        PROVE  FrameInv(u, h)'
    BY Zenon, <1>4, <2>1 DEF FrameInv, PastConstraints
  <2>2. Carries(t)
    BY Zenon, <2>1 DEF Carries
  <2>3. FrameInv(t, f)' /\ FrameInv(t, g)'
    BY Zenon, <2>1
  <2>4. ASSUME NEW i \in 1..Depth(t)'
        PROVE  FrameInv(t, stack[t][i])'
    <3>1. CASE i \in {Depth(t), Depth(t) + 1}
      BY <3>1, <1>2, <2>3 DEF FrameInv, PastConstraints
    <3>2. CASE i \notin {Depth(t), Depth(t) + 1}
      BY <3>2, <1>1, <1>2, <1>4, <2>2, <2>4, FramesKept
    <3> QED
      BY Zenon, <3>1, <3>2
  <2> QED
    BY Zenon, <2>2, <2>4, <1>4, FramesKept DEF FramesInv
<1>6. Calling'
  BY <1>1, <1>2, <1>3 DEF IInv, Calling
<1>7. Single'
  <2>1. ASSUME NEW i \in 1..(Depth(t) - 1), f.at \in Running, stack[t][i].at \in Running
        PROVE  stack[t][i].cls # f.cls
    <3>1. i \in 1..Depth(t) /\ i # Depth(t) /\ Depth(t) \in 1..Depth(t)
      BY <1>1, <2>1
    <3> QED
      BY Zenon, <1>1, <2>1, <3>1 DEF IInv, Single
  <2>2. \A i \in 1..Depth(t)' : i = Depth(t) \/ i = Depth(t) + 1 \/ i \in 1..(Depth(t) - 1)
    BY <1>1, <1>2
  <2>3. \A i \in 1..(Depth(t) - 1) : i \in 1..Depth(t)
    BY <1>1
  <2>4. ASSUME NEW i \in 1..Depth(t)', NEW j \in 1..Depth(t)',
               stack'[t][i].at \in Running, stack'[t][j].at \in Running,
               stack'[t][i].cls = stack'[t][j].cls
        PROVE  i = j
    <3>1. i # Depth(t) + 1 /\ j # Depth(t) + 1
      BY Zenon, <1>2, <2>4
    <3>2. CASE i = Depth(t) \/ j = Depth(t)
      BY Zenon, <1>2, <2>1, <2>2, <2>4, <3>1, <3>2
    <3>3. CASE i # Depth(t) /\ j # Depth(t)
      BY Zenon, <1>2, <2>2, <2>3, <2>4, <3>1, <3>3 DEF IInv, Single
    <3> QED
      BY Zenon, <3>2, <3>3
  <2> QED
    BY <1>2, <2>4 DEF IInv, Single
<1>8. RunnerExists'
  <2>1. SUFFICES ASSUME NEW u \in Threads, NEW d \in Classes, initializingThread[d] = u
                 PROVE  \E i \in 1..Depth(u)' : stack'[u][i].at \in Running /\ stack'[u][i].cls = d
    BY Zenon, <1>4 DEF RunnerExists
  <2>2. PICK i \in 1..Depth(u) : stack[u][i].at \in Running /\ stack[u][i].cls = d
    BY Zenon, <2>1 DEF IInv, RunnerExists
  <2>3. i \in 1..Depth(u)'
    BY <1>2, <1>3
  <2>4. CASE u = t /\ i = Depth(t)
    BY Zenon, <1>1, <1>2, <2>2, <2>3, <2>4
  <2>5. CASE u # t \/ i # Depth(t)
    BY <1>1, <1>2, <1>3, <2>2, <2>3, <2>5
  <2> QED
    BY Zenon, <2>4, <2>5
<1>9. NoLostWaiter'
  BY <1>1, <1>2, <1>4 DEF IInv, NoLostWaiter, At, Top
<1>10. SuperCalls'
  <2>1. ASSUME NEW u \in Threads, NEW i \in 1..Depth(u), NEW s \in Classes, UsableBelow(u, i, s)
        PROVE  UsableBelow(u, i, s)'
    BY <1>1, <1>2, <1>3, <1>4, <2>1 DEF UsableBelow
  <2>2. SUFFICES ASSUME NEW u \in Threads, NEW i \in Nat, NEW c \in Classes, NEW s \in Classes,
                        i \in 1..Depth(u)', c = stack'[u][i].cls, s = Super(c)
                 PROVE  SuperCall(u, i, s)'
    BY Zenon, <1>4, SuperCallsNext DEF Others
  <2>3. HasSuper(c) /\ Depth(u) \in Nat
    BY Zenon, <1>3, <2>2, NoClassAssumption DEF HasSuper
  <2>4. CASE u = t /\ i = Depth(t) + 1
    BY Zenon, <1>2, <2>4 DEF Running, SuperCall
  <2>5. CASE u = t /\ i = Depth(t)
    <3>1. /\ f = stack'[t][i] /\ c = stack[t][i].cls /\ Top(t) = stack[t][i] /\ f.cls = c
          /\ g = stack'[t][i + 1] /\ i \in 1..Depth(t) /\ i # Depth(t)'
      BY <1>1, <1>2, <2>2, <2>5
    <3>2. SuperCall(t, i, s)
      BY Zenon, <2>2, <2>5, <3>1 DEF IInv, SuperCalls
    <3>3. f.at = "running" => UsableBelow(t, i, s)
      BY Zenon, <2>5, <3>1, <3>2 DEF SuperCall
    <3>4. f.at = "clinit" => g.cls = s /\ g.at \notin LinkLabels
      BY Zenon, <2>2, <2>3, <3>1
    <3>5. f.at = "running" => UsableBelow(t, i, s)'
      BY Zenon, <2>1, <2>5, <3>1, <3>3
    <3> QED
      BY Zenon, <2>5, <3>1, <3>4, <3>5 DEF SuperCall
  <2>6. CASE u # t \/ i < Depth(t)
    <3>1. /\ i \in 1..Depth(u) /\ stack'[u][i] = stack[u][i]
          /\ i = Depth(u)' <=> i = Depth(u) /\ u # t
      BY <1>1, <1>2, <2>2, <2>3, <2>6
    <3>2. SuperCall(u, i, s)
      BY Zenon, <2>2, <3>1 DEF IInv, SuperCalls
    <3>3. UsableBelow(u, i, s) => UsableBelow(u, i, s)'
      BY Zenon, <2>1, <3>1
    <3>4. CASE i = Depth(u)
      <4>1. u # t /\ i = Depth(u)'
        BY <2>3, <2>6, <3>1, <3>4
      <4> QED
        BY Zenon, <1>4, <3>1, <3>2, <3>3, <3>4, <4>1 DEF SuperCall
    <3>5. CASE i # Depth(u)
      <4>1. i + 1 \in 1..Depth(u) /\ i # Depth(u)'
        BY <2>3, <3>1, <3>5
      <4>2. /\ stack'[u][i + 1].cls = stack[u][i + 1].cls
            /\ stack'[u][i + 1].at \in LinkLabels => stack[u][i + 1].at \in LinkLabels
        BY <1>1, <1>2, <2>3, <4>1
      <4> QED
        BY Zenon, <3>1, <3>2, <3>3, <3>5, <4>1, <4>2 DEF SuperCall
    <3> QED
      BY Zenon, <3>4, <3>5
  <2> QED
    BY <1>1, <1>2, <2>2, <2>4, <2>5, <2>6
<1> QED
  BY Zenon, <1>5, <1>6, <1>7, <1>8, <1>9, <1>10 DEF Stacks

\* The innermost activation of t returns.
LEMMA ReturnStep ==
    ASSUME IInv, NEW t \in Threads, Depth(t) > 0, Returns(t), Keeps(t), world' = world,
           \A u \in Threads, d \in Classes : initializingThread'[d] = u =>
              /\ initializingThread[d] = u
              /\ ~(u = t /\ d = Top(t).cls /\ Top(t).at \in Running),
           Top(t).at \notin LinkLabels =>
              \/ t \in exn'
              \/ m_state'[Top(t).cls] = "Initialized"
              \/ initializingThread'[Top(t).cls] = t
    PROVE  Stacks'
<1>1. /\ Depth(t) \in Nat /\ Depth(t) > 0 /\ Top(t) \in Frames /\ Top(t).cls \in Classes
      /\ Top(t) = stack[t][Depth(t)]
  BY Zenon, TopType DEF IInv, Top
<1>2. /\ Depth(t)' = Depth(t) - 1
      /\ \A i \in 1..(Depth(t) - 1) : stack'[t][i] = stack[t][i]
      /\ \A u \in Threads \ {t} : stack'[u] = stack[u] /\ Depth(u)' = Depth(u)
  BY Zenon DEF Returns, Others, Below, Depth
<1>3. \A u \in Threads : Depth(u) \in Nat
  BY DEF IInv, TypeOK, Depth
<1>4. Carries(t) /\ Others(t) /\ Below(t)
  BY Zenon DEF Keeps, Returns
<1>5. /\ \A u \in Threads : Depth(u)' \in Nat /\ Depth(u)' <= Depth(u)
      /\ \A u \in Threads : \A i \in 1..Depth(u)' : i \in 1..Depth(u) /\ stack'[u][i] = stack[u][i]
  BY <1>1, <1>2, <1>3
<1>6. FramesInv'
  BY <1>2, <1>4, FramesKept DEF FramesInv
<1>7. Calling'
  BY <1>1, <1>2, <1>5 DEF IInv, Calling
<1>8. Single'
  BY <1>5 DEF IInv, Single
<1>9. RunnerExists'
  <2>1. SUFFICES ASSUME NEW u \in Threads, NEW d \in Classes, initializingThread'[d] = u
                 PROVE  \E i \in 1..Depth(u)' : stack'[u][i].at \in Running /\ stack'[u][i].cls = d
    BY Zenon DEF RunnerExists
  <2>2. PICK i \in 1..Depth(u) : stack[u][i].at \in Running /\ stack[u][i].cls = d
    BY <2>1 DEF IInv, RunnerExists
  <2>3. ~(u = t /\ i = Depth(t))
    BY Zenon, <1>1, <2>1, <2>2
  <2>4. i \in 1..Depth(u)'
    BY <1>1, <1>2, <1>3, <2>3
  <2> QED
    BY Zenon, <1>5, <2>2, <2>4
<1>10. NoLostWaiter'
  <2>1. Depth(t)' > 0 => stack'[t][Depth(t)'].at \in Resting
    BY <1>1, <1>2 DEF IInv, Calling
  <2> QED
    BY <1>2, <2>1 DEF NoLostWaiter, At, Top, Keeps, Resting
<1>11. SuperCalls'
  <2>1. SUFFICES ASSUME NEW u \in Threads, NEW i \in Nat, NEW c \in Classes, NEW s \in Classes,
                        i \in 1..Depth(u)', c = stack'[u][i].cls, s = Super(c)
                 PROVE  SuperCall(u, i, s)'
    BY Zenon, <1>4, SuperCallsNext DEF Others
  <2>2. /\ i \in 1..Depth(u) /\ Depth(u) \in Nat /\ Depth(u)' \in Nat /\ Depth(u)' <= Depth(u)
        /\ stack'[u][i] = stack[u][i] /\ c = stack[u][i].cls
    BY Zenon, <1>3, <1>5, <2>1
  <2>3. SuperCall(u, i, s) /\ s # c
    BY Zenon, <2>1, <2>2, SuperType DEF IInv, SuperCalls
  <2>4. UsableBelow(u, i, s) => UsableBelow(u, i, s)'
    BY <1>5, <2>1, <2>2 DEF UsableBelow, Keeps
  <2>5. CASE i # Depth(u)'
    <3>1. i + 1 \in 1..Depth(u)' /\ i # Depth(u)
      BY <2>1, <2>2, <2>5
    <3>2. stack'[u][i + 1] = stack[u][i + 1]
      BY Zenon, <1>5, <3>1
    <3> QED
      BY Zenon, <2>2, <2>3, <2>4, <2>5, <3>1, <3>2 DEF SuperCall
  <2>6. CASE i = Depth(u)' /\ u # t
    <3>1. i = Depth(u) /\ (u \in exn <=> u \in exn')
      BY Zenon, <1>2, <2>6 DEF Keeps
    <3> QED
      BY Zenon, <2>2, <2>3, <2>4, <2>6, <3>1 DEF SuperCall
  <2>7. CASE i = Depth(u)' /\ u = t
    <3>1. i = Depth(t) - 1 /\ i # Depth(t) /\ i + 1 = Depth(t)
      BY <1>1, <1>2, <2>7
    <3>2. ASSUME stack[t][i].at = "clinit"
          PROVE  t \in exn' \/ UsableBelow(t, i, s)'
      <4>1. Top(t).cls = s /\ Top(t).at \notin LinkLabels
        BY Zenon, <1>1, <2>3, <2>7, <3>1, <3>2 DEF SuperCall
      <4>2. ASSUME initializingThread'[s] = t
            PROVE  UsableBelow(t, i, s)
        <5>1. initializingThread[s] = t /\ Top(t).at \notin Running
          BY Zenon, <4>1, <4>2
        <5>2. PICK j \in 1..Depth(t) : stack[t][j].at \in Running /\ stack[t][j].cls = s
          BY Zenon, <5>1 DEF IInv, RunnerExists
        <5>3. j # Depth(t) /\ j # i
          BY Zenon, <1>1, <2>2, <2>3, <2>7, <5>1, <5>2
        <5>4. j \in 1..(i - 1)
          BY <1>1, <3>1, <5>3
        <5> QED
          BY Zenon, <5>2, <5>4 DEF UsableBelow
      <4>3. m_state'[s] = "Initialized" => UsableBelow(t, i, s)'
        BY Zenon DEF UsableBelow
      <4> QED
        BY Zenon, <2>4, <2>7, <4>1, <4>2, <4>3
    <3> QED
      BY Zenon, <2>2, <2>3, <2>4, <2>7, <3>2 DEF SuperCall
  <2> QED
    BY Zenon, <2>5, <2>6, <2>7
<1> QED
  BY Zenon, <1>6, <1>7, <1>8, <1>9, <1>10, <1>11 DEF Stacks

-----------------------------------------------------------------------------
(* One lemma for each action. *)

\* A call keeps the class of the caller.
LEMMA CallShape ==
    ASSUME TypeOK, NEW t \in Threads, Depth(t) > 0, NEW l \in Labels, NEW g \in Frames,
           Call(t, l, g)
    PROVE  \E f \in Frames : f.cls = Top(t).cls /\ f.at = l /\ Calls(t, f, g)
<1>1. PICK f \in Frames : f = [Top(t) EXCEPT !.at = l]
  BY TopType, Zenon DEF Frames
<1>2. f.cls = Top(t).cls /\ f.at = l
  BY Zenon, <1>1, TopType DEF Frames
<1>3. Push(t, f, g)
  BY Zenon, <1>1 DEF Call
<1> QED
  BY Zenon, <1>2, <1>3, PushShape

\* New activations are typed.
LEMMA ActivationType ==
    ASSUME TypeOK, NEW c \in Classes, NEW l \in Labels, NEW then \in {"init", "jni", "return"}
    PROVE  \E g \in Frames : g = Activation(c, l, then) /\ g.cls = c /\ g.at = l
<1>1. world.uses[c] \subseteq Classes
  BY Zenon, WorldsAssumption DEF TypeOK
<1>2. Activation(c, l, then) \in Frames
  BY Zenon, <1>1 DEF Activation, Frames
<1>3. Activation(c, l, then).cls = c /\ Activation(c, l, then).at = l
  BY Zenon DEF Activation
<1> QED
  BY Zenon, <1>2, <1>3

\* What the innermost activation has reached.
LEMMA TopInv ==
    ASSUME IInv, NEW t \in Threads, Depth(t) > 0
    PROVE  FrameInv(t, Top(t)) /\ TypeOK /\ Top(t) \in Frames /\ Top(t).cls \in Classes
<1>1. FrameInv(t, stack[t][Depth(t)])
  BY Zenon, TopType DEF IInv, FramesInv
<1> QED
  BY Zenon, <1>1, TopType DEF IInv, Top

\* A step that changes no class.
LEMMA QuietStep ==
    ASSUME IInv, NEW t \in Threads, UNCHANGED <<world, shared, requests>>,
           Others(t), exn' \subseteq Threads, \A u \in Threads \ {t} : u \in exn <=> u \in exn'
    PROVE  Shared' /\ Keeps(t)
<1>1. /\ m_state' = m_state /\ initializingThread' = initializingThread
      /\ m_lock' = m_lock /\ notified' = notified /\ runs' = runs
  BY Zenon DEF shared
<1>2. Shared'
  BY Zenon, <1>1 DEF IInv, Shared, TypeOK, ClassInv, InitializedOnce, Others
<1>3. Carries(t)
  BY <1>1 DEF Carries, FrameInv, PastConstraints
<1>4. Keeps(t)
  BY Zenon, <1>1, <1>3 DEF IInv, Keeps, NoLostWaiter
<1> QED
  BY Zenon, <1>2, <1>4

\* The two halves of the invariant.
LEMMA Halves == ASSUME Shared', Stacks' PROVE IInv'
BY Zenon DEF Shared, Stacks, IInv

\* Stores of m_state, m_lock and m_initializing_thread touch one class.
LEMMA StoreShape ==
    ASSUME NEW S, NEW F \in [Classes -> S], NEW G, NEW c \in Classes, NEW s \in S,
           G = [F EXCEPT ![c] = s]
    PROVE  G \in [Classes -> S] /\ G[c] = s /\ \A d \in Classes : d # c => G[d] = F[d]
BY Zenon

\* LoadClass: the superclass is linked first, by an activation that holds nothing.
LEMMA LoadClassInv ==
    ASSUME IInv, NEW t \in Threads, LoadClass(t)
    PROVE  IInv'
<1> DEFINE c == Top(t).cls
<1>1. Depth(t) > 0 /\ Top(t).at = "load" /\ UNCHANGED <<world, shared, exn, requests>>
  BY Zenon DEF LoadClass, At
<1>2. TypeOK /\ c \in Classes /\ exn' \subseteq Threads
  BY Zenon, <1>1, TopInv DEF TypeOK
<1>3. CASE m_state[c] = "Start" /\ HasSuper(c)
  <2>1. Call(t, "ancestors", Activation(Super(c), "load", "return"))
    BY Zenon, <1>3 DEF LoadClass
  <2>2. Super(c) \in Classes
    BY Zenon, <1>2, <1>3, SuperType DEF HasSuper
  <2>3. PICK g \in Frames : g = Activation(Super(c), "load", "return") /\ g.at = "load"
    BY <1>2, <2>2, ActivationType DEF Labels, LinkLabels
  <2>4. PICK f \in Frames : f.cls = c /\ f.at = "ancestors" /\ Calls(t, f, g)
    BY Zenon, <1>1, <1>2, <2>1, <2>3, CallShape DEF Labels, LinkLabels
  <2>5. FrameInv(t, f) /\ FrameInv(t, g)
    BY Zenon, <2>3, <2>4 DEF FrameInv, Running, Holding
  <2>6. Stacks'
    BY Zenon, <1>1, <2>3, <2>4, <2>5, CallStep DEF Running, Resting, LinkLabels
  <2>7. Shared'
    BY Zenon, <1>1, <1>2, <2>4, QuietStep DEF Calls
  <2> QED
    BY Zenon, <2>6, <2>7, Halves
<1>4. CASE ~(m_state[c] = "Start" /\ HasSuper(c))
  <2>1. PICK f \in Frames : f.cls = c /\ f.at = "ancestors" /\ Goes(t, f)
    BY Zenon, <1>1, <1>2, <1>4, GotoShape DEF LoadClass, Labels, LinkLabels
  <2>2. Shared' /\ Keeps(t)
    BY Zenon, <1>1, <1>2, <2>1, QuietStep DEF Goes
  <2>3. FrameInv(t, f)'
    BY Zenon, <2>1 DEF FrameInv, Running, Holding
  <2>4. Stacks'
    BY Zenon, <1>1, <2>1, <2>2, <2>3, GoStep DEF Running, LinkLabels, shared
  <2> QED
    BY Zenon, <2>2, <2>4, Halves
<1> QED
  BY Zenon, <1>3, <1>4

\* LoadedAncestors: only a class in ST_Start moves, and no activation relies on that.
LEMMA LoadedAncestorsInv ==
    ASSUME IInv, NEW t \in Threads, LoadedAncestors(t)
    PROVE  IInv'
<1> DEFINE c == Top(t).cls
<1>1. /\ Depth(t) > 0 /\ Top(t).at = "ancestors"
      /\ UNCHANGED <<world, initializingThread, m_lock, notified, runs, requests>>
  BY Zenon DEF LoadedAncestors, At
<1>2. TypeOK /\ c \in Classes /\ exn' \subseteq Threads
      /\ \A u \in Threads \ {t} : u \in exn <=> u \in exn'
  BY Zenon, <1>1, TopInv DEF LoadedAncestors, Raise, TypeOK
<1>3. CASE Return(t) /\ UNCHANGED m_state
  <2>1. Returns(t)
    BY Zenon, <1>1, <1>2, <1>3, ReturnShape
  <2>2. Shared' /\ Keeps(t)
    BY Zenon, <1>1, <1>2, <1>3, <2>1, QuietStep DEF Returns, shared, TypeOK
  <2>3. Stacks'
    BY Zenon, <1>1, <2>1, <2>2, ReturnStep DEF Running, LinkLabels
  <2> QED
    BY Zenon, <2>2, <2>3, Halves
<1>4. CASE /\ IF m_state[c] = "Start" THEN SetState(c, "Loaded") ELSE UNCHANGED m_state
           /\ Goto(t, "verify") /\ exn' = exn
  <2>1. PICK f \in Frames : f.cls = c /\ f.at = "verify" /\ Goes(t, f)
    BY Zenon, <1>1, <1>2, <1>4, GotoShape DEF Labels, LinkLabels
  <2>2. /\ m_state' \in [Classes -> States] /\ m_state'[c] # "Start"
        /\ \A d \in Classes : m_state[d] # m_state'[d] =>
              d = c /\ m_state[d] = "Start" /\ m_state'[d] = "Loaded"
    BY Zenon, <1>2, <1>4 DEF TypeOK, SetState, States
  <2>3. Shared'
    BY Zenon, <1>1, <1>2, <2>1, <2>2 DEF IInv, Shared, TypeOK, ClassInv, InitializedOnce, Goes, Others
  <2>4. Carries(t)
    BY <1>1, <2>2 DEF Carries, FrameInv, PastConstraints, Frames
  <2>5. Keeps(t)
    BY Zenon, <1>1, <1>2, <2>2, <2>4, TopType DEF IInv, Keeps, NoLostWaiter, At
  <2>6. FrameInv(t, f)'
    BY Zenon, <2>1, <2>2 DEF FrameInv, Running, Holding
  <2>7. Stacks'
    BY Zenon, <1>1, <2>1, <2>5, <2>6, GoStep DEF Running, LinkLabels
  <2> QED
    BY Zenon, <2>3, <2>7, Halves
<1> QED
  BY Zenon, <1>3, <1>4 DEF LoadedAncestors

\* Verify: m_lock is taken only when it is free, so no other activation holds it.
LEMMA VerifyInv ==
    ASSUME IInv, NEW t \in Threads, Verify(t)
    PROVE  IInv'
<1> DEFINE c == Top(t).cls
<1>1. /\ Depth(t) > 0 /\ Top(t).at = "verify"
      /\ UNCHANGED <<world, m_state, initializingThread, notified, runs, exn, requests>>
  BY Zenon DEF Verify, At
<1>2. TypeOK /\ c \in Classes /\ m_state[c] # "Start"
  BY Zenon, <1>1, TopInv DEF FrameInv
<1>3. CASE AtLeastVerified(c) /\ Goto(t, "prepare") /\ UNCHANGED m_lock
  <2>1. PICK f \in Frames : f.cls = c /\ f.at = "prepare" /\ Goes(t, f)
    BY Zenon, <1>1, <1>2, <1>3, GotoShape DEF Labels, LinkLabels
  <2>2. Shared' /\ Keeps(t)
    BY Zenon, <1>1, <1>2, <1>3, <2>1, QuietStep DEF Goes, shared, TypeOK
  <2>3. FrameInv(t, f)'
    BY Zenon, <1>1, <1>2, <1>3, <2>1 DEF FrameInv, Running, Holding, AtLeastVerified
  <2>4. Stacks'
    BY Zenon, <1>1, <2>1, <2>2, <2>3, GoStep DEF Running, LinkLabels
  <2> QED
    BY Zenon, <2>2, <2>4, Halves
<1>4. CASE ~AtLeastVerified(c) /\ Lock(t, c) /\ Goto(t, "verifying")
  <2>1. PICK f \in Frames : f.cls = c /\ f.at = "verifying" /\ Goes(t, f)
    BY Zenon, <1>1, <1>2, <1>4, GotoShape DEF Labels, LinkLabels
  <2>2. /\ m_lock[c] = NoThread /\ m_lock' \in [Classes -> Threads \cup {NoThread}]
        /\ m_lock'[c] = t
        /\ \A d \in Classes : d # c => m_lock'[d] = m_lock[d]
    BY Zenon, <1>2, <1>4 DEF TypeOK, Lock
  <2>3. Shared'
    BY Zenon, <1>1, <2>1, <2>2 DEF IInv, Shared, TypeOK, ClassInv, InitializedOnce, Goes, Others
  <2>4. Carries(t)
    BY <1>1, <2>2, NoThreadAssumption
       DEF Carries, FrameInv, PastConstraints, Frames
  <2>5. Keeps(t)
    BY Zenon, <1>1, <2>4 DEF IInv, Keeps, NoLostWaiter
  <2>6. FrameInv(t, f)'
    BY Zenon, <1>1, <1>4, <2>1, <2>2 DEF FrameInv, Running, Holding, AtLeastVerified
  <2>7. Stacks'
    BY Zenon, <1>1, <2>1, <2>5, <2>6, GoStep DEF Running, LinkLabels
  <2> QED
    BY Zenon, <2>3, <2>7, Halves
<1> QED
  BY Zenon, <1>3, <1>4 DEF Verify

\* VerifyBytecodes: releasing m_lock concerns only the activation that holds it.
LEMMA VerifyBytecodesInv ==
    ASSUME IInv, NEW t \in Threads, VerifyBytecodes(t)
    PROVE  IInv'
<1> DEFINE c == Top(t).cls
<1>1. /\ Depth(t) > 0 /\ Top(t).at = "verifying" /\ Unlock(c)
      /\ UNCHANGED <<world, initializingThread, notified, runs, requests>>
  BY Zenon DEF VerifyBytecodes, At
<1>2. TypeOK /\ c \in Classes /\ m_lock[c] = t /\ m_state[c] = "Loaded"
  BY Zenon, <1>1, TopInv DEF FrameInv, Holding
<1>3. /\ m_lock' \in [Classes -> Threads \cup {NoThread}]
      /\ \A d \in Classes : d # c => m_lock'[d] = m_lock[d]
  BY Zenon, <1>1, <1>2 DEF TypeOK, Unlock
<1>4. CASE SetState(c, "BytecodesVerified") /\ Goto(t, "prepare") /\ UNCHANGED exn
  <2>1. PICK f \in Frames : f.cls = c /\ f.at = "prepare" /\ Goes(t, f)
    BY Zenon, <1>1, <1>2, <1>4, GotoShape DEF Labels, LinkLabels
  <2>2. /\ m_state' \in [Classes -> States] /\ m_state'[c] = "BytecodesVerified"
        /\ \A d \in Classes : d # c => m_state'[d] = m_state[d]
    BY <1>2, <1>4, StoreShape DEF TypeOK, SetState, States
  <2>3. Shared'
    BY Zenon, <1>1, <1>2, <1>3, <1>4, <2>1, <2>2
       DEF IInv, Shared, TypeOK, ClassInv, InitializedOnce, Goes, Others
  <2>4. Carries(t)
    BY <1>1, <1>2, <1>3, <2>2
       DEF Carries, Foreign, FrameInv, PastConstraints, Frames,
           Holding, Resting
  <2>5. Keeps(t)
    BY Zenon, <1>1, <1>2, <1>4, <2>2, <2>4, TopType DEF IInv, Keeps, NoLostWaiter, At
  <2>6. FrameInv(t, f)'
    BY Zenon, <2>1, <2>2 DEF FrameInv, Running, Holding
  <2>7. Stacks'
    BY Zenon, <1>1, <2>1, <2>5, <2>6, GoStep DEF Running, LinkLabels
  <2> QED
    BY Zenon, <2>3, <2>7, Halves
<1>5. CASE Raise(t) /\ Return(t) /\ UNCHANGED m_state
  <2>1. Returns(t)
    BY Zenon, <1>1, <1>2, <1>5, ReturnShape
  <2>2. exn' \subseteq Threads /\ \A u \in Threads \ {t} : u \in exn <=> u \in exn'
    BY Zenon, <1>2, <1>5 DEF Raise, TypeOK
  <2>3. Shared'
    BY Zenon, <1>1, <1>3, <1>5, <2>1, <2>2
       DEF IInv, Shared, TypeOK, ClassInv, InitializedOnce, Returns, Others
  <2>4. Carries(t)
    BY <1>1, <1>2, <1>3, <1>5
       DEF Carries, Foreign, FrameInv, PastConstraints, Frames,
           Holding, Resting
  <2>5. Keeps(t)
    BY Zenon, <1>1, <1>5, <2>2, <2>4 DEF IInv, Keeps, NoLostWaiter
  <2>6. Stacks'
    BY Zenon, <1>1, <2>1, <2>5, ReturnStep DEF Running, LinkLabels
  <2> QED
    BY Zenon, <2>3, <2>6, Halves
<1> QED
  BY Zenon, <1>4, <1>5 DEF VerifyBytecodes

\* Prepare: the state seen before m_lock still holds under it.
LEMMA PrepareInv ==
    ASSUME IInv, NEW t \in Threads, Prepare(t)
    PROVE  IInv'
<1> DEFINE c == Top(t).cls
<1> DEFINE done == AtLeastPrepared(c) \/ m_state[c] = "Error"
<1>1. /\ Depth(t) > 0 /\ Top(t).at = "prepare"
      /\ UNCHANGED <<world, m_state, initializingThread, notified, runs, exn, requests>>
  BY Zenon DEF Prepare, At
<1>2. TypeOK /\ c \in Classes /\ m_state[c] # "Start" /\ m_state[c] # "Loaded"
  BY Zenon, <1>1, TopInv DEF FrameInv
<1>3. CASE done /\ Return(t) /\ UNCHANGED m_lock
  <2>1. Returns(t)
    BY Zenon, <1>1, <1>2, <1>3, ReturnShape
  <2>2. Shared' /\ Keeps(t)
    BY Zenon, <1>1, <1>2, <1>3, <2>1, QuietStep DEF Returns, shared, TypeOK
  <2>3. Stacks'
    BY Zenon, <1>1, <2>1, <2>2, ReturnStep DEF Running, LinkLabels
  <2> QED
    BY Zenon, <2>2, <2>3, Halves
<1>4. CASE done /\ Top(t).then # "return" /\ Goto(t, Top(t).then) /\ UNCHANGED m_lock
  <2>1. PICK l \in {"init", "jni"} : l = Top(t).then
    BY Zenon, <1>1, <1>4, TopInv DEF Frames
  <2>2. PICK f \in Frames : f.cls = c /\ f.at = l /\ Goes(t, f)
    BY Zenon, <1>1, <1>2, <1>4, <2>1, GotoShape DEF Labels, ConstraintLabels
  <2>3. Shared' /\ Keeps(t)
    BY Zenon, <1>1, <1>2, <1>4, <2>2, QuietStep DEF Goes, shared, TypeOK
  <2>4. FrameInv(t, f)'
    BY Zenon, <1>1, <1>4, <2>1, <2>2
       DEF FrameInv, Running, Holding
  <2>5. Stacks'
    BY Zenon, <1>1, <2>1, <2>2, <2>3, <2>4, GoStep DEF Running, LinkLabels
  <2> QED
    BY Zenon, <2>3, <2>5, Halves
<1>5. CASE ~done /\ Lock(t, c) /\ Goto(t, "layout")
  <2>1. PICK f \in Frames : f.cls = c /\ f.at = "layout" /\ Goes(t, f)
    BY Zenon, <1>1, <1>2, <1>5, GotoShape DEF Labels, LinkLabels
  <2>2. /\ m_lock[c] = NoThread /\ m_lock' \in [Classes -> Threads \cup {NoThread}]
        /\ m_lock'[c] = t
        /\ \A d \in Classes : d # c => m_lock'[d] = m_lock[d]
    BY Zenon, <1>2, <1>5 DEF TypeOK, Lock
  <2>3. Shared'
    BY Zenon, <1>1, <2>1, <2>2 DEF IInv, Shared, TypeOK, ClassInv, InitializedOnce, Goes, Others
  <2>4. Carries(t)
    BY <1>1, <2>2, NoThreadAssumption
       DEF Carries, FrameInv, PastConstraints, Frames
  <2>5. Keeps(t)
    BY Zenon, <1>1, <2>4 DEF IInv, Keeps, NoLostWaiter
  <2>6. m_state[c] \in {"BytecodesVerified", "InstanceSizeComputed"}
    BY Zenon, <1>2, <1>5 DEF TypeOK, States, AtLeastPrepared
  <2>7. FrameInv(t, f)'
    BY Zenon, <1>1, <2>1, <2>2, <2>6 DEF FrameInv, Running, Holding
  <2>8. Stacks'
    BY Zenon, <1>1, <2>1, <2>5, <2>7, GoStep DEF Running, LinkLabels
  <2> QED
    BY Zenon, <2>3, <2>8, Halves
<1> QED
  BY Zenon, <1>3, <1>4, <1>5 DEF Prepare, Linked

\* AssignOffsets: m_state moves under m_lock, from a state no other activation relies on.
LEMMA AssignOffsetsInv ==
    ASSUME IInv, NEW t \in Threads, AssignOffsets(t)
    PROVE  IInv'
<1> DEFINE c == Top(t).cls
<1>1. /\ Depth(t) > 0 /\ Top(t).at = "layout"
      /\ UNCHANGED <<world, initializingThread, notified, runs, requests>>
  BY Zenon DEF AssignOffsets, At
<1>2. /\ TypeOK /\ Top(t) \in Frames /\ c \in Classes /\ m_lock[c] = t
      /\ m_state[c] \in {"BytecodesVerified", "InstanceSizeComputed"}
  BY Zenon, <1>1, TopInv DEF FrameInv, Holding
<1>3. CASE SetState(c, "InstanceSizeComputed") /\ UNCHANGED <<stack, exn, m_lock>>
  <2>1. PICK f \in Frames : f = Top(t)
    BY Zenon, <1>2
  <2>2. Goes(t, f)
    BY Zenon, <1>2, <1>3, <2>1 DEF Goes, Others, Below, Top, Depth, TypeOK
  <2>3. /\ m_state' \in [Classes -> States] /\ m_state'[c] = "InstanceSizeComputed"
        /\ \A d \in Classes : d # c => m_state'[d] = m_state[d]
    BY Zenon, <1>2, <1>3, StoreShape DEF TypeOK, SetState, States
  <2>4. Shared'
    BY Zenon, <1>1, <1>2, <1>3, <2>2, <2>3
       DEF IInv, Shared, TypeOK, ClassInv, InitializedOnce, Goes, Others
  <2>5. Carries(t)
    BY <1>1, <1>2, <1>3, <2>3
       DEF Carries, Foreign, FrameInv, PastConstraints, Frames,
           Holding, Resting
  <2>6. Keeps(t)
    BY Zenon, <1>1, <1>2, <1>3, <2>3, <2>5, TopType DEF IInv, Keeps, NoLostWaiter, At
  <2>7. FrameInv(t, f)'
    BY Zenon, <1>1, <1>2, <1>3, <2>1, <2>3 DEF FrameInv, Running, Holding
  <2>8. Stacks'
    BY Zenon, <1>1, <2>1, <2>2, <2>6, <2>7, GoStep DEF Running, LinkLabels
  <2> QED
    BY Zenon, <2>4, <2>8, Halves
<1>4. CASE SetState(c, "Prepared") /\ Goto(t, "statics") /\ UNCHANGED <<exn, m_lock>>
  <2>1. PICK f \in Frames : f.cls = c /\ f.at = "statics" /\ Goes(t, f)
    BY Zenon, <1>1, <1>2, <1>4, GotoShape DEF Labels, LinkLabels
  <2>2. /\ m_state' \in [Classes -> States] /\ m_state'[c] = "Prepared"
        /\ \A d \in Classes : d # c => m_state'[d] = m_state[d]
    BY <1>2, <1>4, StoreShape DEF TypeOK, SetState, States
  <2>3. Shared'
    BY Zenon, <1>1, <1>2, <1>4, <2>1, <2>2
       DEF IInv, Shared, TypeOK, ClassInv, InitializedOnce, Goes, Others
  <2>4. Carries(t)
    BY <1>1, <1>2, <1>4, <2>2
       DEF Carries, Foreign, FrameInv, PastConstraints, Frames,
           Holding, Resting
  <2>5. Keeps(t)
    BY Zenon, <1>1, <1>2, <1>4, <2>2, <2>4, TopType DEF IInv, Keeps, NoLostWaiter, At
  <2>6. FrameInv(t, f)'
    BY Zenon, <1>2, <1>4, <2>1, <2>2 DEF FrameInv, Running, Holding
  <2>7. Stacks'
    BY Zenon, <1>1, <2>1, <2>5, <2>6, GoStep DEF Running, LinkLabels
  <2> QED
    BY Zenon, <2>3, <2>7, Halves
<1>5. CASE SetState(c, "Error") /\ Raise(t) /\ Unlock(c) /\ Return(t)
  <2>1. Returns(t)
    BY Zenon, <1>1, <1>2, <1>5, ReturnShape
  <2>2. exn' \subseteq Threads /\ \A u \in Threads \ {t} : u \in exn <=> u \in exn'
    BY Zenon, <1>2, <1>5 DEF Raise, TypeOK
  <2>3. /\ m_state' \in [Classes -> States] /\ m_state'[c] = "Error"
        /\ \A d \in Classes : d # c => m_state'[d] = m_state[d]
        /\ m_lock' \in [Classes -> Threads \cup {NoThread}]
        /\ \A d \in Classes : d # c => m_lock'[d] = m_lock[d]
    BY <1>2, <1>5, StoreShape DEF TypeOK, SetState, States, Unlock
  <2>4. Shared'
    BY Zenon, <1>1, <1>2, <2>1, <2>2, <2>3
       DEF IInv, Shared, TypeOK, ClassInv, InitializedOnce, Returns, Others
  <2>5. Carries(t)
    BY <1>1, <1>2, <2>3
       DEF Carries, Foreign, FrameInv, PastConstraints, Frames,
           Holding, Resting
  <2>6. Keeps(t)
    BY <1>1, <1>2, <2>2, <2>3, <2>5, TopType DEF IInv, Keeps, NoLostWaiter, At
  <2>7. Stacks'
    BY Zenon, <1>1, <2>1, <2>6, ReturnStep DEF Running, LinkLabels
  <2> QED
    BY Zenon, <2>4, <2>7, Halves
<1> QED
  BY Zenon, <1>3, <1>4, <1>5 DEF AssignOffsets

\* AssignStatics: m_lock is released, with or without an exception.
LEMMA AssignStaticsInv ==
    ASSUME IInv, NEW t \in Threads, AssignStatics(t)
    PROVE  IInv'
<1> DEFINE c == Top(t).cls
<1>1. /\ Depth(t) > 0 /\ Top(t).at = "statics" /\ Unlock(c)
      /\ UNCHANGED <<world, m_state, initializingThread, notified, runs, requests>>
  BY Zenon DEF AssignStatics, At
<1>2. TypeOK /\ Top(t) \in Frames /\ c \in Classes /\ m_lock[c] = t /\ m_state[c] = "Prepared"
  BY Zenon, <1>1, TopInv DEF FrameInv, Holding
<1>3. /\ m_lock' \in [Classes -> Threads \cup {NoThread}]
      /\ \A d \in Classes : d # c => m_lock'[d] = m_lock[d]
  BY Zenon, <1>1, <1>2 DEF TypeOK, Unlock
<1>4. exn' \subseteq Threads /\ \A u \in Threads \ {t} : u \in exn <=> u \in exn'
  BY Zenon, <1>2 DEF AssignStatics, Raise, TypeOK
<1>5. Others(t) => Shared'
  BY Zenon, <1>1, <1>3, <1>4 DEF IInv, Shared, TypeOK, ClassInv, InitializedOnce, Others
<1>6. Carries(t)
  BY <1>1, <1>2, <1>3
     DEF Carries, Foreign, FrameInv, PastConstraints, Frames,
         Holding, Resting
<1>7. Keeps(t)
  BY Zenon, <1>1, <1>4, <1>6 DEF IInv, Keeps, NoLostWaiter
<1>8. CASE Return(t)
  <2>1. Returns(t)
    BY Zenon, <1>1, <1>2, <1>8, ReturnShape
  <2>2. Stacks'
    BY Zenon, <1>1, <1>7, <2>1, ReturnStep DEF Running, LinkLabels
  <2> QED
    BY Zenon, <1>5, <2>1, <2>2, Halves DEF Returns
<1>9. CASE Top(t).then # "return" /\ Goto(t, Top(t).then)
  <2>1. PICK l \in {"init", "jni"} : l = Top(t).then
    BY Zenon, <1>2, <1>9 DEF Frames
  <2>2. PICK f \in Frames : f.cls = c /\ f.at = l /\ Goes(t, f)
    BY Zenon, <1>1, <1>2, <1>9, <2>1, GotoShape DEF Labels, ConstraintLabels
  <2>3. FrameInv(t, f)'
    BY Zenon, <1>1, <1>2, <2>1, <2>2
       DEF FrameInv, Running, Holding
  <2>4. Stacks'
    BY Zenon, <1>1, <1>7, <2>1, <2>2, <2>3, GoStep DEF Running, LinkLabels
  <2> QED
    BY Zenon, <1>5, <2>2, <2>4, Halves DEF Goes
<1> QED
  BY Zenon, <1>8, <1>9 DEF AssignStatics, Linked

\* ClassInitialize: an initialized class is left at once.
LEMMA ClassInitializeInv ==
    ASSUME IInv, NEW t \in Threads, ClassInitialize(t)
    PROVE  IInv'
<1> DEFINE c == Top(t).cls
<1>1. /\ Depth(t) > 0 /\ Top(t).at \in {"init", "jni"}
      /\ UNCHANGED <<world, shared, exn, requests>>
  BY Zenon DEF ClassInitialize, At
<1>2. TypeOK /\ c \in Classes /\ exn' \subseteq Threads
  BY Zenon, <1>1, TopInv DEF FrameInv, TypeOK
<1>3. CASE m_state[c] = "Initialized" /\ Return(t)
  <2>1. Returns(t)
    BY Zenon, <1>1, <1>2, <1>3, ReturnShape
  <2>2. Shared' /\ Keeps(t)
    BY Zenon, <1>1, <1>2, <2>1, QuietStep DEF Returns
  <2>3. Stacks'
    BY Zenon, <1>1, <1>3, <2>1, <2>2, ReturnStep DEF Running, shared
  <2> QED
    BY Zenon, <2>2, <2>3, Halves
<1>4. CASE Goto(t, "constraints")
  <2>1. PICK f \in Frames : f.cls = c /\ f.at = "constraints" /\ Goes(t, f)
    BY Zenon, <1>1, <1>2, <1>4, GotoShape DEF Labels, ConstraintLabels
  <2>2. Shared' /\ Keeps(t)
    BY Zenon, <1>1, <1>2, <2>1, QuietStep DEF Goes
  <2>3. FrameInv(t, f)'
    BY Zenon, <1>1, <1>2, <2>1
       DEF FrameInv, Running, Holding, shared
  <2>4. Stacks'
    BY Zenon, <1>1, <2>1, <2>2, <2>3, GoStep DEF Running, LinkLabels, shared
  <2> QED
    BY Zenon, <2>2, <2>4, Halves
<1> QED
  BY Zenon, <1>3, <1>4 DEF ClassInitialize

\* VerifyConstraints: initialize is entered only past the constraints.
LEMMA VerifyConstraintsInv ==
    ASSUME IInv, NEW t \in Threads, VerifyConstraints(t)
    PROVE  IInv'
<1> DEFINE c == Top(t).cls
<1>1. /\ Depth(t) > 0 /\ Top(t).at = "constraints"
      /\ UNCHANGED <<world, shared, exn, requests>>
  BY Zenon DEF VerifyConstraints, At
<1>2. TypeOK /\ c \in Classes /\ exn' \subseteq Threads
  BY Zenon, <1>1, TopInv DEF FrameInv, TypeOK
<1>3. PICK l \in {"enter", "checking"} : Goto(t, l) /\ (l = "enter" => PastConstraints(c))
  BY Zenon DEF VerifyConstraints
<1>4. PICK f \in Frames : f.cls = c /\ f.at = l /\ Goes(t, f)
  BY Zenon, <1>1, <1>2, <1>3, GotoShape DEF Labels, ConstraintLabels, InitLabels
<1>5. Shared' /\ Keeps(t)
  BY Zenon, <1>1, <1>2, <1>4, QuietStep DEF Goes
<1>6. FrameInv(t, f)'
  BY Zenon, <1>1, <1>2, <1>3, <1>4
     DEF FrameInv, Running, Holding,
         PastConstraints, shared
<1>7. Stacks'
  BY Zenon, <1>1, <1>3, <1>4, <1>5, <1>6, GoStep DEF Running, LinkLabels, shared
<1> QED
  BY Zenon, <1>5, <1>7, Halves

\* ConstraintsResult: m_state is looked at again, so an initialization is never undone.
LEMMA ConstraintsResultInv ==
    ASSUME IInv, NEW t \in Threads, ConstraintsResult(t)
    PROVE  IInv'
<1> DEFINE c == Top(t).cls
<1>1. /\ Depth(t) > 0 /\ Top(t).at = "checking" /\ m_lock[c] = NoThread
      /\ UNCHANGED <<world, initializingThread, m_lock, notified, runs, requests>>
  BY Zenon DEF ConstraintsResult, At
<1>2. TypeOK /\ c \in Classes
  BY Zenon, <1>1, TopInv DEF FrameInv
<1>3. CASE PastConstraints(c) /\ Goto(t, "enter") /\ UNCHANGED <<m_state, exn>>
  <2>1. PICK f \in Frames : f.cls = c /\ f.at = "enter" /\ Goes(t, f)
    BY Zenon, <1>1, <1>2, <1>3, GotoShape DEF Labels, InitLabels
  <2>2. Shared' /\ Keeps(t)
    BY Zenon, <1>1, <1>2, <1>3, <2>1, QuietStep DEF Goes, shared, TypeOK
  <2>3. FrameInv(t, f)'
    BY Zenon, <1>1, <1>3, <2>1 DEF FrameInv, Running, Holding, PastConstraints
  <2>4. Stacks'
    BY Zenon, <1>1, <2>1, <2>2, <2>3, GoStep DEF Running, LinkLabels
  <2> QED
    BY Zenon, <2>2, <2>4, Halves
<1>4. CASE Raise(t) /\ Return(t) /\ UNCHANGED m_state
  <2>1. Returns(t)
    BY Zenon, <1>1, <1>2, <1>4, ReturnShape
  <2>2. /\ exn' \subseteq Threads /\ t \in exn'
        /\ \A u \in Threads \ {t} : u \in exn <=> u \in exn'
    BY Zenon, <1>2, <1>4 DEF Raise, TypeOK
  <2>3. Shared' /\ Keeps(t)
    BY Zenon, <1>1, <1>4, <2>1, <2>2, QuietStep DEF Returns, shared
  <2>4. Stacks'
    BY Zenon, <1>1, <2>1, <2>2, <2>3, ReturnStep DEF Running
  <2> QED
    BY Zenon, <2>3, <2>4, Halves
<1>5. CASE /\ ~PastConstraints(c) /\ SetState(c, "ConstraintsVerified") /\ Goto(t, "enter")
           /\ UNCHANGED exn
  <2>1. PICK f \in Frames : f.cls = c /\ f.at = "enter" /\ Goes(t, f)
    BY Zenon, <1>1, <1>2, <1>5, GotoShape DEF Labels, InitLabels
  <2>2. /\ m_state[c] \notin {"ConstraintsVerified", "Initializing", "Initialized", "Error"}
        /\ m_state' \in [Classes -> States] /\ m_state'[c] = "ConstraintsVerified"
        /\ \A d \in Classes : d # c => m_state'[d] = m_state[d]
    BY <1>2, <1>5, StoreShape
       DEF TypeOK, SetState, States, PastConstraints
  <2>3. Shared'
    BY Zenon, <1>1, <1>2, <1>5, <2>1, <2>2
       DEF IInv, Shared, TypeOK, ClassInv, InitializedOnce, Goes, Others
  <2>4. Carries(t)
    BY <1>1, <1>2, <2>2, NoThreadAssumption
       DEF Carries, FrameInv, PastConstraints, Frames, Holding
  <2>5. Keeps(t)
    BY Zenon, <1>1, <1>2, <1>5, <2>2, <2>4, TopType DEF IInv, Keeps, NoLostWaiter, At
  <2>6. FrameInv(t, f)'
    BY Zenon, <2>1, <2>2 DEF FrameInv, Running, Holding, PastConstraints
  <2>7. Stacks'
    BY Zenon, <1>1, <2>1, <2>5, <2>6, GoStep DEF Running, LinkLabels
  <2> QED
    BY Zenon, <2>3, <2>7, Halves
<1> QED
  BY Zenon, <1>3, <1>4, <1>5 DEF ConstraintsResult

\* InitializeEnter: a class is begun only by a thread that finds no other at it.
LEMMA InitializeEnterInv ==
    ASSUME IInv, NEW t \in Threads, InitializeEnter(t)
    PROVE  IInv'
<1> DEFINE c == Top(t).cls
<1>1. /\ Depth(t) > 0 /\ Top(t).at = "enter"
      /\ UNCHANGED <<world, m_lock, runs, requests>>
  BY Zenon DEF InitializeEnter, At
<1>2. TypeOK /\ c \in Classes /\ PastConstraints(c)
  BY Zenon, <1>1, TopInv DEF FrameInv
<1>3. CASE /\ m_state[c] = "Initializing" /\ initializingThread[c] # t /\ Goto(t, "wait")
           /\ notified' = notified \ {t} /\ UNCHANGED <<m_state, initializingThread, exn>>
  <2>1. PICK f \in Frames : f.cls = c /\ f.at = "wait" /\ Goes(t, f)
    BY Zenon, <1>1, <1>2, <1>3, GotoShape DEF Labels, InitLabels
  <2>2. Shared'
    BY Zenon, <1>1, <1>2, <1>3, <2>1
       DEF IInv, Shared, TypeOK, ClassInv, InitializedOnce, Goes, Others
  <2>3. Carries(t)
    BY <1>1, <1>3 DEF Carries, FrameInv, PastConstraints
  <2>4. Keeps(t)
    BY Zenon, <1>3, <2>3 DEF IInv, Keeps, NoLostWaiter
  <2>5. FrameInv(t, f)'
    BY Zenon, <1>2, <1>3, <2>1 DEF FrameInv, Running, Holding, PastConstraints
  <2>6. Stacks'
    BY Zenon, <1>1, <1>3, <2>1, <2>4, <2>5, GoStep DEF Running, LinkLabels
  <2> QED
    BY Zenon, <2>2, <2>6, Halves
<1>4. CASE /\ initializingThread[c] = t \/ m_state[c] = "Initialized"
           /\ Return(t) /\ UNCHANGED <<m_state, initializingThread, notified, exn>>
  <2>1. Returns(t)
    BY Zenon, <1>1, <1>2, <1>4, ReturnShape
  <2>2. Shared' /\ Keeps(t)
    BY Zenon, <1>1, <1>2, <1>4, <2>1, QuietStep DEF Returns, shared, TypeOK
  <2>3. Stacks'
    BY Zenon, <1>1, <1>4, <2>1, <2>2, ReturnStep DEF Running
  <2> QED
    BY Zenon, <2>2, <2>3, Halves
<1>5. CASE Raise(t) /\ Return(t) /\ UNCHANGED <<m_state, initializingThread, notified>>
  <2>1. Returns(t)
    BY Zenon, <1>1, <1>2, <1>5, ReturnShape
  <2>2. /\ exn' \subseteq Threads /\ t \in exn'
        /\ \A u \in Threads \ {t} : u \in exn <=> u \in exn'
    BY Zenon, <1>2, <1>5 DEF Raise, TypeOK
  <2>3. Shared' /\ Keeps(t)
    BY Zenon, <1>1, <1>5, <2>1, <2>2, QuietStep DEF Returns, shared
  <2>4. Stacks'
    BY Zenon, <1>1, <1>5, <2>1, <2>2, <2>3, ReturnStep DEF Running
  <2> QED
    BY Zenon, <2>3, <2>4, Halves
<1>6. CASE /\ m_state[c] \notin {"Initializing", "Initialized", "Error"}
           /\ m_lock[c] = NoThread /\ SetState(c, "Initializing")
           /\ initializingThread' = [initializingThread EXCEPT ![c] = t]
           /\ Goto(t, "super") /\ UNCHANGED <<notified, exn>>
  <2>1. PICK f \in Frames : f.cls = c /\ f.at = "super" /\ Goes(t, f)
    BY Zenon, <1>1, <1>2, <1>6, GotoShape DEF Labels, InitLabels
  <2>2. /\ m_state[c] = "ConstraintsVerified" /\ initializingThread[c] = NoThread /\ runs[c] = 0
        /\ t # NoThread
    BY Zenon, <1>2, <1>6, NoThreadAssumption DEF PastConstraints, IInv, ClassInv
  <2>3. /\ m_state' \in [Classes -> States] /\ m_state'[c] = "Initializing"
        /\ \A d \in Classes : d # c => m_state'[d] = m_state[d]
    BY <1>2, <1>6, StoreShape DEF TypeOK, SetState, States
  <2>4. /\ initializingThread' \in [Classes -> Threads \cup {NoThread}]
        /\ initializingThread'[c] = t
        /\ \A d \in Classes : d # c => initializingThread'[d] = initializingThread[d]
    BY Zenon, <1>2, <1>6 DEF TypeOK
  <2>5. Shared'
    <3>1. TypeOK'
      BY Zenon, <1>1, <1>2, <1>6, <2>1, <2>3, <2>4 DEF TypeOK, Goes, Others
    <3>2. ASSUME NEW d \in Classes PROVE ClassInv(d)'
      BY Zenon, <1>1, <1>2, <1>6, <2>2, <2>3, <2>4 DEF IInv, ClassInv
    <3>3. InitializedOnce'
      BY Zenon, <1>1, <1>2 DEF IInv, InitializedOnce
    <3> QED
      BY Zenon, <3>1, <3>2, <3>3 DEF Shared
  <2>6. Carries(t)
    BY <1>1, <1>2, <1>6, <2>2, <2>3, <2>4, NoThreadAssumption
       DEF Carries, FrameInv, PastConstraints, Frames, Holding
  <2>7. Keeps(t)
    BY <1>1, <1>2, <1>6, <2>2, <2>3, <2>4, <2>6, TopType DEF IInv, Keeps, NoLostWaiter, At
  <2>8. FrameInv(t, f)'
    BY Zenon, <1>1, <2>1, <2>2, <2>4 DEF FrameInv, Running, Holding
  <2>9. Stacks'
    BY Zenon, <1>1, <2>1, <2>2, <2>4, <2>7, <2>8, GoStep DEF Running, LinkLabels
  <2> QED
    BY Zenon, <2>5, <2>9, Halves
<1> QED
  BY Zenon, <1>3, <1>4, <1>5, <1>6 DEF InitializeEnter

\* InitializeWait: a notified thread goes back to the tests of step 2.
LEMMA InitializeWaitInv ==
    ASSUME IInv, NEW t \in Threads, InitializeWait(t)
    PROVE  IInv'
<1> DEFINE c == Top(t).cls
<1>1. Depth(t) > 0 /\ Top(t).at = "wait" /\ UNCHANGED <<world, shared, requests>>
  BY Zenon DEF InitializeWait, At
<1>2. TypeOK /\ c \in Classes /\ PastConstraints(c)
  BY Zenon, <1>1, TopInv DEF FrameInv
<1>3. CASE Goto(t, "enter") /\ UNCHANGED exn
  <2>1. PICK f \in Frames : f.cls = c /\ f.at = "enter" /\ Goes(t, f)
    BY Zenon, <1>1, <1>2, <1>3, GotoShape DEF Labels, InitLabels
  <2>2. Shared' /\ Keeps(t)
    BY Zenon, <1>1, <1>2, <1>3, <2>1, QuietStep DEF Goes, TypeOK
  <2>3. FrameInv(t, f)'
    BY Zenon, <1>1, <1>2, <2>1 DEF FrameInv, Running, Holding, PastConstraints, shared
  <2>4. Stacks'
    BY Zenon, <1>1, <2>1, <2>2, <2>3, GoStep DEF Running, LinkLabels, shared
  <2> QED
    BY Zenon, <2>2, <2>4, Halves
<1>4. CASE Raise(t) /\ Return(t)
  <2>1. Returns(t)
    BY Zenon, <1>1, <1>2, <1>4, ReturnShape
  <2>2. /\ exn' \subseteq Threads /\ t \in exn'
        /\ \A u \in Threads \ {t} : u \in exn <=> u \in exn'
    BY Zenon, <1>2, <1>4 DEF Raise, TypeOK
  <2>3. Shared' /\ Keeps(t)
    BY Zenon, <1>1, <2>1, <2>2, QuietStep DEF Returns
  <2>4. Stacks'
    BY Zenon, <1>1, <2>1, <2>2, <2>3, ReturnStep DEF Running, shared
  <2> QED
    BY Zenon, <2>3, <2>4, Halves
<1> QED
  BY Zenon, <1>3, <1>4 DEF InitializeWait

\* The step that ends an initialization: no other activation runs the initializer, and
\* every thread that waits for it is notified.
LEMMA CompleteInv ==
    ASSUME IInv, NEW t \in Threads, NEW s \in {"Initialized", "Error"},
           Depth(t) > 0, Top(t).at \in {"clinit", "running"}, Complete(t, Top(t).cls, s),
           UNCHANGED <<world, runs, requests>>, exn' \subseteq Threads,
           \A u \in Threads \ {t} : u \in exn <=> u \in exn', s = "Error" => t \in exn'
    PROVE  IInv'
<1> DEFINE c == Top(t).cls
<1>1. TypeOK /\ c \in Classes /\ initializingThread[c] = t
  BY Zenon, TopInv DEF FrameInv, Running
<1>2. t # NoThread /\ m_state[c] = "Initializing"
  BY Zenon, <1>1, NoThreadAssumption DEF IInv, ClassInv
<1>3. /\ m_lock[c] = NoThread /\ m_lock' = m_lock /\ notified' = notified \cup WaitersOf(c)
      /\ notified' \subseteq Threads /\ Returns(t)
  BY Zenon, <1>1, ReturnShape DEF Complete, WaitersOf, TypeOK
<1>4. /\ m_state' \in [Classes -> States] /\ m_state'[c] = s
      /\ \A d \in Classes : d # c => m_state'[d] = m_state[d]
  BY <1>1, StoreShape DEF TypeOK, Complete, SetState, States
<1>5. /\ initializingThread' \in [Classes -> Threads \cup {NoThread}]
      /\ initializingThread'[c] = NoThread
      /\ \A d \in Classes : d # c => initializingThread'[d] = initializingThread[d]
  BY Zenon, <1>1 DEF TypeOK, Complete
<1>6. Shared'
  BY Zenon, <1>1, <1>3, <1>4, <1>5
     DEF IInv, Shared, TypeOK, ClassInv, InitializedOnce, Returns, Others
<1>7. Carries(t)
  <2>1. SUFFICES ASSUME NEW u \in Threads, NEW f \in Frames, FrameInv(u, f), Foreign(t, u, f)
                 PROVE  FrameInv(u, f)'
    BY Zenon DEF Carries
  <2>2. CASE f.cls # c
    BY Zenon, <1>1, <1>3, <1>4, <1>5, <2>1, <2>2
       DEF FrameInv, PastConstraints, Frames
  <2>3. CASE f.cls = c
    <3>1. f.at \notin Running
      BY Zenon, <1>1, <2>1, <2>3 DEF FrameInv, Foreign, Running
    <3>2. f.at \notin Holding
      BY Zenon, <1>3, <2>1, <2>3, NoThreadAssumption DEF FrameInv
    <3> QED
      BY Zenon, <1>4, <2>1, <2>3, <3>1, <3>2
         DEF FrameInv, PastConstraints, Running, Holding
  <2> QED
    BY Zenon, <2>2, <2>3
<1>8. Keeps(t)
  <2>1. ASSUME NEW u \in Threads \ {t}, At(u, "wait"), u \notin notified'
        PROVE  m_state'[Top(u).cls] = "Initializing" /\ initializingThread'[Top(u).cls] # u
    <3>1. u \notin notified /\ Top(u).cls # c
      BY Zenon, <1>3, <2>1 DEF WaitersOf
    <3>2. Top(u).cls \in Classes
      BY Zenon, <1>1, <2>1, TopType DEF At
    <3> QED
      BY ZenonT(40), <1>4, <1>5, <2>1, <3>1, <3>2 DEF IInv, NoLostWaiter
  <2>2. \A d \in Classes : m_state[d] = "Initialized" => m_state'[d] = "Initialized"
    BY Zenon, <1>2, <1>4
  <2> QED
    BY Zenon, <1>7, <2>1, <2>2 DEF Keeps
<1>9. Stacks'
  BY <1>1, <1>2, <1>3, <1>4, <1>5, <1>8, ReturnStep, NoThreadAssumption
<1> QED
  BY Zenon, <1>6, <1>9, Halves

\* InitializeSuper: the activation of the superclass is put above that of the class.
LEMMA InitializeSuperInv ==
    ASSUME IInv, NEW t \in Threads, InitializeSuper(t)
    PROVE  IInv'
<1> DEFINE c == Top(t).cls
<1>1. Depth(t) > 0 /\ Top(t).at = "super" /\ UNCHANGED <<world, shared, exn, requests>>
  BY Zenon DEF InitializeSuper, At
<1>2. /\ TypeOK /\ c \in Classes /\ exn' \subseteq Threads
      /\ initializingThread[c] = t /\ runs[c] = 0
  BY Zenon, <1>1, TopInv DEF FrameInv, Running, TypeOK
<1>3. CASE HasSuper(c)
  <2>1. Super(c) \in Classes
    BY Zenon, <1>2, <1>3, SuperType DEF HasSuper
  <2>2. PICK g \in Frames : /\ g = Activation(Super(c), "init", "return")
                            /\ g.cls = Super(c) /\ g.at = "init"
    BY <1>2, <2>1, ActivationType DEF Labels, ConstraintLabels
  <2>3. PICK f \in Frames : f.cls = c /\ f.at = "clinit" /\ Calls(t, f, g)
    BY Zenon, <1>1, <1>2, <1>3, <2>2, CallShape DEF InitializeSuper, Labels, InitLabels
  <2>4. FrameInv(t, f)
    BY Zenon, <1>2, <2>3 DEF FrameInv, Running, Holding
  <2>5. FrameInv(t, g)
    BY Zenon, <2>2 DEF FrameInv, Running, Holding
  <2>6. Stacks'
    BY Zenon, <1>1, <2>2, <2>3, <2>4, <2>5, CallStep DEF Running, Resting, LinkLabels
  <2>7. Shared'
    BY Zenon, <1>1, <1>2, <2>3, QuietStep DEF Calls
  <2> QED
    BY Zenon, <2>6, <2>7, Halves
<1>4. CASE ~HasSuper(c)
  <2>1. PICK f \in Frames : f.cls = c /\ f.at = "clinit" /\ Goes(t, f)
    BY Zenon, <1>1, <1>2, <1>4, GotoShape DEF InitializeSuper, Labels, InitLabels
  <2>2. Shared' /\ Keeps(t)
    BY Zenon, <1>1, <1>2, <2>1, QuietStep DEF Goes
  <2>3. FrameInv(t, f)'
    BY Zenon, <1>1, <1>2, <2>1 DEF FrameInv, Running, Holding, shared
  <2>4. Stacks'
    BY Zenon, <1>1, <1>4, <2>1, <2>2, <2>3, GoStep DEF Running, LinkLabels, shared
  <2> QED
    BY Zenon, <2>2, <2>4, Halves
<1> QED
  BY Zenon, <1>3, <1>4

\* InitializeClass: the initializer is started by the one thread at the class, from 0 runs.
LEMMA InitializeClassInv ==
    ASSUME IInv, NEW t \in Threads, InitializeClass(t)
    PROVE  IInv'
<1> DEFINE c == Top(t).cls
<1>1. Depth(t) > 0 /\ Top(t).at = "clinit" /\ UNCHANGED <<world, exn, requests>>
  BY Zenon DEF InitializeClass, At
<1>2. /\ TypeOK /\ c \in Classes /\ exn' \subseteq Threads
      /\ initializingThread[c] = t /\ runs[c] = 0
  BY Zenon, <1>1, TopInv DEF FrameInv, Running, TypeOK
<1>3. CASE t \in exn /\ Complete(t, c, "Error") /\ UNCHANGED runs
  BY Zenon, <1>1, <1>2, <1>3, CompleteInv
<1>4. CASE Complete(t, c, "Initialized") /\ UNCHANGED runs
  BY Zenon, <1>1, <1>2, <1>4, CompleteInv
<1>5. CASE /\ t \notin exn /\ runs' = [runs EXCEPT ![c] = @ + 1] /\ Goto(t, "running")
           /\ UNCHANGED <<m_state, initializingThread, m_lock, notified>>
  <2>1. PICK f \in Frames : f.cls = c /\ f.at = "running" /\ Goes(t, f)
    BY Zenon, <1>1, <1>2, <1>5, GotoShape DEF Labels, InitLabels
  <2>2. m_state[c] = "Initializing"
    BY Zenon, <1>2, NoThreadAssumption DEF IInv, ClassInv
  <2>3. /\ runs' \in [Classes -> Nat] /\ runs'[c] = 1
        /\ \A d \in Classes : d # c => runs'[d] = runs[d]
    BY <1>2, <1>5 DEF TypeOK
  <2>4. Shared'
    BY <1>1, <1>2, <1>5, <2>1, <2>2, <2>3
       DEF IInv, Shared, TypeOK, ClassInv, InitializedOnce, Goes, Others
  <2>5. Carries(t)
    BY <1>1, <1>2, <1>5, <2>3
       DEF Carries, Foreign, FrameInv, PastConstraints, Frames, Running
  <2>6. Keeps(t)
    BY Zenon, <1>1, <1>5, <2>5 DEF IInv, Keeps, NoLostWaiter
  <2>7. FrameInv(t, f)'
    BY Zenon, <1>2, <1>5, <2>1 DEF FrameInv, Running, Holding
  <2>8. Stacks'
    BY Zenon, <1>1, <1>5, <2>1, <2>6, <2>7, GoStep DEF Running, LinkLabels
  <2> QED
    BY Zenon, <2>4, <2>8, Halves
<1> QED
  BY Zenon, <1>3, <1>4, <1>5 DEF InitializeClass

\* InitializerUses: other classes are used above the running initializer.
LEMMA InitializerUsesInv ==
    ASSUME IInv, NEW t \in Threads, InitializerUses(t)
    PROVE  IInv'
<1>1. Depth(t) > 0 /\ Top(t).at = "running" /\ UNCHANGED <<world, shared, exn, requests>>
  BY Zenon DEF InitializerUses, At
<1>2. /\ TypeOK /\ Top(t) \in Frames /\ exn' \subseteq Threads
      /\ initializingThread[Top(t).cls] = t
  BY Zenon, <1>1, TopInv DEF FrameInv, Running, TypeOK
<1>3. PICK c \in Top(t).uses, then \in {"init", "jni"} :
         Push(t, [Top(t) EXCEPT !.uses = @ \ {c}], Activation(c, "load", then))
  BY Zenon DEF InitializerUses
<1>4. c \in Classes
  BY Zenon, <1>2 DEF Frames
<1>5. PICK g \in Frames : g = Activation(c, "load", then) /\ g.at = "load"
  BY <1>2, <1>4, ActivationType DEF Labels, LinkLabels
<1>6. PICK f \in Frames : f = [Top(t) EXCEPT !.uses = @ \ {c}]
  BY <1>2, Zenon DEF Frames
<1>7. f.cls = Top(t).cls /\ f.at = "running"
  BY Zenon, <1>1, <1>2, <1>6 DEF Frames
<1>8. Calls(t, f, g)
  BY Zenon, <1>1, <1>2, <1>3, <1>5, <1>6, PushShape
<1>9. FrameInv(t, f)
  BY Zenon, <1>2, <1>7 DEF FrameInv, Running, Holding
<1>10. FrameInv(t, g)
  BY Zenon, <1>5 DEF FrameInv, Running, Holding
<1>11. Stacks'
  BY Zenon, <1>1, <1>5, <1>7, <1>8, <1>9, <1>10, CallStep DEF Running, Resting, LinkLabels
<1>12. Shared'
  BY Zenon, <1>1, <1>2, <1>8, QuietStep DEF Calls
<1> QED
  BY Zenon, <1>11, <1>12, Halves

\* InitializerCatches: the exception goes, the initializer keeps running.
LEMMA InitializerCatchesInv ==
    ASSUME IInv, NEW t \in Threads, InitializerCatches(t)
    PROVE  IInv'
<1>1. /\ Depth(t) > 0 /\ Top(t).at = "running" /\ exn' = exn \ {t}
      /\ UNCHANGED <<world, shared, stack, requests>>
  BY Zenon DEF InitializerCatches, At
<1>2. TypeOK /\ Top(t) \in Frames /\ initializingThread[Top(t).cls] = t
  BY Zenon, <1>1, TopInv DEF FrameInv, Running
<1>3. PICK f \in Frames : f = Top(t)
  BY Zenon, <1>2
<1>4. Goes(t, f)
  BY Zenon, <1>1, <1>2, <1>3 DEF Goes, Others, Below, Top, Depth, TypeOK
<1>5. exn' \subseteq Threads /\ \A u \in Threads \ {t} : u \in exn <=> u \in exn'
  BY Zenon, <1>1, <1>2 DEF TypeOK
<1>6. Shared' /\ Keeps(t)
  BY Zenon, <1>1, <1>4, <1>5, QuietStep DEF Goes
<1>7. FrameInv(t, f)'
  BY Zenon, <1>1, <1>2, <1>3 DEF FrameInv, Running, Holding, shared
<1>8. Stacks'
  BY Zenon, <1>1, <1>3, <1>4, <1>6, <1>7, GoStep DEF Running, LinkLabels, shared
<1> QED
  BY Zenon, <1>6, <1>8, Halves

\* InitializerReturns: with or without an exception the initialization is completed.
LEMMA InitializerReturnsInv ==
    ASSUME IInv, NEW t \in Threads, InitializerReturns(t)
    PROVE  IInv'
<1> DEFINE c == Top(t).cls
<1>1. Depth(t) > 0 /\ Top(t).at = "running" /\ UNCHANGED <<world, runs, requests>>
  BY Zenon DEF InitializerReturns, At
<1>2. exn \subseteq Threads
  BY Zenon DEF IInv, TypeOK
<1>3. CASE Complete(t, c, "Initialized") /\ UNCHANGED exn
  BY Zenon, <1>1, <1>2, <1>3, CompleteInv
<1>4. CASE Complete(t, c, "Error") /\ Raise(t)
  <2>1. /\ exn' \subseteq Threads /\ t \in exn'
        /\ \A u \in Threads \ {t} : u \in exn <=> u \in exn'
    BY Zenon, <1>2, <1>4 DEF Raise
  <2> QED
    BY Zenon, <1>1, <1>4, <2>1, CompleteInv
<1> QED
  BY Zenon, <1>3, <1>4 DEF InitializerReturns

\* Request: a thread with no activation starts one that has reached nothing.
LEMMA RequestInv ==
    ASSUME IInv, NEW t \in Threads, Request(t)
    PROVE  IInv'
<1>1. PICK c \in requests[t], then \in {"init", "jni"} :
         /\ requests' = [requests EXCEPT ![t] = @ \ {c}]
         /\ stack' = [stack EXCEPT ![t] = <<Activation(c, "load", then)>>]
  BY Zenon DEF Request
<1>2. Depth(t) = 0 /\ exn' = exn \ {t} /\ UNCHANGED <<world, shared>>
  BY Zenon DEF Request
<1>3. TypeOK /\ c \in Classes
  BY Zenon DEF IInv, TypeOK
<1>4. PICK g \in Frames : g = Activation(c, "load", then) /\ g.at = "load"
  BY <1>3, ActivationType DEF Labels, LinkLabels
<1>5. /\ m_state' = m_state /\ initializingThread' = initializingThread
      /\ m_lock' = m_lock /\ notified' = notified /\ runs' = runs
  BY Zenon, <1>2 DEF shared
<1>6. /\ stack' \in [Threads -> Seq(Frames)] /\ stack'[t] = <<g>>
      /\ \A u \in Threads \ {t} : stack'[u] = stack[u] /\ Depth(u)' = Depth(u)
      /\ Depth(t)' = 1 /\ stack'[t][1] = g
  BY <1>1, <1>3, <1>4 DEF TypeOK, Depth
<1>7. TypeOK' /\ (\A d \in Classes : ClassInv(d))' /\ InitializedOnce'
  BY Zenon, <1>1, <1>2, <1>3, <1>5, <1>6 DEF IInv, TypeOK, ClassInv, InitializedOnce
<1>8. FramesInv'
  <2>1. ASSUME NEW u \in Threads, NEW i \in 1..Depth(u)'
        PROVE  FrameInv(u, stack[u][i])'
    <3>1. CASE u = t
      BY <1>4, <1>6, <2>1, <3>1 DEF FrameInv, Running, Holding
    <3>2. CASE u # t
      <4>1. i \in 1..Depth(u) /\ stack'[u][i] = stack[u][i] /\ FrameInv(u, stack[u][i])
        BY Zenon, <1>6, <2>1, <3>2 DEF IInv, FramesInv
      <4> QED
        BY Zenon, <1>5, <4>1 DEF FrameInv, PastConstraints
    <3> QED
      BY Zenon, <3>1, <3>2
  <2> QED
    BY Zenon, <2>1 DEF FramesInv
<1>9. Calling'
  BY <1>6 DEF IInv, Calling
<1>10. Single'
  BY <1>6 DEF IInv, Single
<1>11. RunnerExists'
  BY <1>2, <1>5, <1>6 DEF IInv, RunnerExists
<1>12. NoLostWaiter'
  BY <1>4, <1>5, <1>6, SMTT(30) DEF IInv, NoLostWaiter, At, Top
<1>13. SuperCalls'
  <2>1. SUFFICES ASSUME NEW u \in Threads, NEW i \in Nat, NEW d \in Classes, NEW s \in Classes,
                        i \in 1..Depth(u)', d = stack'[u][i].cls, s = Super(d)
                 PROVE  SuperCall(u, i, s)'
    BY Zenon, <1>2, <1>6, SuperCallsNext
  <2>2. CASE u = t
    BY <1>4, <1>6, <2>1, <2>2 DEF SuperCall
  <2>3. CASE u # t
    <3>1. Depth(u)' = Depth(u) /\ stack'[u] = stack[u] /\ (u \in exn <=> u \in exn')
      BY Zenon, <1>2, <1>6, <2>3
    <3>2. SuperCall(u, i, s)
      BY Zenon, <2>1, <3>1 DEF IInv, SuperCalls
    <3>3. UsableBelow(u, i, s) => UsableBelow(u, i, s)'
      BY Zenon, <1>5, <3>1 DEF UsableBelow
    <3> QED
      BY Zenon, <3>1, <3>2, <3>3 DEF SuperCall
  <2> QED
    BY Zenon, <2>2, <2>3
<1> QED
  BY Zenon, <1>7, <1>8, <1>9, <1>10, <1>11, <1>12, <1>13 DEF IInv

\* Initially no class has been touched and no thread has an activation.
LEMMA InitInv == Init => IInv
<1> SUFFICES ASSUME Init PROVE IInv
  BY Zenon
<1>1. \A t \in Threads : stack[t] = << >> /\ Depth(t) = 0
  BY Zenon DEF Init, Depth
<1>2. world.requests \in [Threads -> SUBSET Classes]
  BY Zenon, WorldsAssumption DEF Init
<1>3. stack \in [Threads -> Seq(Frames)]
  BY DEF Init
<1>4. TypeOK
  BY Zenon, <1>2, <1>3 DEF Init, TypeOK, States
<1>5. (\A c \in Classes : ClassInv(c)) /\ InitializedOnce
  BY DEF Init, ClassInv, InitializedOnce
<1>6. FramesInv /\ Calling /\ Single /\ NoLostWaiter /\ SuperCalls
  BY <1>1 DEF FramesInv, Calling, Single, NoLostWaiter, SuperCalls, At
<1>7. RunnerExists
  BY Zenon, NoThreadAssumption DEF Init, RunnerExists
<1> QED
  BY Zenon, <1>4, <1>5, <1>6, <1>7 DEF IInv

\* Every step of every thread keeps the invariant.
LEMMA StepInv == IInv /\ [Next]_vars => IInv'
<1> SUFFICES ASSUME IInv, [Next]_vars PROVE IInv'
  BY Zenon
<1>1. CASE UNCHANGED vars
  <2>1. /\ world' = world /\ m_state' = m_state /\ initializingThread' = initializingThread
        /\ m_lock' = m_lock /\ notified' = notified /\ runs' = runs /\ stack' = stack
        /\ exn' = exn /\ requests' = requests
    BY Zenon, <1>1 DEF vars, shared
  <2>2. Shared'
    BY Zenon, <2>1 DEF IInv, Shared, TypeOK, ClassInv, InitializedOnce
  <2>3. FramesInv' /\ Calling' /\ Single'
    <3>1. ASSUME NEW t \in Threads, NEW i \in 1..Depth(t)'
          PROVE  FrameInv(t, stack[t][i])'
      <4>1. FrameInv(t, stack[t][i])
        BY Zenon, <2>1 DEF IInv, FramesInv, Depth
      <4> QED
        BY Zenon, <2>1, <4>1 DEF FrameInv, PastConstraints
    <3> QED
      BY Zenon, <2>1, <3>1 DEF IInv, FramesInv, Calling, Single, Depth
  <2>4. RunnerExists' /\ NoLostWaiter'
    BY <2>1, Zenon DEF IInv, RunnerExists, NoLostWaiter, At, Top, Depth
  <2>5. SuperCalls'
    <3>1. SUFFICES ASSUME NEW t \in Threads, NEW i \in 1..Depth(t), NEW s \in Classes,
                          s = Super(stack[t][i].cls)
                   PROVE  SuperCall(t, i, s)'
      BY Zenon, <2>1 DEF SuperCalls, Depth, Super
    <3>2. SuperCall(t, i, s)
      BY Zenon, <3>1 DEF IInv, SuperCalls
    <3> QED
      BY Zenon, <2>1, <3>2 DEF SuperCall, UsableBelow, Depth
  <2> QED
    BY Zenon, <2>2, <2>3, <2>4, <2>5, Halves DEF Stacks
<1>2. ASSUME NEW t \in Threads, Step(t) \/ Request(t)
      PROVE  IInv'
  BY Zenon, <1>2, LoadClassInv, LoadedAncestorsInv, VerifyInv, VerifyBytecodesInv, PrepareInv,
     AssignOffsetsInv, AssignStaticsInv, ClassInitializeInv, VerifyConstraintsInv,
     ConstraintsResultInv, InitializeEnterInv, InitializeWaitInv, InitializeSuperInv,
     InitializeClassInv, InitializerUsesInv, InitializerCatchesInv, InitializerReturnsInv,
     RequestInv DEF Step
<1> QED
  BY Zenon, <1>1, <1>2 DEF Next

-----------------------------------------------------------------------------
(* The theorems. *)

\* The invariant holds in every state the threads can bring the classes to.
THEOREM Invariance == Spec => []IInv
<1> QED
  BY InitInv, StepInv, PTL DEF Spec

\* Class::initialize starts the static initializer of a class at most once, for any
\* number of threads and classes.
THEOREM StaticInitializerRunsOnce == Spec => []InitializedOnce
<1>1. IInv => InitializedOnce
  BY Zenon DEF IInv
<1> QED
  BY <1>1, Invariance, PTL

\* Step 7 of Class::initialize: while a static initializer runs, the superclass is
\* initialized or being initialized by the same thread.
THEOREM SuperclassFirst == Spec => []SuperFirst
<1>1. IInv => SuperFirst
  <2>1. SUFFICES ASSUME IInv, NEW t \in Threads, NEW i \in 1..Depth(t), NEW c,
                        c = stack[t][i].cls, stack[t][i].at = "running", HasSuper(c)
                 PROVE  m_state[Super(c)] = "Initialized" \/ initializingThread[Super(c)] = t
    BY Zenon DEF SuperFirst
  <2>2. UsableBelow(t, i, Super(c))
    <3>1. c \in Classes /\ Super(c) \in Classes
      BY Zenon, <2>1, FrameClass, SuperType DEF IInv, TypeOK, Depth, HasSuper
    <3> QED
      BY Zenon, <2>1, <3>1 DEF IInv, SuperCalls, SuperCall
  <2>3. ASSUME NEW j \in 1..(i - 1), stack[t][j].at \in Running, stack[t][j].cls = Super(c)
        PROVE  initializingThread[Super(c)] = t
    <3>1. j \in 1..Depth(t)
      BY <2>1 DEF IInv, TypeOK, Depth
    <3>2. FrameInv(t, stack[t][j])
      BY Zenon, <2>1, <3>1 DEF IInv, FramesInv
    <3> QED
      BY Zenon, <2>3, <3>2 DEF FrameInv
  <2> QED
    BY Zenon, <2>2, <2>3 DEF UsableBelow
<1> QED
  BY <1>1, Invariance, PTL

\* No wakeup is lost: a thread in the wait of step 2 that is not notified waits for
\* another thread that is still initializing the class.
THEOREM WaiterIsNotified == Spec => []NoLostWaiter
<1>1. IInv => NoLostWaiter
  BY Zenon DEF IInv
<1> QED
  BY <1>1, Invariance, PTL

\* The order of enum Class_State.
LEMMA RankOrder ==
    /\ Rank["Start"] = 0 /\ Rank["Loaded"] = 1 /\ Rank["BytecodesVerified"] = 2
    /\ Rank["InstanceSizeComputed"] = 3 /\ Rank["Prepared"] = 4
    /\ Rank["ConstraintsVerified"] = 5 /\ Rank["Initializing"] = 6
    /\ Rank["Initialized"] = 7 /\ Rank["Error"] = 8
BY Zenon DEF Rank, States

\* The order of Class_State, for the pairs of states between which m_state is stored.
LEMMA RankUp ==
    /\ Rank["Start"] <= Rank["Loaded"] /\ Rank["Loaded"] <= Rank["BytecodesVerified"]
    /\ Rank["BytecodesVerified"] <= Rank["InstanceSizeComputed"]
    /\ Rank["InstanceSizeComputed"] <= Rank["Prepared"]
    /\ Rank["InstanceSizeComputed"] <= Rank["Error"]
    /\ Rank["Initializing"] <= Rank["Initialized"] /\ Rank["Initializing"] <= Rank["Error"]
    /\ \A s \in States \ {"ConstraintsVerified", "Initializing", "Initialized", "Error"} :
           Rank[s] <= Rank["ConstraintsVerified"]
    /\ \A s \in States \ {"Initializing", "Initialized", "Error"} : Rank[s] <= Rank["Initializing"]
<1>1. /\ 0 <= 1 /\ 1 <= 2 /\ 2 <= 3 /\ 3 <= 4 /\ 3 <= 8 /\ 6 <= 7 /\ 6 <= 8
      /\ 0 <= 5 /\ 1 <= 5 /\ 2 <= 5 /\ 3 <= 5 /\ 4 <= 5
      /\ 0 <= 6 /\ 1 <= 6 /\ 2 <= 6 /\ 3 <= 6 /\ 4 <= 6 /\ 5 <= 6
  OBVIOUS
<1> QED
  BY Zenon, <1>1, RankOrder DEF States

\* verify, prepare, verify_constraints and initialize move m_state up the order of
\* enum Class_State only.
THEOREM StatesMoveForward == Spec => StateMovesForward
<1> DEFINE Forward(c) == /\ Rank[m_state[c]] <= Rank[m_state'[c]]
                         /\ m_state[c] = "Initialized" => m_state'[c] = "Initialized"
<1> DEFINE Moves == \A c \in Classes : Forward(c)
<1>1. ASSUME IInv, [Next]_vars
      PROVE  [Moves]_vars
  <2>1. ASSUME m_state' = m_state
        PROVE  Moves
    BY <1>1, <2>1 DEF IInv, TypeOK, Rank, States
  <2>2. ASSUME NEW c \in Classes, NEW s \in States, SetState(c, s), Rank[m_state[c]] <= Rank[s],
               m_state[c] # "Initialized"
        PROVE  Moves
    BY <1>1, <2>2 DEF SetState, IInv, TypeOK, Rank, States
  <2>3. ASSUME NEW t \in Threads, Step(t), m_state' # m_state
        PROVE  Moves
    <3> DEFINE c == Top(t).cls
    <3>1. ASSUME Depth(t) > 0 PROVE c \in Classes /\ FrameInv(t, Top(t)) /\ m_state[c] \in States
      BY Zenon, <1>1, <3>1, TopInv DEF TypeOK
    <3>2. CASE LoadedAncestors(t)
      BY Zenon, RankUp, <2>2, <2>3, <3>1, <3>2 DEF LoadedAncestors, At, States
    <3>3. CASE VerifyBytecodes(t)
      BY Zenon, RankUp, <2>2, <2>3, <3>1, <3>3 DEF VerifyBytecodes, At, FrameInv, States
    <3>4. CASE AssignOffsets(t)
      BY Zenon, RankUp, <2>2, <2>3, <3>1, <3>4 DEF AssignOffsets, At, States
    <3>5. CASE ConstraintsResult(t)
      BY Zenon, RankUp, <2>2, <2>3, <3>1, <3>5 DEF ConstraintsResult, PastConstraints, At, States
    <3>6. CASE InitializeEnter(t)
      BY Zenon, RankUp, <2>2, <2>3, <3>1, <3>6 DEF InitializeEnter, At, States
    <3>7. ASSUME NEW s \in {"Initialized", "Error"}, Complete(t, c, s), Depth(t) > 0,
                 Top(t).at \in {"clinit", "running"}
          PROVE  Moves
      <4>1. m_state[c] = "Initializing"
        BY Zenon, <1>1, <3>1, <3>7, NoThreadAssumption DEF FrameInv, Running, IInv, ClassInv
      <4> QED
        BY Zenon, RankUp, <2>2, <3>1, <3>7, <4>1 DEF Complete, States
    <3>8. CASE InitializeClass(t)
      BY Zenon, <2>3, <3>7, <3>8 DEF InitializeClass, At
    <3>9. CASE InitializerReturns(t)
      BY Zenon, <3>7, <3>9 DEF InitializerReturns, At
    <3> QED
      BY Zenon, <2>3, <3>2, <3>3, <3>4, <3>5, <3>6, <3>8, <3>9
         DEF Step, LoadClass, Verify, Prepare, AssignStatics, ClassInitialize,
             VerifyConstraints, InitializeWait, InitializeSuper, InitializerUses,
             InitializerCatches, shared
  <2>4. ASSUME NEW t \in Threads, Request(t)
        PROVE  m_state' = m_state
    BY Zenon, <2>4 DEF Request, shared
  <2> QED
    BY Zenon, <1>1, <2>1, <2>3, <2>4 DEF Next
<1> QED
  BY <1>1, Invariance, PTL DEF Spec, StateMovesForward

\* A step of one thread leaves the stacks of the others alone.
LEMMA OwnStack ==
    ASSUME TypeOK, NEW t \in Threads, NEW u \in Threads, t # u, Step(u) \/ Request(u)
    PROVE  stack'[t] = stack[t]
<1>1. stack \in [Threads -> Seq(Frames)]
  BY Zenon DEF TypeOK
<1>2. \/ LoadClass(u) \/ LoadedAncestors(u) \/ Verify(u) \/ VerifyBytecodes(u)
      \/ Prepare(u) \/ AssignOffsets(u) \/ AssignStatics(u)
      => stack'[t] = stack[t]
  BY Zenon, <1>1 DEF LoadClass, LoadedAncestors, Verify, VerifyBytecodes, Prepare, AssignOffsets,
              AssignStatics, Linked, Goto, Call, Push, Return
<1>3. \/ ClassInitialize(u) \/ VerifyConstraints(u) \/ ConstraintsResult(u)
      \/ InitializeEnter(u) \/ InitializeWait(u) \/ InitializeSuper(u)
      => stack'[t] = stack[t]
  BY Zenon, <1>1 DEF ClassInitialize, VerifyConstraints, ConstraintsResult, InitializeEnter,
              InitializeWait, InitializeSuper, Goto, Call, Push, Return
<1>4. \/ InitializeClass(u) \/ InitializerUses(u) \/ InitializerCatches(u)
      \/ InitializerReturns(u) \/ Request(u)
      => stack'[t] = stack[t]
  BY Zenon, <1>1 DEF InitializeClass, InitializerUses, InitializerCatches, InitializerReturns,
              Complete, Request, Goto, Push, Return
<1> QED
  BY Zenon, <1>2, <1>3, <1>4 DEF Step

\* A call of class_initialize that returns without an exception leaves the class
\* initialized, or being initialized by the caller.
THEOREM ReturnsInitialized == Spec => InitializedOnReturn
<1> DEFINE Usable(t) == \/ m_state'[Top(t).cls] = "Initialized"
                        \/ initializingThread'[Top(t).cls] = t
<1>1. ASSUME IInv, [Next]_vars
      PROVE  [\A t \in Threads : ReturnsNormally(t) => Usable(t)]_vars
  <2>1. \A t \in Threads : Depth(t) \in Nat
    BY <1>1 DEF IInv, TypeOK, Depth
  <2>2. ASSUME NEW t \in Threads, NEW u \in Threads, Step(u) \/ Request(u), ReturnsNormally(t)
        PROVE  Usable(t)
    <3> DEFINE c == Top(t).cls
    <3>1. /\ c \in Classes /\ TypeOK /\ Depth(t) > 0 /\ Depth(t) \in Nat /\ t \notin exn'
          /\ Top(t).at \in ConstraintLabels \cup InitLabels /\ Len(stack'[t]) < Len(stack[t])
      BY Zenon, <1>1, <2>1, <2>2, TopInv DEF ReturnsNormally, Depth
    <3>2. u = t
      BY <2>1, <2>2, <3>1, OwnStack DEF Depth
    <3>3. ASSUME NEW l \in Labels, Goto(t, l)
          PROVE  FALSE
      BY <3>1, <3>3, GotoShape DEF Goes, Depth
    <3>4. ASSUME NEW f \in Frames, NEW g \in Frames, Push(t, f, g)
          PROVE  FALSE
      BY <3>1, <3>4, PushShape DEF Calls, Depth
    <3>5. stack' # stack /\ ~Raise(t)
      BY <3>1 DEF Raise, Depth
    <3>6. CASE ClassInitialize(t)
      BY Zenon, <3>3, <3>6 DEF ClassInitialize, Labels, ConstraintLabels, shared
    <3>7. CASE VerifyConstraints(t)
      BY Zenon, <3>3, <3>7 DEF VerifyConstraints, Labels, ConstraintLabels, InitLabels
    <3>8. CASE ConstraintsResult(t)
      BY Zenon, <3>3, <3>5, <3>8 DEF ConstraintsResult, Labels, InitLabels
    <3>9. CASE InitializeEnter(t)
      BY Zenon, <3>3, <3>5, <3>9 DEF InitializeEnter, Labels, InitLabels
    <3>10. CASE InitializeWait(t)
      BY Zenon, <3>3, <3>5, <3>10 DEF InitializeWait, Labels, InitLabels
    <3>11. CASE InitializeSuper(t)
      <4>1. CASE HasSuper(c)
        <5>1. PICK g \in Frames : g = Activation(Super(c), "init", "return")
          BY Zenon, <3>1, <4>1, SuperType, ActivationType DEF HasSuper, Labels, ConstraintLabels
        <5>2. Call(t, "clinit", g)
          BY Zenon, <3>11, <4>1, <5>1 DEF InitializeSuper
        <5>3. PICK f \in Frames : Calls(t, f, g)
          BY Zenon, <3>1, <5>2, CallShape DEF Labels, InitLabels
        <5> QED
          BY <3>1, <5>3 DEF Calls, Depth
      <4>2. CASE ~HasSuper(c)
        BY Zenon, <3>3, <3>11, <4>2 DEF InitializeSuper, Labels, InitLabels
      <4> QED
        BY Zenon, <4>1, <4>2
    <3>12. CASE InitializeClass(t)
      BY Zenon, <3>1, <3>3, <3>12
         DEF InitializeClass, Complete, SetState, TypeOK, Labels, InitLabels
    <3>13. CASE InitializerUses(t)
      <4>1. PICK d \in Top(t).uses, then \in {"init", "jni"} :
               Push(t, [Top(t) EXCEPT !.uses = @ \ {d}], Activation(d, "load", then))
        BY Zenon, <3>13 DEF InitializerUses
      <4>2. Top(t) \in Frames /\ d \in Classes
        BY Zenon, <3>1, TopType DEF Frames
      <4>3. PICK g \in Frames : g = Activation(d, "load", then)
        BY <3>1, <4>2, ActivationType DEF Labels, LinkLabels
      <4>4. PICK f \in Frames : f = [Top(t) EXCEPT !.uses = @ \ {d}]
        BY <4>2, Zenon DEF Frames
      <4> QED
        BY Zenon, <3>4, <4>1, <4>3, <4>4
    <3>14. CASE InitializerReturns(t)
      BY Zenon, <3>1, <3>5, <3>14 DEF InitializerReturns, Complete, SetState, TypeOK
    <3>15. Top(t).at \notin LinkLabels
      BY Zenon, <3>1 DEF LinkLabels, ConstraintLabels, InitLabels
    <3>16. CASE \/ LoadClass(t) \/ LoadedAncestors(t) \/ Verify(t) \/ VerifyBytecodes(t)
                \/ Prepare(t) \/ AssignOffsets(t) \/ AssignStatics(t)
      BY Zenon, <3>15, <3>16 DEF LoadClass, LoadedAncestors, Verify, VerifyBytecodes, Prepare,
                          AssignOffsets, AssignStatics, At, LinkLabels
    <3>17. CASE InitializerCatches(t) \/ Request(t)
      BY <3>1, <3>5, <3>17 DEF InitializerCatches, Request
    <3> QED
      BY Zenon, <2>2, <3>2, <3>6, <3>7, <3>8, <3>9, <3>10, <3>11, <3>12, <3>13, <3>14, <3>16, <3>17
         DEF Step
  <2> QED
    BY Zenon, <1>1, <2>2 DEF Next
<1> QED
  BY <1>1, Invariance, PTL DEF Spec, InitializedOnReturn
====
