-------------------------- MODULE ThinMonitorProofs --------------------------
(***************************************************************************)
(* The theorems about ThinMonitor, for any number of threads and any       *)
(* bounds.                                                                 *)
(***************************************************************************)
EXTENDS ThinMonitor, TLAPS

ThreadInv(t) == StageOf(t) /\ CopyOf(t) /\ HoldOf(t) /\ PlaceOf(t) /\ VictimOf(t)

\* A step of t leaves the locals of all other threads alone.
Alone(t) ==
    /\ \A u \in Threads \ {t} :
          /\ pc'[u] = pc[u] /\ stage'[u] = stage[u] /\ copy'[u] = copy[u] /\ ret'[u] = ret[u]
          /\ saved'[u] = saved[u] /\ victim'[u] = victim[u] /\ depth'[u] = depth[u]
    /\ calls' >= calls

\* t acts, and comes out of a safe place only while nobody holds it there.
Leaves(t) ==
    \/ pc'[t] = pc[t]
    \/ pc[t] # "dead" /\ (pc[t] \in SafePlaces /\ pc'[t] \notin SafePlaces => Unasked(t))

\* What a step of t does to the word as the others see it.
Respects(t) ==
    /\ word.fat => word' = word
    /\ ~word.res => ~word'.res
    /\ word.res /\ word'.res /\ word.id # NoThread => word'.id = word.id
    /\ \A u \in Threads \ {t} :
          /\ get_recursion(u)' = get_recursion(u)
          /\ word.id = u => word' = word \/ pc[u] \in SafePlaces

Framed(t) == Alone(t) /\ Leaves(t) /\ Respects(t)

\* Where an attempt that fails goes on.
LEMMA BusyLabel ==
    ASSUME NEW t, stage[t] \in Attempts
    PROVE  AfterBusy(t)[2] \in {"ul_read", "try", "safe_point", "block"}
BY DEF AfterBusy, Attempts

\* A word that names an owner is thin.
LEMMA OwnedThin ==
    ASSUME WordInv, NEW t \in Threads, word.id = t
    PROVE  ~word.fat
BY BoundsAssumption DEF WordInv, Fat

\* The invariant of the threads that do not act.
LEMMA OthersKeep ==
    ASSUME IInv, TypeInv', NEW t \in Threads, Alone(t), Leaves(t), Respects(t)
    PROVE  \A u \in Threads \ {t} : ThreadInv(u)'
<1> SUFFICES ASSUME NEW u \in Threads \ {t} PROVE ThreadInv(u)'
  BY Zenon
<1>1. /\ pc'[u] = pc[u] /\ stage'[u] = stage[u] /\ copy'[u] = copy[u] /\ ret'[u] = ret[u]
      /\ saved'[u] = saved[u] /\ victim'[u] = victim[u] /\ depth'[u] = depth[u] /\ calls' >= calls
  BY Zenon DEF Alone
<1>2. TypeInv /\ WordInv /\ StageOf(u) /\ CopyOf(u) /\ HoldOf(u) /\ PlaceOf(u) /\ VictimOf(u)
  BY Zenon DEF IInv
<1>3. get_recursion(u)' = get_recursion(u)
  BY Zenon DEF Respects
<1>4. StageOf(u)'
  BY <1>1, <1>2 DEF StageOf, TypeInv
<1>5. CopyOf(u)'
  <2>1. (copy[u].fat => copy[u] = Fat /\ word = Fat)'
    BY Zenon, <1>1, <1>2 DEF CopyOf, Respects, Fat
  <2>2. (~copy[u].res => ~word.res)'
    BY Zenon, <1>1, <1>2 DEF CopyOf, Respects
  <2>3. (copy[u].res /\ copy[u].id # NoThread /\ word.res => word.id = copy[u].id)'
    BY Zenon, <1>1, <1>2 DEF CopyOf, Respects
  <2>4. (pc[u] \in StoreLabels /\ copy[u].id = u => word = copy[u])'
    BY Zenon, <1>1, <1>2 DEF CopyOf, Respects, StoreLabels, SafePlaces
  <2> QED
    BY Zenon, <2>1, <2>2, <2>3, <2>4 DEF CopyOf
<1>6. HoldOf(u)'
  BY Zenon, <1>1, <1>2, <1>3 DEF HoldOf
<1>7. PlaceOf(u)'
  BY Zenon, <1>1, <1>2, <1>3 DEF PlaceOf, Respects, SafePlaces
<1>8. VictimOf(u)'
  BY <1>1, <1>2, BoundsAssumption
     DEF VictimOf, Respects, Leaves, Unasked, Alone, TypeInv, LockWords, UnreserveLabels
<1> QED
  BY Zenon, <1>4, <1>5, <1>6, <1>7, <1>8 DEF ThreadInv

\* A step of t keeps the invariant when it keeps what concerns the word and t itself.
LEMMA StepKeeps ==
    ASSUME IInv, NEW t \in Threads, TypeInv', WordInv', Alone(t), Leaves(t), Respects(t),
           ThreadInv(t)'
    PROVE  IInv' /\ Framed(t)
BY Zenon, OthersKeep DEF IInv, ThreadInv, Framed

\* A step that reads the word and the monitor only.
LEMMA QuietKeeps ==
    ASSUME IInv, NEW t \in Threads, TypeInv', word' = word, monitor' = monitor, Alone(t), Leaves(t),
           ThreadInv(t)'
    PROVE  IInv' /\ Framed(t)
<1>1. WordInv'
  BY Zenon DEF IInv, WordInv
<1>2. Respects(t)
  BY Zenon DEF Respects, get_recursion
<1> QED
  BY Zenon, <1>1, <1>2, StepKeeps

\* An entry begins, in the VM or in the compiled fast path, which loads the word.
LEMMA EnterInv == ASSUME IInv, NEW t \in Threads, enter(t) PROVE IInv' /\ Framed(t)
<1>1. TypeInv /\ WordInv /\ StageOf(t) /\ CopyOf(t) /\ HoldOf(t) /\ PlaceOf(t) /\ VictimOf(t)
  BY Zenon DEF IInv
<1>2. word' = word /\ monitor' = monitor
  BY Zenon DEF enter, Ready, Goto, Read, locals, control, environment
<1>3. TypeInv'
  BY <1>1, BoundsAssumption
     DEF TypeInv, enter, Ready, Goto, Read, locals, control, environment, Labels, SafePlaces,
         Attempts
<1>4. Alone(t) /\ Leaves(t)
  BY <1>1
     DEF TypeInv, Alone, Leaves, enter, Ready, Goto, Read, locals, control, environment,
         SafePlaces
<1>5. StageOf(t)'
  BY <1>1, BoundsAssumption
     DEF TypeInv, StageOf, enter, Ready, Goto, Read, locals, control, environment, Labels,
         SafePlaces, Attempts, UnreserveLabels, InflateLabels
<1>6. CopyOf(t)'
  BY Zenon, <1>1, <1>2
     DEF TypeInv, WordInv, CopyOf, enter, Ready, Goto, Read, locals, control, environment,
         StoreLabels, Fat
<1>7. HoldOf(t)'
  BY <1>1, <1>2
     DEF TypeInv, HoldOf, get_recursion, enter, Ready, Goto, Read, locals, control, environment
<1>8. PlaceOf(t)'
  BY <1>1, <1>2
     DEF TypeInv, WordInv, PlaceOf, HoldOf, CopyOf, get_recursion, enter, Ready, Goto, Read,
         locals, control, environment, LockWords
<1>9. VictimOf(t)'
  BY <1>1, <1>2, BoundsAssumption
     DEF TypeInv, WordInv, VictimOf, CopyOf, enter, Ready, Goto, Read, locals, control,
         environment, LockWords, UnreserveLabels, SafePlaces
<1> QED
  BY Zenon, <1>2, <1>3, <1>4, <1>5, <1>6, <1>7, <1>8, <1>9, QuietKeeps DEF ThreadInv

\* hythread_thin_monitor_try_enter loads the word and decides by it.
LEMMA TryEnterInv == ASSUME IInv, NEW t \in Threads, try_enter(t) PROVE IInv' /\ Framed(t)
<1>1. TypeInv /\ WordInv /\ StageOf(t) /\ CopyOf(t) /\ HoldOf(t) /\ PlaceOf(t) /\ VictimOf(t)
  BY Zenon DEF IInv
<1>2. word' = word /\ monitor' = monitor
  BY Zenon DEF try_enter, Goto, Read, locals, control, environment
<1>3. TypeInv'
  BY <1>1, BoundsAssumption
     DEF TypeInv, try_enter, Goto, Read, locals, control, environment, Labels, SafePlaces,
         Attempts
<1>4. Alone(t) /\ Leaves(t)
  BY <1>1
     DEF TypeInv, Alone, Leaves, try_enter, Goto, Read, locals, control, environment, SafePlaces
<1>5. StageOf(t)'
  BY Zenon, <1>1, BoundsAssumption
     DEF TypeInv, StageOf, try_enter, Goto, Read, locals, control, environment, Labels,
         SafePlaces, Attempts, UnreserveLabels, InflateLabels
<1>6. CopyOf(t)'
  BY Zenon, <1>1, <1>2
     DEF TypeInv, WordInv, CopyOf, try_enter, Goto, Read, locals, control, environment,
         StoreLabels, Fat
<1>7. HoldOf(t)'
  BY Zenon, <1>1, <1>2
     DEF TypeInv, HoldOf, get_recursion, try_enter, Goto, Read, locals, control, environment
<1>8. PlaceOf(t)'
  BY <1>1, <1>2, BoundsAssumption
     DEF TypeInv, WordInv, PlaceOf, HoldOf, CopyOf, get_recursion, try_enter, Goto, Read, locals,
         control, environment, LockWords, Fat
<1>9. VictimOf(t)'
  BY Zenon, <1>1, <1>2, BoundsAssumption
     DEF TypeInv, WordInv, VictimOf, CopyOf, try_enter, Goto, Read, locals, control, environment,
         LockWords, UnreserveLabels, SafePlaces
<1> QED
  BY Zenon, <1>2, <1>3, <1>4, <1>5, <1>6, <1>7, <1>8, <1>9, QuietKeeps DEF ThreadInv

\* The id has been swapped into a reserved word: the word is loaded once more to count the entry.
LEMMA ReserveInv == ASSUME IInv, NEW t \in Threads, reserve(t) PROVE IInv' /\ Framed(t)
<1>1. TypeInv /\ WordInv /\ StageOf(t) /\ CopyOf(t) /\ HoldOf(t) /\ PlaceOf(t) /\ VictimOf(t)
  BY Zenon DEF IInv
<1>2. word' = word /\ monitor' = monitor
  BY Zenon DEF reserve, Goto, Read, locals, control, environment
<1>3. TypeInv'
  BY Zenon, <1>1, BoundsAssumption
     DEF TypeInv, reserve, Goto, Read, locals, control, environment, Labels, SafePlaces, Attempts
<1>4. Alone(t) /\ Leaves(t)
  BY <1>1
     DEF TypeInv, Alone, Leaves, reserve, Goto, Read, locals, control, environment, SafePlaces
<1>5. StageOf(t)'
  BY Zenon, <1>1, BoundsAssumption
     DEF TypeInv, StageOf, reserve, Goto, Read, locals, control, environment, Labels, SafePlaces,
         Attempts, UnreserveLabels, InflateLabels
<1>6. CopyOf(t)'
  BY Zenon, <1>1, <1>2
     DEF TypeInv, WordInv, CopyOf, reserve, Goto, Read, locals, control, environment, StoreLabels,
         Fat
<1>7. HoldOf(t)'
  BY Zenon, <1>1, <1>2
     DEF TypeInv, HoldOf, get_recursion, reserve, Goto, Read, locals, control, environment
<1>8. PlaceOf(t)'
  BY <1>1, <1>2, BoundsAssumption
     DEF TypeInv, WordInv, PlaceOf, HoldOf, CopyOf, get_recursion, reserve, Goto, Read, locals,
         control, environment, LockWords, Fat
<1>9. VictimOf(t)'
  BY Zenon, <1>1, <1>2, BoundsAssumption
     DEF TypeInv, WordInv, VictimOf, CopyOf, reserve, Goto, Read, locals, control, environment,
         LockWords, UnreserveLabels, SafePlaces
<1> QED
  BY Zenon, <1>2, <1>3, <1>4, <1>5, <1>6, <1>7, <1>8, <1>9, QuietKeeps DEF ThreadInv

\* A thread goes through hythread_safe_point on its way to the next attempt.
LEMMA SafePointInv == ASSUME IInv, NEW t \in Threads, safe_point(t) PROVE IInv' /\ Framed(t)
<1>1. TypeInv /\ WordInv /\ StageOf(t) /\ CopyOf(t) /\ HoldOf(t) /\ PlaceOf(t) /\ VictimOf(t)
  BY Zenon DEF IInv
<1>2. word' = word /\ monitor' = monitor
  BY Zenon DEF safe_point, Ready, Goto, locals, control, environment
<1>3. TypeInv'
  BY Zenon, <1>1, BoundsAssumption
     DEF TypeInv, safe_point, Ready, Goto, locals, control, environment, Labels, SafePlaces,
         Attempts
<1>4. Alone(t) /\ Leaves(t)
  BY <1>1
     DEF TypeInv, Alone, Leaves, safe_point, Ready, Goto, locals, control, environment, SafePlaces
<1>5. StageOf(t)'
  BY Zenon, <1>1, BoundsAssumption
     DEF TypeInv, StageOf, safe_point, Ready, Goto, locals, control, environment, Labels,
         SafePlaces, Attempts, UnreserveLabels, InflateLabels
<1>6. CopyOf(t)'
  BY Zenon, <1>1, <1>2
     DEF TypeInv, WordInv, CopyOf, safe_point, Ready, Goto, locals, control, environment,
         StoreLabels, Fat
<1>7. HoldOf(t)'
  BY Zenon, <1>1, <1>2
     DEF TypeInv, HoldOf, get_recursion, safe_point, Ready, Goto, locals, control, environment
<1>8. PlaceOf(t)'
  BY Zenon, <1>1, <1>2
     DEF TypeInv, WordInv, PlaceOf, HoldOf, CopyOf, get_recursion, safe_point, Ready, Goto,
         locals, control, environment, LockWords
<1>9. VictimOf(t)'
  BY Zenon, <1>1, <1>2, BoundsAssumption
     DEF TypeInv, WordInv, VictimOf, CopyOf, safe_point, Ready, Goto, locals, control,
         environment, LockWords, UnreserveLabels, SafePlaces
<1> QED
  BY Zenon, <1>2, <1>3, <1>4, <1>5, <1>6, <1>7, <1>8, <1>9, QuietKeeps DEF ThreadInv

\* The end of the safe region after a blocking entry or a wait.
LEMMA WokenInv == ASSUME IInv, NEW t \in Threads, woken(t) PROVE IInv' /\ Framed(t)
<1>1. TypeInv /\ WordInv /\ StageOf(t) /\ CopyOf(t) /\ HoldOf(t) /\ PlaceOf(t) /\ VictimOf(t)
  BY Zenon DEF IInv
<1>2. word' = word /\ monitor' = monitor
  BY Zenon DEF woken, Ready, Goto, locals, control, environment
<1>3. TypeInv'
  BY Zenon, <1>1, BoundsAssumption
     DEF TypeInv, woken, Ready, Goto, locals, control, environment, Labels, SafePlaces, Attempts
<1>4. Alone(t) /\ Leaves(t)
  BY <1>1 DEF TypeInv, Alone, Leaves, woken, Ready, Goto, locals, control, environment, SafePlaces
<1>5. StageOf(t)'
  BY Zenon, <1>1, BoundsAssumption
     DEF TypeInv, StageOf, woken, Ready, Goto, locals, control, environment, Labels, SafePlaces,
         Attempts, UnreserveLabels, InflateLabels
<1>6. CopyOf(t)'
  BY Zenon, <1>1, <1>2
     DEF TypeInv, WordInv, CopyOf, woken, Ready, Goto, locals, control, environment, StoreLabels,
         Fat
<1>7. HoldOf(t)'
  BY Zenon, <1>1, <1>2
     DEF TypeInv, HoldOf, get_recursion, woken, Ready, Goto, locals, control, environment
<1>8. PlaceOf(t)'
  BY Zenon, <1>1, <1>2
     DEF TypeInv, WordInv, PlaceOf, HoldOf, CopyOf, get_recursion, woken, Ready, Goto, locals,
         control, environment, LockWords
<1>9. VictimOf(t)'
  BY Zenon, <1>1, <1>2, BoundsAssumption
     DEF TypeInv, WordInv, VictimOf, CopyOf, woken, Ready, Goto, locals, control, environment,
         LockWords, UnreserveLabels, SafePlaces
<1> QED
  BY Zenon, <1>2, <1>3, <1>4, <1>5, <1>6, <1>7, <1>8, <1>9, QuietKeeps DEF ThreadInv

\* hythread_unreserve_lock loads the word, and suspends nobody if it is not reserved any more.
LEMMA UnreserveReadInv ==
    ASSUME IInv, NEW t \in Threads, unreserve_read(t)
    PROVE  IInv' /\ Framed(t)
<1>1. TypeInv /\ WordInv /\ StageOf(t) /\ CopyOf(t) /\ HoldOf(t) /\ PlaceOf(t) /\ VictimOf(t)
  BY Zenon DEF IInv
<1>2. word' = word /\ monitor' = monitor
  BY Zenon DEF unreserve_read, UnreserveReturns, Goto, Read, locals, control, environment
<1>3. TypeInv'
  BY <1>1, BoundsAssumption
     DEF TypeInv, unreserve_read, UnreserveReturns, Goto, Read, locals, control, environment,
         Labels, SafePlaces, Attempts
<1>4. Alone(t) /\ Leaves(t)
  BY <1>1
     DEF TypeInv, Alone, Leaves, unreserve_read, UnreserveReturns, Goto, Read, locals, control,
         environment, SafePlaces
<1>5. StageOf(t)'
  BY <1>1, BoundsAssumption
     DEF TypeInv, StageOf, unreserve_read, UnreserveReturns, Goto, Read, locals, control,
         environment, Labels, SafePlaces, Attempts, UnreserveLabels, InflateLabels
<1>6. CopyOf(t)'
  BY Zenon, <1>1, <1>2
     DEF TypeInv, WordInv, CopyOf, unreserve_read, UnreserveReturns, Goto, Read, locals, control,
         environment, StoreLabels, Fat
<1>7. HoldOf(t)'
  BY <1>1, <1>2
     DEF TypeInv, HoldOf, get_recursion, unreserve_read, UnreserveReturns, Goto, Read, locals,
         control, environment
<1>8. PlaceOf(t)'
  BY <1>1, <1>2
     DEF TypeInv, WordInv, PlaceOf, HoldOf, CopyOf, get_recursion, unreserve_read,
         UnreserveReturns, Goto, Read, locals, control, environment, LockWords
<1>9. VictimOf(t)'
  BY <1>1, <1>2, BoundsAssumption
     DEF TypeInv, WordInv, VictimOf, CopyOf, unreserve_read, UnreserveReturns, Goto, Read, locals,
         control, environment, LockWords, UnreserveLabels, SafePlaces
<1> QED
  BY Zenon, <1>2, <1>3, <1>4, <1>5, <1>6, <1>7, <1>8, <1>9, QuietKeeps DEF ThreadInv

\* The suspension of the owner is asked for, unless that thread has ended.
LEMMA UnreserveSuspendInv ==
    ASSUME IInv, NEW t \in Threads, unreserve_suspend(t)
    PROVE  IInv' /\ Framed(t)
<1>1. TypeInv /\ WordInv /\ StageOf(t) /\ CopyOf(t) /\ HoldOf(t) /\ PlaceOf(t) /\ VictimOf(t)
  BY Zenon DEF IInv
<1>2. word' = word /\ monitor' = monitor
  BY Zenon DEF unreserve_suspend, Goto, locals, control, environment
<1>3. TypeInv'
  BY <1>1, BoundsAssumption
     DEF TypeInv, VictimOf, LockWords, unreserve_suspend, Goto, locals, control, environment,
         Labels, SafePlaces, Attempts
<1>4. Alone(t) /\ Leaves(t)
  BY <1>1
     DEF TypeInv, Alone, Leaves, unreserve_suspend, Goto, locals, control, environment, SafePlaces
<1>5. StageOf(t)'
  BY <1>1, BoundsAssumption
     DEF TypeInv, StageOf, unreserve_suspend, Goto, locals, control, environment, Labels,
         SafePlaces, Attempts, UnreserveLabels, InflateLabels
<1>6. CopyOf(t)'
  BY Zenon, <1>1, <1>2
     DEF TypeInv, WordInv, CopyOf, unreserve_suspend, Goto, locals, control, environment,
         StoreLabels, Fat
<1>7. HoldOf(t)'
  BY <1>1, <1>2
     DEF TypeInv, HoldOf, get_recursion, unreserve_suspend, Goto, locals, control, environment
<1>8. PlaceOf(t)'
  BY <1>1, <1>2
     DEF TypeInv, WordInv, PlaceOf, HoldOf, CopyOf, get_recursion, unreserve_suspend, Goto,
         locals, control, environment, LockWords
<1>9. VictimOf(t)'
  BY <1>1, <1>2, BoundsAssumption
     DEF TypeInv, WordInv, VictimOf, CopyOf, unreserve_suspend, Goto, locals, control,
         environment, LockWords, UnreserveLabels, SafePlaces
<1> QED
  BY Zenon, <1>2, <1>3, <1>4, <1>5, <1>6, <1>7, <1>8, <1>9, QuietKeeps DEF ThreadInv

\* The owner is let go, and the attempt starts again.
LEMMA UnreserveResumeInv ==
    ASSUME IInv, NEW t \in Threads, unreserve_resume(t)
    PROVE  IInv' /\ Framed(t)
<1>1. TypeInv /\ WordInv /\ StageOf(t) /\ CopyOf(t) /\ HoldOf(t) /\ PlaceOf(t) /\ VictimOf(t)
  BY Zenon DEF IInv
<1>2. word' = word /\ monitor' = monitor
  BY Zenon DEF unreserve_resume, UnreserveReturns, Goto, locals, control, environment
<1>3. TypeInv'
  BY Zenon, <1>1, BoundsAssumption
     DEF TypeInv, unreserve_resume, UnreserveReturns, Goto, locals, control, environment, Labels,
         SafePlaces, Attempts
<1>4. Alone(t) /\ Leaves(t)
  BY <1>1
     DEF TypeInv, Alone, Leaves, unreserve_resume, UnreserveReturns, Goto, locals, control,
         environment, SafePlaces
<1>5. StageOf(t)'
  BY Zenon, <1>1, BoundsAssumption
     DEF TypeInv, StageOf, unreserve_resume, UnreserveReturns, Goto, locals, control, environment,
         Labels, SafePlaces, Attempts, UnreserveLabels, InflateLabels
<1>6. CopyOf(t)'
  BY Zenon, <1>1, <1>2
     DEF TypeInv, WordInv, CopyOf, unreserve_resume, UnreserveReturns, Goto, locals, control,
         environment, StoreLabels, Fat
<1>7. HoldOf(t)'
  BY Zenon, <1>1, <1>2
     DEF TypeInv, HoldOf, get_recursion, unreserve_resume, UnreserveReturns, Goto, locals,
         control, environment
<1>8. PlaceOf(t)'
  BY Zenon, <1>1, <1>2
     DEF TypeInv, WordInv, PlaceOf, HoldOf, CopyOf, get_recursion, unreserve_resume,
         UnreserveReturns, Goto, locals, control, environment, LockWords
<1>9. VictimOf(t)'
  BY Zenon, <1>1, <1>2, BoundsAssumption
     DEF TypeInv, WordInv, VictimOf, CopyOf, unreserve_resume, UnreserveReturns, Goto, locals,
         control, environment, LockWords, UnreserveLabels, SafePlaces
<1> QED
  BY Zenon, <1>2, <1>3, <1>4, <1>5, <1>6, <1>7, <1>8, <1>9, QuietKeeps DEF ThreadInv

\* hythread_inflate_lock loads the word: it is fat already, or reserved, or plainly thin.
LEMMA InflateInv == ASSUME IInv, NEW t \in Threads, inflate(t) PROVE IInv' /\ Framed(t)
<1>1. TypeInv /\ WordInv /\ StageOf(t) /\ CopyOf(t) /\ HoldOf(t) /\ PlaceOf(t) /\ VictimOf(t)
  BY Zenon DEF IInv
<1>2. word' = word /\ monitor' = monitor
  BY Zenon DEF inflate, Goto, Read, locals, control, environment
<1>3. TypeInv'
  BY Zenon, <1>1, BoundsAssumption
     DEF TypeInv, inflate, Goto, Read, locals, control, environment, Labels, SafePlaces, Attempts
<1>4. Alone(t) /\ Leaves(t)
  BY <1>1
     DEF TypeInv, Alone, Leaves, inflate, Goto, Read, locals, control, environment, SafePlaces
<1>5. StageOf(t)'
  BY Zenon, <1>1, BoundsAssumption
     DEF TypeInv, StageOf, inflate, Goto, Read, locals, control, environment, Labels, SafePlaces,
         Attempts, UnreserveLabels, InflateLabels
<1>6. CopyOf(t)'
  BY Zenon, <1>1, <1>2
     DEF TypeInv, WordInv, CopyOf, inflate, Goto, Read, locals, control, environment, StoreLabels,
         Fat
<1>7. HoldOf(t)'
  BY Zenon, <1>1, <1>2
     DEF TypeInv, HoldOf, get_recursion, inflate, Goto, Read, locals, control, environment
<1>8. PlaceOf(t)'
  BY <1>1, <1>2
     DEF TypeInv, WordInv, PlaceOf, HoldOf, CopyOf, get_recursion, inflate, Goto, Read, locals,
         control, environment, LockWords
<1>9. VictimOf(t)'
  BY Zenon, <1>1, <1>2, BoundsAssumption
     DEF TypeInv, WordInv, VictimOf, CopyOf, inflate, Goto, Read, locals, control, environment,
         LockWords, UnreserveLabels, SafePlaces
<1> QED
  BY Zenon, <1>2, <1>3, <1>4, <1>5, <1>6, <1>7, <1>8, <1>9, QuietKeeps DEF ThreadInv

\* An exit begins: the word is loaded.
LEMMA BeginExitInv == ASSUME IInv, NEW t \in Threads, begin_exit(t) PROVE IInv' /\ Framed(t)
<1>1. TypeInv /\ WordInv /\ StageOf(t) /\ CopyOf(t) /\ HoldOf(t) /\ PlaceOf(t) /\ VictimOf(t)
  BY Zenon DEF IInv
<1>2. word' = word /\ monitor' = monitor
  BY Zenon DEF begin_exit, Ready, Goto, Read, locals, control, environment
<1>3. TypeInv'
  BY <1>1, BoundsAssumption
     DEF TypeInv, begin_exit, Ready, Goto, Read, locals, control, environment, Labels, SafePlaces,
         Attempts
<1>4. Alone(t) /\ Leaves(t)
  BY <1>1
     DEF TypeInv, Alone, Leaves, begin_exit, Ready, Goto, Read, locals, control, environment,
         SafePlaces
<1>5. StageOf(t)'
  BY <1>1, BoundsAssumption
     DEF TypeInv, StageOf, begin_exit, Ready, Goto, Read, locals, control, environment, Labels,
         SafePlaces, Attempts, UnreserveLabels, InflateLabels
<1>6. CopyOf(t)'
  BY Zenon, <1>1, <1>2
     DEF TypeInv, WordInv, CopyOf, begin_exit, Ready, Goto, Read, locals, control, environment,
         StoreLabels, Fat
<1>7. HoldOf(t)'
  BY <1>1, <1>2
     DEF TypeInv, HoldOf, get_recursion, begin_exit, Ready, Goto, Read, locals, control,
         environment
<1>8. PlaceOf(t)'
  BY <1>1, <1>2
     DEF TypeInv, WordInv, PlaceOf, HoldOf, CopyOf, get_recursion, begin_exit, Ready, Goto, Read,
         locals, control, environment, LockWords
<1>9. VictimOf(t)'
  BY <1>1, <1>2, BoundsAssumption
     DEF TypeInv, WordInv, VictimOf, CopyOf, begin_exit, Ready, Goto, Read, locals, control,
         environment, LockWords, UnreserveLabels, SafePlaces
<1> QED
  BY Zenon, <1>2, <1>3, <1>4, <1>5, <1>6, <1>7, <1>8, <1>9, QuietKeeps DEF ThreadInv

\* Object.wait begins; a thin lock is inflated first.
LEMMA BeginWaitInv == ASSUME IInv, NEW t \in Threads, begin_wait(t) PROVE IInv' /\ Framed(t)
<1>1. TypeInv /\ WordInv /\ StageOf(t) /\ CopyOf(t) /\ HoldOf(t) /\ PlaceOf(t) /\ VictimOf(t)
  BY Zenon DEF IInv
<1>2. word' = word /\ monitor' = monitor
  BY Zenon DEF begin_wait, Ready, Goto, locals, control, environment
<1>3. TypeInv'
  BY <1>1, BoundsAssumption
     DEF TypeInv, begin_wait, Ready, Goto, locals, control, environment, Labels, SafePlaces,
         Attempts
<1>4. Alone(t) /\ Leaves(t)
  BY <1>1
     DEF TypeInv, Alone, Leaves, begin_wait, Ready, Goto, locals, control, environment, SafePlaces
<1>5. StageOf(t)'
  BY <1>1, BoundsAssumption
     DEF TypeInv, StageOf, begin_wait, Ready, Goto, locals, control, environment, Labels,
         SafePlaces, Attempts, UnreserveLabels, InflateLabels
<1>6. CopyOf(t)'
  BY Zenon, <1>1, <1>2
     DEF TypeInv, WordInv, CopyOf, begin_wait, Ready, Goto, locals, control, environment,
         StoreLabels, Fat
<1>7. HoldOf(t)'
  BY Zenon, <1>1, <1>2
     DEF TypeInv, HoldOf, get_recursion, begin_wait, Ready, Goto, locals, control, environment
<1>8. PlaceOf(t)'
  BY <1>1, <1>2
     DEF TypeInv, WordInv, PlaceOf, HoldOf, CopyOf, get_recursion, begin_wait, Ready, Goto,
         locals, control, environment, LockWords
<1>9. VictimOf(t)'
  BY Zenon, <1>1, <1>2, BoundsAssumption
     DEF TypeInv, WordInv, VictimOf, CopyOf, begin_wait, Ready, Goto, locals, control,
         environment, LockWords, UnreserveLabels, SafePlaces
<1> QED
  BY Zenon, <1>2, <1>3, <1>4, <1>5, <1>6, <1>7, <1>8, <1>9, QuietKeeps DEF ThreadInv

\* A thread that has entered nothing ends.
LEMMA DieInv == ASSUME IInv, NEW t \in Threads, die(t) PROVE IInv' /\ Framed(t)
<1>1. TypeInv /\ WordInv /\ StageOf(t) /\ CopyOf(t) /\ HoldOf(t) /\ PlaceOf(t) /\ VictimOf(t)
  BY Zenon DEF IInv
<1>2. word' = word /\ monitor' = monitor
  BY Zenon DEF die, Ready, Goto, locals, control, environment
<1>3. TypeInv'
  BY Zenon, <1>1, BoundsAssumption
     DEF TypeInv, die, Ready, Goto, locals, control, environment, Labels, SafePlaces, Attempts
<1>4. Alone(t) /\ Leaves(t)
  BY <1>1 DEF TypeInv, Alone, Leaves, die, Ready, Goto, locals, control, environment, SafePlaces
<1>5. StageOf(t)'
  BY Zenon, <1>1, BoundsAssumption
     DEF TypeInv, StageOf, die, Ready, Goto, locals, control, environment, Labels, SafePlaces,
         Attempts, UnreserveLabels, InflateLabels
<1>6. CopyOf(t)'
  BY Zenon, <1>1, <1>2
     DEF TypeInv, WordInv, CopyOf, die, Ready, Goto, locals, control, environment, StoreLabels,
         Fat
<1>7. HoldOf(t)'
  BY Zenon, <1>1, <1>2
     DEF TypeInv, HoldOf, get_recursion, die, Ready, Goto, locals, control, environment
<1>8. PlaceOf(t)'
  BY Zenon, <1>1, <1>2
     DEF TypeInv, WordInv, PlaceOf, HoldOf, CopyOf, get_recursion, die, Ready, Goto, locals,
         control, environment, LockWords
<1>9. VictimOf(t)'
  BY Zenon, <1>1, <1>2, BoundsAssumption
     DEF TypeInv, WordInv, VictimOf, CopyOf, die, Ready, Goto, locals, control, environment,
         LockWords, UnreserveLabels, SafePlaces
<1> QED
  BY Zenon, <1>2, <1>3, <1>4, <1>5, <1>6, <1>7, <1>8, <1>9, QuietKeeps DEF ThreadInv

\* Somebody asks for the suspension of t.
LEMMA AskInv == ASSUME IInv, NEW t \in Threads, ask(t) PROVE IInv' /\ Framed(t)
<1>1. TypeInv /\ WordInv /\ StageOf(t) /\ CopyOf(t) /\ HoldOf(t) /\ PlaceOf(t) /\ VictimOf(t)
  BY Zenon DEF IInv
<1>2. word' = word /\ monitor' = monitor
  BY Zenon DEF ask, locals, control, environment
<1>3. TypeInv'
  BY <1>1, BoundsAssumption
     DEF TypeInv, ask, locals, control, environment, Labels, SafePlaces, Attempts
<1>4. Alone(t) /\ Leaves(t)
  BY <1>1 DEF TypeInv, Alone, Leaves, ask, locals, control, environment, SafePlaces
<1>5. StageOf(t)'
  BY Zenon, <1>1, BoundsAssumption
     DEF TypeInv, StageOf, ask, locals, control, environment, Labels, SafePlaces, Attempts,
         UnreserveLabels, InflateLabels
<1>6. CopyOf(t)'
  BY Zenon, <1>1, <1>2
     DEF TypeInv, WordInv, CopyOf, ask, locals, control, environment, StoreLabels, Fat
<1>7. HoldOf(t)'
  BY Zenon, <1>1, <1>2 DEF TypeInv, HoldOf, get_recursion, ask, locals, control, environment
<1>8. PlaceOf(t)'
  BY Zenon, <1>1, <1>2
     DEF TypeInv, WordInv, PlaceOf, HoldOf, CopyOf, get_recursion, ask, locals, control,
         environment, LockWords
<1>9. VictimOf(t)'
  BY Zenon, <1>1, <1>2, BoundsAssumption
     DEF TypeInv, WordInv, VictimOf, CopyOf, ask, locals, control, environment, LockWords,
         UnreserveLabels, SafePlaces
<1> QED
  BY Zenon, <1>2, <1>3, <1>4, <1>5, <1>6, <1>7, <1>8, <1>9, QuietKeeps DEF ThreadInv

\* Whoever suspended t resumes it.
LEMMA ReleaseInv == ASSUME IInv, NEW t \in Threads, release(t) PROVE IInv' /\ Framed(t)
<1>1. TypeInv /\ WordInv /\ StageOf(t) /\ CopyOf(t) /\ HoldOf(t) /\ PlaceOf(t) /\ VictimOf(t)
  BY Zenon DEF IInv
<1>2. word' = word /\ monitor' = monitor
  BY Zenon DEF release, locals, control, environment
<1>3. TypeInv'
  BY Zenon, <1>1, BoundsAssumption
     DEF TypeInv, release, locals, control, environment, Labels, SafePlaces, Attempts
<1>4. Alone(t) /\ Leaves(t)
  BY <1>1 DEF TypeInv, Alone, Leaves, release, locals, control, environment, SafePlaces
<1>5. StageOf(t)'
  BY Zenon, <1>1, BoundsAssumption
     DEF TypeInv, StageOf, release, locals, control, environment, Labels, SafePlaces, Attempts,
         UnreserveLabels, InflateLabels
<1>6. CopyOf(t)'
  BY Zenon, <1>1, <1>2
     DEF TypeInv, WordInv, CopyOf, release, locals, control, environment, StoreLabels, Fat
<1>7. HoldOf(t)'
  BY Zenon, <1>1, <1>2 DEF TypeInv, HoldOf, get_recursion, release, locals, control, environment
<1>8. PlaceOf(t)'
  BY Zenon, <1>1, <1>2
     DEF TypeInv, WordInv, PlaceOf, HoldOf, CopyOf, get_recursion, release, locals, control,
         environment, LockWords
<1>9. VictimOf(t)'
  BY Zenon, <1>1, <1>2, BoundsAssumption
     DEF TypeInv, WordInv, VictimOf, CopyOf, release, locals, control, environment, LockWords,
         UnreserveLabels, SafePlaces
<1> QED
  BY Zenon, <1>2, <1>3, <1>4, <1>5, <1>6, <1>7, <1>8, <1>9, QuietKeeps DEF ThreadInv

\* An attempt that found the lock busy: another one, or the way on in jthread_monitor_enter.
LEMMA AgainInv ==
    ASSUME IInv, NEW t \in Threads, Again(t), pc[t] \in {"spin", "ul_wait"}, stage[t] \in Attempts,
           word.res => word.id # NoThread,
           victim' \in [Threads -> Threads \cup {NoThread}], victim'[t] = NoThread,
           \A u \in Threads \ {t} : victim'[u] = victim[u],
           UNCHANGED <<word, monitor, ret, saved, environment, depth>>
    PROVE  IInv' /\ Framed(t)
<1>1. TypeInv /\ WordInv /\ StageOf(t) /\ CopyOf(t) /\ HoldOf(t) /\ PlaceOf(t) /\ VictimOf(t)
  BY Zenon DEF IInv
<1>2. TypeInv'
  BY <1>1, BoundsAssumption
     DEF TypeInv, Again, Busy, AfterBusy, Goto, Read, environment, Labels, SafePlaces, Attempts
<1>3. Alone(t) /\ Leaves(t)
  BY <1>1 DEF TypeInv, Alone, Leaves, Again, Busy, Goto, Read, environment, SafePlaces
<1>4. StageOf(t)'
  BY <1>1 DEF TypeInv, StageOf, Again, Busy, AfterBusy, Goto, Read, environment, Attempts,
              UnreserveLabels, InflateLabels
<1>5. CopyOf(t)'
  BY ZenonT(60), <1>1
     DEF TypeInv, WordInv, CopyOf, Again, Busy, AfterBusy, Goto, Read, Attempts, StoreLabels, Fat
<1>6. HoldOf(t)'
  BY Zenon, <1>1 DEF TypeInv, HoldOf, get_recursion, Again, Busy, AfterBusy, Goto, Attempts
<1>7. PlaceOf(t)'
  BY <1>1 DEF TypeInv, PlaceOf, Again, Busy, AfterBusy, Goto, Attempts
<1>8. VictimOf(t)'
  BY <1>1 DEF TypeInv, VictimOf, Again, Busy, AfterBusy, Goto, Attempts, UnreserveLabels
<1> QED
  BY Zenon, <1>2, <1>3, <1>4, <1>5, <1>6, <1>7, <1>8, QuietKeeps DEF ThreadInv

\* A thin lock of another thread: it is unreserved, or tried again.
LEMMA SpinOwnedInv == ASSUME IInv, NEW t \in Threads, spin_owned(t) PROVE IInv' /\ Framed(t)
<1>1. TypeInv /\ WordInv /\ StageOf(t) /\ CopyOf(t) /\ HoldOf(t) /\ PlaceOf(t) /\ VictimOf(t)
  BY Zenon DEF IInv
<1>2. /\ pc[t] = "spin" /\ stage[t] \in Attempts /\ victim[t] = NoThread /\ copy[t].id # NoThread
      /\ UNCHANGED <<word, monitor, ret, saved, victim, environment, depth>>
  BY Zenon, <1>1 DEF spin_owned, StageOf, VictimOf
<1>3. CASE ~copy[t].res /\ Again(t)
  <2>1. ~word.res
    BY Zenon, <1>1, <1>3 DEF CopyOf
  <2> QED
    BY Zenon, <1>1, <1>2, <1>3, <2>1, AgainInv DEF TypeInv
<1>4. CASE copy[t].res /\ Goto(t, "ul_read") /\ UNCHANGED <<stage, spin, copy>>
  <2>1. word.res => word.id # NoThread
    BY Zenon, <1>1, <1>2, <1>4 DEF CopyOf
  <2>2. TypeInv' /\ Alone(t) /\ Leaves(t)
    BY <1>1, <1>2, <1>4 DEF TypeInv, Alone, Leaves, Goto, environment, Labels, SafePlaces
  <2>3. StageOf(t)' /\ CopyOf(t)'
    BY Zenon, <1>1, <1>2, <1>4
       DEF TypeInv, StageOf, CopyOf, Goto, environment, UnreserveLabels, InflateLabels, StoreLabels
  <2>4. HoldOf(t)' /\ PlaceOf(t)' /\ VictimOf(t)'
    BY Zenon, <1>1, <1>2, <1>4, <2>1
       DEF TypeInv, HoldOf, get_recursion, PlaceOf, VictimOf, Goto, UnreserveLabels
  <2> QED
    BY Zenon, <1>2, <2>2, <2>3, <2>4, QuietKeeps DEF ThreadInv
<1> QED
  BY <1>2, <1>3, <1>4, SMT DEF spin_owned

\* The owner has come to a safe place, or its suspension is given up.
LEMMA UnreserveWaitInv ==
    ASSUME IInv, NEW t \in Threads, unreserve_wait(t)
    PROVE  IInv' /\ Framed(t)
<1>1. TypeInv /\ WordInv /\ StageOf(t) /\ CopyOf(t) /\ HoldOf(t) /\ PlaceOf(t) /\ VictimOf(t)
  BY Zenon DEF IInv
<1>2. /\ pc[t] = "ul_wait" /\ UNCHANGED <<word, monitor, ret, saved, environment, depth>>
      /\ word.res => word.id # NoThread
      /\ stage[t] \in Attempts \cup {"unreserve"}
      /\ copy[t].res /\ copy[t].id = victim[t] /\ victim[t] # NoThread
  BY Zenon, <1>1 DEF unreserve_wait, VictimOf, StageOf, UnreserveLabels
<1>3. CASE stage[t] # "unreserve" /\ Again(t) /\ victim' = [victim EXCEPT ![t] = NoThread]
  BY Zenon, <1>1, <1>2, <1>3, AgainInv DEF TypeInv
<1>4. CASE /\ pc[victim[t]] \in SafePlaces
           /\ Goto(t, "ul_cas") /\ UNCHANGED <<stage, spin, copy, victim>>
  <2>1. TypeInv' /\ Alone(t) /\ Leaves(t)
    BY <1>1, <1>2, <1>4 DEF TypeInv, Alone, Leaves, Goto, environment, Labels, SafePlaces
  <2>2. StageOf(t)' /\ CopyOf(t)'
    BY Zenon, <1>1, <1>2, <1>4
       DEF TypeInv, StageOf, CopyOf, Goto, environment, UnreserveLabels, InflateLabels, StoreLabels
  <2>3. HoldOf(t)' /\ PlaceOf(t)'
    BY Zenon, <1>1, <1>2, <1>4 DEF TypeInv, HoldOf, get_recursion, PlaceOf, Goto
  <2>4. VictimOf(t)'
    BY Zenon, <1>1, <1>2, <1>4 DEF TypeInv, VictimOf, CopyOf, Goto, UnreserveLabels, SafePlaces
  <2> QED
    BY Zenon, <1>2, <2>1, <2>2, <2>3, <2>4, QuietKeeps DEF ThreadInv
<1>5. CASE /\ stage[t] = "unreserve" /\ Goto(t, "safe_point") /\ UNCHANGED <<stage, spin, copy>>
           /\ victim' = [victim EXCEPT ![t] = NoThread]
  <2>1. TypeInv' /\ Alone(t) /\ Leaves(t)
    BY <1>1, <1>2, <1>5 DEF TypeInv, Alone, Leaves, Goto, environment, Labels, SafePlaces
  <2>2. StageOf(t)' /\ CopyOf(t)'
    BY Zenon, <1>1, <1>2, <1>5
       DEF TypeInv, StageOf, CopyOf, Goto, environment, UnreserveLabels, InflateLabels, StoreLabels
  <2>3. HoldOf(t)' /\ PlaceOf(t)' /\ VictimOf(t)'
    BY Zenon, <1>1, <1>2, <1>5
       DEF TypeInv, HoldOf, get_recursion, PlaceOf, VictimOf, Goto, UnreserveLabels
  <2> QED
    BY Zenon, <1>2, <2>1, <2>2, <2>3, QuietKeeps DEF ThreadInv
<1> QED
  BY <1>2, <1>3, <1>4, <1>5, SMT DEF unreserve_wait

\* An entry that succeeds: the word or the fat monitor counts one more, nobody else's count
\* changes.
LEMMA SuccessInv ==
    ASSUME IInv, NEW t \in Threads, Success(t),
           pc[t] \in {"fast_enter", "inc", "spin", "overflow"},
           word' \in LockWords, monitor' \in [owner : Threads \cup {NoThread}, entries : Nat],
           WordInv', Respects(t), get_recursion(t)' >= 1, get_recursion(t)' >= depth[t] + 1,
           UNCHANGED <<copy, spin, saved, victim, environment>>
    PROVE  IInv' /\ Framed(t)
<1>1. TypeInv /\ WordInv /\ StageOf(t) /\ CopyOf(t) /\ HoldOf(t) /\ PlaceOf(t) /\ VictimOf(t)
  BY Zenon DEF IInv
<1>2. /\ pc'[t] \in {"inflate", "idle"} /\ stage'[t] = "none"
      /\ ret'[t] = "idle" /\ depth'[t] = depth[t] + 1
  BY Zenon, <1>1 DEF TypeInv, Success, Goto
<1>3. TypeInv'
  BY <1>1 DEF TypeInv, Success, Goto, environment, Labels, SafePlaces
<1>4. Alone(t) /\ Leaves(t)
  BY <1>1 DEF TypeInv, Alone, Leaves, Success, Goto, environment, SafePlaces
<1>5. StageOf(t)'
  <2>1. depth[t] + 1 <= calls
    BY Zenon, <1>1 DEF StageOf, Attempts
  <2> QED
    BY <1>1, <1>2, <2>1
       DEF StageOf, TypeInv, environment, Attempts, UnreserveLabels, InflateLabels
<1>6. CopyOf(t)'
  BY <1>1, <1>2 DEF TypeInv, CopyOf, Respects, Fat, StoreLabels
<1>7. HoldOf(t)' /\ PlaceOf(t)'
  BY Zenon, <1>2, <1>3 DEF HoldOf, PlaceOf, TypeInv
<1>8. VictimOf(t)'
  BY Zenon, <1>1, <1>2 DEF VictimOf, UnreserveLabels
<1> QED
  BY Zenon, <1>3, <1>4, <1>5, <1>6, <1>7, <1>8, StepKeeps DEF ThreadInv

\* RECURSION_INC by the owner, who alone writes the word; the copy is the word.
LEMMA OwnerIncrements ==
    ASSUME IInv, NEW t \in Threads, word.id = t, ~word.fat, word.rec < MAX_RECURSION,
           word' = Inc(word), monitor' = monitor
    PROVE  /\ word' \in LockWords /\ WordInv' /\ Respects(t)
           /\ get_recursion(t)' = get_recursion(t) + 1 /\ get_recursion(t) >= 0
<1>1. TypeInv /\ WordInv
  BY Zenon DEF IInv
<1>2. /\ word' \in LockWords /\ word'.fat = FALSE /\ word'.id = t /\ word'.rec = word.rec + 1
      /\ word'.res = word.res
  BY <1>1, BoundsAssumption DEF TypeInv, LockWords, Inc
<1>3. WordInv'
  BY Zenon, <1>1, <1>2, BoundsAssumption DEF WordInv, Free
<1>4. Respects(t)
  BY Zenon, <1>2, BoundsAssumption DEF Respects, get_recursion
<1> QED
  BY <1>1, <1>2, <1>3, <1>4 DEF get_recursion, TypeInv, LockWords

\* The owner enters once more by RECURSION_INC.
LEMMA RecursionIncInv == ASSUME IInv, NEW t \in Threads, recursion_inc(t) PROVE IInv' /\ Framed(t)
<1>1. TypeInv /\ WordInv /\ StageOf(t) /\ CopyOf(t) /\ HoldOf(t) /\ PlaceOf(t) /\ VictimOf(t)
  BY Zenon DEF IInv
<1>2. word = copy[t] /\ word.id = t /\ word.rec < MAX_RECURSION
  BY Zenon, <1>1 DEF recursion_inc, CopyOf, PlaceOf, StoreLabels
<1>3. ~word.fat
  BY <1>1, <1>2, BoundsAssumption DEF WordInv, Fat
<1>4. /\ word' \in LockWords /\ WordInv' /\ Respects(t)
      /\ get_recursion(t)' = get_recursion(t) + 1 /\ get_recursion(t) >= 0
  BY Zenon, <1>2, <1>3, OwnerIncrements DEF recursion_inc
<1>5. get_recursion(t)' >= 1 /\ get_recursion(t)' >= depth[t] + 1
  BY <1>1, <1>4 DEF HoldOf, recursion_inc, TypeInv, get_recursion, LockWords
<1> QED
  BY Zenon, <1>1, <1>4, <1>5, SuccessInv DEF recursion_inc, TypeInv

\* The counter was full and the lock has been inflated: the fat monitor is entered.
LEMMA OverflowInv == ASSUME IInv, NEW t \in Threads, overflow(t) PROVE IInv' /\ Framed(t)
<1>1. TypeInv /\ WordInv /\ StageOf(t) /\ CopyOf(t) /\ HoldOf(t) /\ PlaceOf(t) /\ VictimOf(t)
  BY Zenon DEF IInv
<1>2. word.fat
  BY Zenon, <1>1 DEF overflow, PlaceOf
<1>3. /\ monitor' \in [owner : Threads \cup {NoThread}, entries : Nat] /\ WordInv' /\ Respects(t)
      /\ get_recursion(t)' >= 1 /\ get_recursion(t)' >= depth[t] + 1
  BY <1>1, <1>2, BoundsAssumption
     DEF overflow, FatTry, TypeInv, WordInv, Respects, HoldOf, get_recursion, Free
<1> QED
  BY Zenon, <1>1, <1>3, SuccessInv DEF overflow, FatTry, TypeInv

\* A fat lock is tried.
LEMMA SpinFatInv == ASSUME IInv, NEW t \in Threads, spin_fat(t) PROVE IInv' /\ Framed(t)
<1>1. TypeInv /\ WordInv /\ StageOf(t) /\ CopyOf(t) /\ HoldOf(t) /\ PlaceOf(t) /\ VictimOf(t)
  BY Zenon DEF IInv
<1>2. word = Fat /\ pc[t] = "spin" /\ stage[t] \in Attempts /\ victim[t] = NoThread
  BY Zenon, <1>1 DEF spin_fat, CopyOf, StageOf, VictimOf
<1>3. CASE FatTry(t) /\ UNCHANGED <<spin, copy>>
  <2>1. /\ monitor' \in [owner : Threads \cup {NoThread}, entries : Nat] /\ WordInv' /\ Respects(t)
        /\ get_recursion(t)' >= 1 /\ get_recursion(t)' >= depth[t] + 1
    BY <1>1, <1>2, <1>3, BoundsAssumption
       DEF spin_fat, FatTry, TypeInv, WordInv, Respects, HoldOf, get_recursion, Free, Fat
  <2> QED
    BY Zenon, <1>1, <1>2, <1>3, <2>1, SuccessInv DEF spin_fat, FatTry, TypeInv
<1>4. CASE Again(t) /\ UNCHANGED <<monitor, ret, depth>>
  BY Zenon, <1>1, <1>2, <1>4, AgainInv DEF spin_fat, Fat, TypeInv
<1> QED
  BY Zenon, <1>3, <1>4 DEF spin_fat

\* A free word gets an owner, by a swap of the whole word or of the half with the thread id.
LEMMA FreeIsTaken ==
    ASSUME IInv, NEW t \in Threads, Free(word), NEW r \in 0 .. MAX_RECURSION, word.res \/ r = 0,
           word' = [word EXCEPT !.id = t, !.rec = r], monitor' = monitor
    PROVE  /\ word' \in LockWords /\ WordInv' /\ Respects(t)
           /\ depth[t] <= 0 \/ pc[t] = "waiting"
           /\ get_recursion(t)' = IF word.res THEN r ELSE 1
<1>1. TypeInv /\ WordInv /\ HoldOf(t)
  BY Zenon DEF IInv
<1>2. /\ word' \in LockWords /\ word'.fat = FALSE /\ word'.id = t /\ word'.rec = r
      /\ word'.res = word.res
  BY Zenon, <1>1 DEF TypeInv, LockWords, Free
<1>3. WordInv'
  BY Zenon, <1>1, <1>2, BoundsAssumption DEF WordInv, Free
<1>4. Respects(t)
  BY Zenon, <1>2, BoundsAssumption DEF Respects, get_recursion, Free
<1>5. depth[t] <= 0 \/ pc[t] = "waiting"
  BY Zenon, <1>1, BoundsAssumption DEF HoldOf, get_recursion, Free
<1> QED
  BY <1>1, <1>2, <1>3, <1>4, <1>5 DEF get_recursion, Free

\* The compiled fast path stores what it computed from its load, swaps the word, or gives up.
LEMMA FastEnterInv == ASSUME IInv, NEW t \in Threads, fast_enter(t) PROVE IInv' /\ Framed(t)
<1>1. TypeInv /\ WordInv /\ StageOf(t) /\ CopyOf(t) /\ HoldOf(t) /\ PlaceOf(t) /\ VictimOf(t)
  BY Zenon DEF IInv
<1>2. /\ pc[t] = "fast_enter" /\ UNCHANGED <<monitor, copy, spin, saved, victim, environment>>
      /\ monitor \in [owner : Threads \cup {NoThread}, entries : Nat]
      /\ depth[t] \in Int /\ copy[t] \in LockWords
  BY Zenon, <1>1 DEF fast_enter, TypeInv
<1>3. CASE /\ copy[t].id = t /\ copy[t].rec < MAX_RECURSION
           /\ word' = Inc(copy[t]) /\ Success(t)
  <2>1. word = copy[t] /\ ~word.fat
    BY <1>1, <1>2, <1>3, BoundsAssumption DEF CopyOf, StoreLabels, WordInv, Fat
  <2>2. /\ word' \in LockWords /\ WordInv' /\ Respects(t)
        /\ get_recursion(t)' = get_recursion(t) + 1 /\ get_recursion(t) >= 0
    BY Zenon, <1>2, <1>3, <2>1, OwnerIncrements
  <2>3. get_recursion(t)' >= 1 /\ get_recursion(t)' >= depth[t] + 1
    BY <1>1, <1>2, <2>2 DEF HoldOf, TypeInv, get_recursion, LockWords
  <2> QED
    BY Zenon, <1>2, <1>3, <2>2, <2>3, SuccessInv
<1>4. CASE /\ Free(copy[t]) /\ word = copy[t] /\ Success(t)
           /\ word' = [copy[t] EXCEPT !.id = t, !.rec = IF copy[t].res THEN @ + 1 ELSE @]
  <2> DEFINE r == IF word.res THEN 1 ELSE 0
  <2>1. word.rec = 0 /\ r \in 0 .. MAX_RECURSION
    BY <1>1, <1>4, BoundsAssumption DEF WordInv
  <2>2. word' = [word EXCEPT !.id = t, !.rec = r]
    BY <1>1, <1>4, <2>1 DEF TypeInv, LockWords
  <2>3. /\ word' \in LockWords /\ WordInv' /\ Respects(t) /\ depth[t] <= 0
        /\ get_recursion(t)' = 1
    BY Zenon, <1>2, <1>4, <2>1, <2>2, FreeIsTaken
  <2> QED
    BY <1>2, <1>4, <2>3, SuccessInv
<1>5. CASE /\ Goto(t, "try") /\ stage' = [stage EXCEPT ![t] = "first"]
           /\ UNCHANGED <<word, depth, ret>>
  <2>1. TypeInv' /\ Alone(t) /\ Leaves(t)
    BY <1>1, <1>2, <1>5
       DEF TypeInv, Alone, Leaves, Goto, environment, Labels, SafePlaces, Attempts
  <2>2. StageOf(t)' /\ CopyOf(t)'
    BY Zenon, <1>1, <1>2, <1>5
       DEF TypeInv, StageOf, CopyOf, Goto, environment, Attempts, UnreserveLabels, InflateLabels,
           StoreLabels
  <2>3. HoldOf(t)' /\ PlaceOf(t)' /\ VictimOf(t)'
    BY Zenon, <1>1, <1>2, <1>5
       DEF TypeInv, HoldOf, get_recursion, PlaceOf, VictimOf, Goto, UnreserveLabels
  <2> QED
    BY Zenon, <1>2, <1>5, <2>1, <2>2, <2>3, QuietKeeps DEF ThreadInv
<1> QED
  BY Zenon, <1>3, <1>4, <1>5 DEF fast_enter

\* The id is swapped into a free word, or another try is made.
LEMMA SpinFreeInv == ASSUME IInv, NEW t \in Threads, spin_free(t) PROVE IInv' /\ Framed(t)
<1>1. TypeInv /\ WordInv /\ StageOf(t) /\ CopyOf(t) /\ HoldOf(t) /\ PlaceOf(t) /\ VictimOf(t)
  BY Zenon DEF IInv
<1>2. /\ pc[t] = "spin" /\ stage[t] \in Attempts /\ victim[t] = NoThread
      /\ UNCHANGED <<monitor, saved, victim, environment>>
      /\ monitor \in [owner : Threads \cup {NoThread}, entries : Nat] /\ depth[t] \in Int
  BY Zenon, <1>1 DEF spin_free, StageOf, VictimOf, TypeInv
<1>3. CASE ~Free(word) /\ Again(t) /\ UNCHANGED <<word, ret, depth>>
  <2>1. word.res => word.id # NoThread
    BY <1>1, <1>3 DEF WordInv, Free, Fat
  <2> QED
    BY Zenon, <1>1, <1>2, <1>3, <2>1, AgainInv DEF TypeInv
<1>4. ASSUME Free(word), word' = [word EXCEPT !.id = t], UNCHANGED <<spin, copy>>
      PROVE  /\ word' \in LockWords /\ WordInv' /\ Respects(t) /\ depth[t] <= 0
             /\ get_recursion(t)' = IF word.res THEN 0 ELSE 1
             /\ word'.id = t /\ word'.rec = 0 /\ word'.res = word.res
  <2>1. word.rec = 0 /\ 0 \in 0 .. MAX_RECURSION /\ word \in LockWords
    BY <1>1, <1>4, BoundsAssumption DEF WordInv, TypeInv
  <2>2. word' = [word EXCEPT !.id = t, !.rec = 0]
    BY Zenon, <1>4, <2>1 DEF LockWords
  <2> QED
    BY Zenon, <1>2, <1>4, <2>1, <2>2, FreeIsTaken DEF LockWords
<1>5. CASE /\ Free(word) /\ word' = [word EXCEPT !.id = t] /\ UNCHANGED <<spin, copy>>
           /\ ~copy[t].res /\ Success(t)
  <2>1. ~word.res
    BY Zenon, <1>1, <1>5 DEF CopyOf
  <2> QED
    BY <1>2, <1>4, <1>5, <2>1, SuccessInv
<1>6. CASE /\ Free(word) /\ word' = [word EXCEPT !.id = t] /\ UNCHANGED <<spin, copy>>
           /\ copy[t].res /\ Goto(t, "reserve") /\ UNCHANGED <<stage, ret, depth>>
  <2>1. TypeInv' /\ Alone(t) /\ Leaves(t)
    BY <1>1, <1>2, <1>4, <1>6 DEF TypeInv, Alone, Leaves, Goto, environment, Labels, SafePlaces
  <2>2. StageOf(t)'
    BY Zenon, <1>1, <1>2, <1>6
       DEF TypeInv, StageOf, Goto, environment, Attempts, UnreserveLabels, InflateLabels
  <2>3. CopyOf(t)'
    BY Zenon, <1>1, <1>2, <1>4, <1>6 DEF TypeInv, CopyOf, Goto, Respects, Fat, StoreLabels
  <2>4. HoldOf(t)' /\ PlaceOf(t)' /\ VictimOf(t)'
    BY <1>1, <1>2, <1>4, <1>6 DEF TypeInv, HoldOf, PlaceOf, VictimOf, Goto, UnreserveLabels
  <2> QED
    BY Zenon, <1>4, <1>6, <2>1, <2>2, <2>3, <2>4, StepKeeps DEF ThreadInv
<1> QED
  BY Zenon, <1>3, <1>5, <1>6 DEF spin_free

\* A thread gets the fat monitor it has been waiting for.
LEMMA BlockInv == ASSUME IInv, NEW t \in Threads, block(t) PROVE IInv' /\ Framed(t)
<1>1. TypeInv /\ WordInv /\ StageOf(t) /\ CopyOf(t) /\ HoldOf(t) /\ PlaceOf(t) /\ VictimOf(t)
  BY Zenon DEF IInv
<1>2. /\ pc[t] = "block" /\ word.fat /\ stage[t] # "none"
      /\ UNCHANGED <<locals, victim, environment, word>>
  BY Zenon, <1>1 DEF block, PlaceOf, StageOf, Attempts
<1>3. /\ pc'[t] = "woken" /\ stage'[t] = "none" /\ depth'[t] = depth[t] + 1
      /\ monitor' = [owner |-> t, entries |-> 1]
  BY Zenon, <1>1 DEF block, TypeInv, Goto
<1>4. TypeInv' /\ Alone(t) /\ Leaves(t)
  BY <1>1, <1>2 DEF block, TypeInv, Alone, Leaves, Goto, environment, locals, Labels, SafePlaces
<1>5. WordInv' /\ Respects(t)
  BY <1>1, <1>2, <1>3, BoundsAssumption DEF block, WordInv, Respects, get_recursion, Free
<1>6. StageOf(t)' /\ CopyOf(t)'
  BY <1>1, <1>2, <1>3
     DEF TypeInv, StageOf, CopyOf, environment, locals, UnreserveLabels, InflateLabels, StoreLabels
<1>7. HoldOf(t)' /\ PlaceOf(t)' /\ VictimOf(t)'
  BY <1>1, <1>2, <1>3, BoundsAssumption
     DEF block, TypeInv, HoldOf, get_recursion, PlaceOf, VictimOf, UnreserveLabels
<1> QED
  BY Zenon, <1>4, <1>5, <1>6, <1>7, StepKeeps DEF ThreadInv

\* Object.wait puts all counts aside and gives the monitor up.
LEMMA WaitInv == ASSUME IInv, NEW t \in Threads, wait(t) PROVE IInv' /\ Framed(t)
<1>1. TypeInv /\ WordInv /\ StageOf(t) /\ CopyOf(t) /\ HoldOf(t) /\ PlaceOf(t) /\ VictimOf(t)
  BY Zenon DEF IInv
<1>2. word.fat /\ monitor.entries \in Nat /\ monitor.entries # 0
  BY <1>1, BoundsAssumption DEF wait, WordInv, Unlocked, TypeInv
<1>3. pc'[t] = "waiting" /\ saved'[t] = monitor.entries /\ monitor' = Unlocked
  BY Zenon, <1>1 DEF wait, TypeInv, Goto
<1>4. TypeInv' /\ Alone(t) /\ Leaves(t)
  BY <1>1, <1>2 DEF wait, TypeInv, Alone, Leaves, Goto, environment, Unlocked, Labels, SafePlaces
<1>5. WordInv' /\ Respects(t)
  BY <1>1, <1>2, <1>3, BoundsAssumption DEF wait, WordInv, Respects, get_recursion, Free, Unlocked
<1>6. StageOf(t)' /\ CopyOf(t)'
  BY Zenon, <1>1, <1>3
     DEF wait, TypeInv, StageOf, CopyOf, environment, UnreserveLabels, InflateLabels, StoreLabels
<1>7. HoldOf(t)' /\ PlaceOf(t)' /\ VictimOf(t)'
  BY <1>1, <1>2, <1>3
     DEF wait, TypeInv, HoldOf, get_recursion, PlaceOf, VictimOf, UnreserveLabels
<1> QED
  BY Zenon, <1>4, <1>5, <1>6, <1>7, StepKeeps DEF ThreadInv

\* Object.wait takes the monitor again with the counts it put aside.
LEMMA WaitReturnsInv == ASSUME IInv, NEW t \in Threads, wait_returns(t) PROVE IInv' /\ Framed(t)
<1>1. TypeInv /\ WordInv /\ StageOf(t) /\ CopyOf(t) /\ HoldOf(t) /\ PlaceOf(t) /\ VictimOf(t)
  BY Zenon DEF IInv
<1>2. word.fat /\ saved[t] \in Nat /\ saved[t] >= 1 /\ depth[t] <= saved[t]
  BY Zenon, <1>1 DEF wait_returns, PlaceOf, HoldOf, TypeInv
<1>3. pc'[t] = "woken" /\ monitor' = [owner |-> t, entries |-> saved[t]]
  BY Zenon, <1>1 DEF wait_returns, TypeInv, Goto
<1>4. TypeInv' /\ Alone(t) /\ Leaves(t)
  BY <1>1, <1>2 DEF wait_returns, TypeInv, Alone, Leaves, Goto, environment, Labels, SafePlaces
<1>5. WordInv' /\ Respects(t)
  BY <1>1, <1>2, <1>3, BoundsAssumption DEF wait_returns, WordInv, Respects, get_recursion, Free
<1>6. StageOf(t)' /\ CopyOf(t)'
  BY Zenon, <1>1, <1>3
     DEF wait_returns, TypeInv, StageOf, CopyOf, environment, UnreserveLabels, InflateLabels,
         StoreLabels
<1>7. HoldOf(t)' /\ PlaceOf(t)' /\ VictimOf(t)'
  BY <1>1, <1>2, <1>3
     DEF wait_returns, TypeInv, HoldOf, get_recursion, PlaceOf, VictimOf, UnreserveLabels
<1> QED
  BY Zenon, <1>4, <1>5, <1>6, <1>7, StepKeeps DEF ThreadInv

\* An exit: one count less, nobody else's changes.
LEMMA LeaveInv ==
    ASSUME IInv, NEW t \in Threads, pc[t] \in {"exit", "fast_exit"}, Goto(t, "idle"),
           word' \in LockWords, monitor' \in [owner : Threads \cup {NoThread}, entries : Nat],
           WordInv', Respects(t), get_recursion(t)' = get_recursion(t) - 1,
           depth' = [depth EXCEPT ![t] = @ - 1], UNCHANGED <<stage, locals, victim, environment>>
    PROVE  IInv' /\ Framed(t)
<1>1. TypeInv /\ WordInv /\ StageOf(t) /\ CopyOf(t) /\ HoldOf(t) /\ PlaceOf(t) /\ VictimOf(t)
  BY Zenon DEF IInv
<1>2. pc'[t] = "idle" /\ depth'[t] = depth[t] - 1 /\ depth[t] <= get_recursion(t)
      /\ depth[t] \in Int /\ get_recursion(t) \in Int
  BY <1>1 DEF TypeInv, Goto, HoldOf, get_recursion, LockWords
<1>3. TypeInv' /\ Alone(t) /\ Leaves(t)
  BY <1>1 DEF TypeInv, Alone, Leaves, Goto, environment, locals, Labels, SafePlaces
<1>4. StageOf(t)'
  BY <1>1, <1>2 DEF TypeInv, StageOf, environment, locals, UnreserveLabels, InflateLabels
<1>5. CopyOf(t)'
  BY Zenon, <1>1, <1>2 DEF CopyOf, Respects, locals, Fat, StoreLabels
<1>6. HoldOf(t)'
  <2>1. depth[t] - 1 <= get_recursion(t) - 1
    BY <1>2
  <2> QED
    BY Zenon, <1>2, <2>1 DEF HoldOf
<1>7. PlaceOf(t)'
  BY Zenon, <1>2 DEF PlaceOf
<1>8. VictimOf(t)'
  BY <1>1, <1>2 DEF VictimOf, UnreserveLabels
<1> QED
  BY Zenon, <1>3, <1>4, <1>5, <1>6, <1>7, <1>8, StepKeeps DEF ThreadInv

\* An exit by the owner takes one count from the thin word and leaves it well formed.
LEMMA OwnerExits ==
    ASSUME IInv, NEW t \in Threads, word.id = t, ~word.fat, ~word.res \/ word.rec # 0,
           ThinExit(word), monitor' = monitor
    PROVE  /\ word' \in LockWords /\ WordInv' /\ Respects(t)
           /\ get_recursion(t)' = get_recursion(t) - 1
<1>1. TypeInv /\ WordInv /\ word \in LockWords /\ word.rec \in 0 .. MAX_RECURSION
  BY Zenon DEF IInv, TypeInv, LockWords
<1>2. CASE word.rec = 0
  <2>1. /\ word' \in LockWords /\ word'.fat = FALSE /\ word'.res = FALSE
        /\ word'.id = NoThread /\ word'.rec = 0 /\ ~word.res
    BY Zenon, <1>1, <1>2 DEF LockWords, ThinExit, ClearId
  <2>2. WordInv' /\ Respects(t) /\ get_recursion(t)' = get_recursion(t) - 1
    BY <1>1, <1>2, <2>1, BoundsAssumption DEF WordInv, Free, Respects, get_recursion
  <2> QED
    BY Zenon, <2>1, <2>2
<1>3. CASE word.rec # 0
  <2>1. word.rec - 1 \in 0 .. MAX_RECURSION
    BY <1>1, <1>3, BoundsAssumption
  <2>2. /\ word' \in LockWords /\ word'.fat = FALSE /\ word'.res = word.res
        /\ word'.id = t /\ word'.rec = word.rec - 1
    BY Zenon, <1>1, <1>3, <2>1 DEF LockWords, ThinExit, Dec
  <2>3. WordInv' /\ Respects(t) /\ get_recursion(t)' = get_recursion(t) - 1
    BY <1>1, <1>3, <2>2, BoundsAssumption DEF WordInv, Free, Respects, get_recursion
  <2> QED
    BY Zenon, <2>2, <2>3
<1> QED
  BY Zenon, <1>2, <1>3

\* hythread_thin_monitor_exit: a count less, or an IllegalMonitorStateException.
LEMMA ExitInv == ASSUME IInv, NEW t \in Threads, exit(t) PROVE IInv' /\ Framed(t)
<1>1. TypeInv /\ WordInv /\ StageOf(t) /\ CopyOf(t) /\ HoldOf(t) /\ PlaceOf(t) /\ VictimOf(t)
  BY Zenon DEF IInv
<1>2. pc[t] = "exit" /\ Goto(t, "idle") /\ UNCHANGED <<stage, locals, victim, environment>>
  BY Zenon DEF exit
<1>3. CASE copy[t].fat /\ FatExit(t) /\ depth' = [depth EXCEPT ![t] = @ - 1]
  <2>1. word.fat /\ monitor.entries \in Nat /\ monitor.entries # 0 /\ monitor.owner = t
    BY <1>1, <1>3, BoundsAssumption DEF CopyOf, Fat, FatExit, WordInv, TypeInv
  <2>2. /\ monitor' \in [owner : Threads \cup {NoThread}, entries : Nat]
        /\ monitor'.owner = IF monitor.entries = 1 THEN NoThread ELSE t
        /\ monitor'.entries = monitor.entries - 1
    BY <1>1, <1>3, <2>1 DEF FatExit, Unlocked, TypeInv
  <2>3. WordInv' /\ Respects(t) /\ get_recursion(t)' = get_recursion(t) - 1
    BY <1>1, <1>3, <2>1, <2>2, BoundsAssumption
       DEF FatExit, WordInv, Respects, get_recursion, Free
  <2> QED
    BY Zenon, <1>1, <1>2, <1>3, <2>2, <2>3, LeaveInv DEF FatExit, TypeInv
<1>4. CASE /\ OwnsThin(t, copy[t]) /\ ThinExit(copy[t]) /\ monitor' = monitor
           /\ depth' = [depth EXCEPT ![t] = @ - 1]
  <2>1. word = copy[t] /\ word.id = t /\ ~word.fat
    BY <1>1, <1>2, <1>4, BoundsAssumption DEF OwnsThin, CopyOf, StoreLabels, WordInv, Fat
  <2>2. /\ word' \in LockWords /\ WordInv' /\ Respects(t)
        /\ get_recursion(t)' = get_recursion(t) - 1
    BY Zenon, <1>4, <2>1, OwnerExits DEF OwnsThin
  <2> QED
    BY Zenon, <1>1, <1>2, <1>4, <2>2, LeaveInv DEF TypeInv
<1>5. CASE UNCHANGED <<word, monitor, depth>>
  <2>1. TypeInv' /\ Alone(t) /\ Leaves(t)
    BY <1>1, <1>2, <1>5 DEF TypeInv, Alone, Leaves, Goto, environment, locals, Labels, SafePlaces
  <2>2. StageOf(t)' /\ CopyOf(t)'
    BY Zenon, <1>1, <1>2, <1>5
       DEF TypeInv, StageOf, CopyOf, Goto, environment, locals, UnreserveLabels, InflateLabels,
           StoreLabels
  <2>3. HoldOf(t)' /\ PlaceOf(t)' /\ VictimOf(t)'
    BY Zenon, <1>1, <1>2, <1>5
       DEF TypeInv, HoldOf, get_recursion, PlaceOf, VictimOf, Goto, UnreserveLabels
  <2> QED
    BY Zenon, <1>5, <2>1, <2>2, <2>3, QuietKeeps DEF ThreadInv
<1> QED
  BY Zenon, <1>3, <1>4, <1>5 DEF exit

\* The compiled exit stores what it computed from its load, or leaves a fat lock to the VM.
LEMMA FastExitInv == ASSUME IInv, NEW t \in Threads, fast_exit(t) PROVE IInv' /\ Framed(t)
<1>1. TypeInv /\ WordInv /\ StageOf(t) /\ CopyOf(t) /\ HoldOf(t) /\ PlaceOf(t) /\ VictimOf(t)
  BY Zenon DEF IInv
<1>2. /\ pc[t] = "fast_exit" /\ depth[t] > 0 /\ (copy[t].fat \/ copy[t].id = t)
      /\ UNCHANGED <<monitor, stage, locals, victim, environment>>
  BY Zenon, <1>1 DEF fast_exit, PlaceOf
<1>3. CASE copy[t].fat /\ Goto(t, "exit") /\ UNCHANGED <<word, depth>>
  <2>1. TypeInv' /\ Alone(t) /\ Leaves(t)
    BY <1>1, <1>2, <1>3 DEF TypeInv, Alone, Leaves, Goto, environment, locals, Labels, SafePlaces
  <2>2. StageOf(t)' /\ CopyOf(t)'
    BY Zenon, <1>1, <1>2, <1>3
       DEF TypeInv, StageOf, CopyOf, Goto, environment, locals, UnreserveLabels, InflateLabels,
           StoreLabels
  <2>3. HoldOf(t)' /\ PlaceOf(t)' /\ VictimOf(t)'
    BY Zenon, <1>1, <1>2, <1>3
       DEF TypeInv, HoldOf, get_recursion, PlaceOf, VictimOf, Goto, UnreserveLabels
  <2> QED
    BY Zenon, <1>2, <1>3, <2>1, <2>2, <2>3, QuietKeeps DEF ThreadInv
<1>4. CASE /\ ~copy[t].fat /\ ThinExit(copy[t]) /\ Goto(t, "idle")
           /\ depth' = [depth EXCEPT ![t] = @ - 1]
  <2>1. word = copy[t] /\ word.id = t /\ ~word.fat
    BY Zenon, <1>1, <1>2, <1>4 DEF CopyOf, StoreLabels
  <2>2. ~word.res \/ word.rec # 0
    BY <1>1, <1>2, <2>1 DEF HoldOf, get_recursion, TypeInv, LockWords
  <2>3. /\ word' \in LockWords /\ WordInv' /\ Respects(t)
        /\ get_recursion(t)' = get_recursion(t) - 1
    BY Zenon, <1>2, <1>4, <2>1, <2>2, OwnerExits
  <2> QED
    BY Zenon, <1>1, <1>2, <1>4, <2>3, LeaveInv DEF TypeInv
<1> QED
  BY Zenon, <1>2, <1>3, <1>4 DEF fast_exit

\* An unreservation counts what the reserved word counted, for every thread.
LEMMA UnreservedCounts ==
    ASSUME IInv, word.res, word' = Unreserved(word), monitor' = monitor
    PROVE  /\ ~word.fat /\ word' \in LockWords /\ word'.fat = FALSE /\ word'.res = FALSE
           /\ word'.id = IF word.rec = 0 THEN NoThread ELSE word.id
           /\ WordInv' /\ \A u \in Threads : get_recursion(u)' = get_recursion(u)
<1>1. TypeInv /\ WordInv /\ word \in LockWords /\ word.rec \in 0 .. MAX_RECURSION
  BY Zenon DEF IInv, TypeInv, LockWords
<1>2. ~word.fat
  BY <1>1 DEF WordInv, Fat
<1>3. CASE word.rec = 0
  <2>1. /\ word' \in LockWords /\ word'.fat = FALSE /\ word'.res = FALSE
        /\ word'.id = NoThread /\ word'.rec = 0
    BY Zenon, <1>1, <1>2, <1>3 DEF LockWords, Unreserved, ClearId
  <2>2. WordInv' /\ \A u \in Threads : get_recursion(u)' = get_recursion(u)
    BY Zenon, <1>1, <1>2, <1>3, <2>1, BoundsAssumption DEF WordInv, Free, get_recursion
  <2> QED
    BY Zenon, <1>2, <1>3, <2>1, <2>2
<1>4. CASE word.rec # 0
  <2>1. word.rec - 1 \in 0 .. MAX_RECURSION
    BY <1>1, <1>4, BoundsAssumption
  <2>2. /\ word' \in LockWords /\ word'.fat = FALSE /\ word'.res = FALSE
        /\ word'.id = word.id /\ word'.rec = word.rec - 1
    BY Zenon, <1>1, <1>2, <1>4, <2>1 DEF LockWords, Unreserved, Dec
  <2>3. word.id # NoThread
    BY Zenon, <1>1, <1>2, <1>4 DEF WordInv, Free
  <2>4. WordInv' /\ \A u \in Threads : get_recursion(u)' = get_recursion(u)
    BY <1>1, <1>2, <1>4, <2>2, <2>3, BoundsAssumption DEF WordInv, Free, get_recursion
  <2> QED
    BY Zenon, <1>2, <1>4, <2>2, <2>4
<1> QED
  BY Zenon, <1>3, <1>4

\* The reserved word is replaced while its owner is held in a safe place.
LEMMA UnreserveCasInv == ASSUME IInv, NEW t \in Threads, unreserve_cas(t) PROVE IInv' /\ Framed(t)
<1>1. TypeInv /\ WordInv /\ StageOf(t) /\ CopyOf(t) /\ HoldOf(t) /\ PlaceOf(t) /\ VictimOf(t)
  BY Zenon DEF IInv
<1>2. /\ pc[t] = "ul_cas"
      /\ UNCHANGED <<monitor, stage, spin, ret, saved, victim, environment, depth>>
      /\ stage[t] \in Attempts \cup {"unreserve"} /\ victim[t] # t
  BY Zenon, <1>1, BoundsAssumption DEF unreserve_cas, StageOf, VictimOf, UnreserveLabels, SafePlaces
<1>3. CASE /\ pc'[t] \in {"ul_cas", "ul_resume"} /\ Goto(t, pc'[t])
           /\ word' = word /\ (copy' = copy \/ Read(t))
  <2>1. TypeInv' /\ Alone(t) /\ Leaves(t)
    BY <1>1, <1>2, <1>3 DEF TypeInv, Alone, Leaves, Goto, Read, environment, Labels, SafePlaces
  <2>2. StageOf(t)'
    BY Zenon, <1>1, <1>2, <1>3
       DEF TypeInv, StageOf, Goto, environment, UnreserveLabels, InflateLabels
  <2>3. CopyOf(t)'
    BY Zenon, <1>1, <1>2, <1>3 DEF TypeInv, WordInv, CopyOf, Goto, Read, Fat, StoreLabels
  <2>4. HoldOf(t)' /\ PlaceOf(t)'
    BY Zenon, <1>1, <1>2, <1>3 DEF TypeInv, HoldOf, get_recursion, PlaceOf, Goto
  <2>5. VictimOf(t)'
    BY <1>1, <1>2, <1>3 DEF TypeInv, LockWords, VictimOf, Goto, UnreserveLabels
  <2> QED
    BY Zenon, <1>2, <1>3, <2>1, <2>2, <2>3, <2>4, <2>5, QuietKeeps DEF ThreadInv
<1>4. CASE /\ copy[t].res /\ word = copy[t] /\ word' = Unreserved(word)
           /\ Goto(t, "ul_resume") /\ copy' = copy
  <2>1. /\ ~word.fat /\ word' \in LockWords /\ word'.fat = FALSE /\ word'.res = FALSE
        /\ WordInv' /\ \A u \in Threads : get_recursion(u)' = get_recursion(u)
    BY Zenon, <1>2, <1>4, UnreservedCounts
  <2>2. pc[word.id] \in SafePlaces
    BY Zenon, <1>1, <1>2, <1>4 DEF VictimOf, SafePlaces
  <2>3. Respects(t)
    BY Zenon, <2>1, <2>2 DEF Respects
  <2>4. TypeInv' /\ Alone(t) /\ Leaves(t)
    BY <1>1, <1>2, <1>4, <2>1 DEF TypeInv, Alone, Leaves, Goto, environment, Labels, SafePlaces
  <2>5. StageOf(t)'
    BY Zenon, <1>1, <1>2, <1>4
       DEF TypeInv, StageOf, Goto, environment, UnreserveLabels, InflateLabels
  <2>6. CopyOf(t)'
    BY Zenon, <1>1, <1>2, <1>4, <2>1 DEF TypeInv, CopyOf, Goto, StoreLabels
  <2>7. HoldOf(t)' /\ PlaceOf(t)'
    BY Zenon, <1>1, <1>2, <1>4, <2>1 DEF TypeInv, HoldOf, PlaceOf, Goto
  <2>8. VictimOf(t)'
    BY Zenon, <1>1, <1>2, <1>4, <2>1 DEF TypeInv, VictimOf, Goto, UnreserveLabels
  <2> QED
    BY Zenon, <2>1, <2>3, <2>4, <2>5, <2>6, <2>7, <2>8, StepKeeps DEF ThreadInv
<1> QED
  BY Zenon, <1>1, <1>2, <1>3, <1>4 DEF unreserve_cas, Goto, Read, TypeInv

\* Before it inflates a reserved lock, the owner takes its own reservation away.
LEMMA UnreserveSelfInv ==
    ASSUME IInv, NEW t \in Threads, unreserve_self(t)
    PROVE  IInv' /\ Framed(t)
<1>1. TypeInv /\ WordInv /\ StageOf(t) /\ CopyOf(t) /\ HoldOf(t) /\ PlaceOf(t) /\ VictimOf(t)
  BY Zenon DEF IInv
<1>2. pc[t] = "unreserve_self" /\ word = copy[t] /\ word.id = t /\ word.res /\ word.rec > 0
  BY Zenon, <1>1 DEF unreserve_self, CopyOf, PlaceOf, StoreLabels
<1>3. /\ ~word.fat /\ word' \in LockWords /\ word'.fat = FALSE /\ word'.res = FALSE /\ word'.id = t
      /\ WordInv' /\ \A u \in Threads : get_recursion(u)' = get_recursion(u)
  <2>1. word' = Unreserved(word) /\ monitor' = monitor /\ word.rec # 0
    BY <1>2 DEF unreserve_self
  <2> QED
    BY Zenon, <1>2, <2>1, UnreservedCounts
<1>4. Respects(t)
  BY Zenon, <1>2, <1>3 DEF Respects
<1>5. pc'[t] = "fatten" /\ copy'[t] = word'
  BY Zenon, <1>1 DEF unreserve_self, Goto, TypeInv
<1>6. TypeInv' /\ Alone(t) /\ Leaves(t)
  BY <1>1, <1>2, <1>3
     DEF unreserve_self, TypeInv, Alone, Leaves, Goto, environment, Labels, SafePlaces
<1>7. StageOf(t)'
  BY Zenon, <1>1, <1>2, <1>5
     DEF unreserve_self, StageOf, environment, UnreserveLabels, InflateLabels
<1>8. CopyOf(t)' /\ PlaceOf(t)'
  BY Zenon, <1>3, <1>5 DEF CopyOf, PlaceOf
<1>9. HoldOf(t)' /\ VictimOf(t)'
  BY Zenon, <1>1, <1>2, <1>3, <1>5 DEF unreserve_self, HoldOf, VictimOf, UnreserveLabels
<1> QED
  BY Zenon, <1>3, <1>4, <1>6, <1>7, <1>8, <1>9, StepKeeps DEF ThreadInv

\* The counts go to the new monitor, and the word becomes fat.
LEMMA FattenInv == ASSUME IInv, NEW t \in Threads, fatten(t) PROVE IInv' /\ Framed(t)
<1>1. TypeInv /\ WordInv /\ StageOf(t) /\ CopyOf(t) /\ HoldOf(t) /\ PlaceOf(t) /\ VictimOf(t)
  BY Zenon DEF IInv
<1>2. /\ pc[t] = "fatten" /\ word = copy[t] /\ word.id = t /\ ~word.res /\ ~word.fat
      /\ word.rec \in Nat /\ ret[t] \in {"idle", "overflow", "wait"}
  BY <1>1, BoundsAssumption
     DEF fatten, CopyOf, PlaceOf, StoreLabels, WordInv, Fat, TypeInv, LockWords
<1>3. /\ word' = Fat /\ monitor' = [owner |-> t, entries |-> word.rec + 1] /\ pc'[t] = ret[t]
      /\ UNCHANGED <<stage, locals, victim, environment, depth>>
  BY Zenon, <1>1, <1>2 DEF fatten, Goto, TypeInv
<1>4. TypeInv' /\ Alone(t) /\ Leaves(t)
  BY <1>1, <1>2, <1>3, BoundsAssumption
     DEF fatten, TypeInv, Alone, Leaves, Goto, environment, locals, Labels, SafePlaces, LockWords,
         Fat
<1>5. WordInv'
  BY <1>2, <1>3, BoundsAssumption DEF WordInv, Fat, Free
<1>6. Respects(t) /\ get_recursion(t)' = get_recursion(t)
  BY Zenon, <1>2, <1>3, BoundsAssumption DEF Respects, get_recursion, Fat
<1>7. StageOf(t)'
  BY Zenon, <1>1, <1>2, <1>3
     DEF StageOf, environment, locals, UnreserveLabels, InflateLabels
<1>8. CopyOf(t)' /\ PlaceOf(t)'
  BY Zenon, <1>2, <1>3 DEF CopyOf, PlaceOf, locals, Fat, StoreLabels
<1>9. HoldOf(t)' /\ VictimOf(t)'
  BY Zenon, <1>1, <1>2, <1>3, <1>6 DEF HoldOf, VictimOf, UnreserveLabels
<1> QED
  BY Zenon, <1>4, <1>5, <1>6, <1>7, <1>8, <1>9, StepKeeps DEF ThreadInv

\* The invariant holds at the start.
LEMMA InitInv == Init => IInv
<1> SUFFICES ASSUME Init PROVE IInv
  BY Zenon
<1>1. TypeInv
  BY BoundsAssumption DEF Init, TypeInv, LockWords, Unlocked, Labels, SafePlaces, Attempts
<1>2. WordInv
  BY Zenon, BoundsAssumption DEF Init, WordInv, Unlocked, Free
<1>3. ASSUME NEW t \in Threads
      PROVE  StageOf(t) /\ CopyOf(t) /\ HoldOf(t) /\ PlaceOf(t) /\ VictimOf(t)
  BY BoundsAssumption
     DEF Init, StageOf, CopyOf, HoldOf, get_recursion, PlaceOf, VictimOf, UnreserveLabels,
         InflateLabels, StoreLabels, Attempts
<1> QED
  BY Zenon, <1>1, <1>2, <1>3 DEF IInv

Acts(t) ==
    \/ Step(t) \/ enter(t) \/ begin_exit(t) \/ begin_wait(t) \/ wait_returns(t)
    \/ die(t) \/ ask(t) \/ release(t)

\* Every step of a thread keeps the invariant, and is seen by the others as Framed says.
LEMMA ActsInv == ASSUME IInv, NEW t \in Threads, Acts(t) PROVE IInv' /\ Framed(t)
<1>1. CASE Step(t)
  BY Zenon, <1>1, FastEnterInv, TryEnterInv, RecursionIncInv, SpinFreeInv, ReserveInv, SpinFatInv,
     SpinOwnedInv, OverflowInv, SafePointInv, BlockInv, WokenInv, UnreserveReadInv,
     UnreserveSuspendInv, UnreserveWaitInv, UnreserveCasInv, UnreserveResumeInv, InflateInv,
     UnreserveSelfInv, FattenInv, ExitInv, FastExitInv, WaitInv
     DEF Step, Unreserve
<1> QED
  BY Zenon, <1>1, EnterInv, BeginExitInv, BeginWaitInv, WaitReturnsInv, DieInv, AskInv, ReleaseInv
     DEF Acts

\* Every step keeps the invariant.
LEMMA NextInv == IInv /\ [Next]_vars => IInv'
<1>1. ASSUME IInv, UNCHANGED vars PROVE IInv'
  <2>1. TypeInv' /\ WordInv'
    BY Zenon, <1>1 DEF IInv, TypeInv, WordInv, vars, control, locals, environment
  <2>2. ASSUME NEW t \in Threads
        PROVE  StageOf(t)' /\ CopyOf(t)' /\ HoldOf(t)' /\ PlaceOf(t)' /\ VictimOf(t)'
    BY Zenon, <1>1 DEF IInv, StageOf, CopyOf, HoldOf, get_recursion, PlaceOf, VictimOf, vars,
                       control, locals, environment
  <2> QED
    BY Zenon, <2>1, <2>2 DEF IInv
<1> QED
  BY Zenon, <1>1, ActsInv DEF Next, Acts

\* The inductive invariant holds in every reachable state, with any number of threads: every
\* entry is counted in the word, the monitor or a wait, and a copy its owner will store is fresh.
THEOREM Invariance == Spec => []IInv
BY InitInv, NextInv, PTL DEF Spec

\* No two threads are ever inside the monitor at once, however reserving, unreserving,
\* inflating and waiting interleave: whoever is inside is counted, and one place counts at a time.
THEOREM OneThreadInside == Spec => []MutualExclusion
<1>1. IInv => MutualExclusion
  <2> SUFFICES ASSUME IInv, NEW t \in Threads, NEW u \in Threads, Inside(t), Inside(u)
               PROVE  t = u
    BY Zenon DEF MutualExclusion
  <2>1. ASSUME NEW v \in Threads, Inside(v)
        PROVE  v = IF word.fat THEN monitor.owner ELSE word.id
    BY <2>1 DEF IInv, TypeInv, HoldOf, get_recursion, Inside
  <2> QED
    BY Zenon, <2>1
<1> QED
  BY <1>1, Invariance, PTL

\* The plain stores by which an owner changes its reserved or thin word never overwrite a
\* change by another thread: between its load and its store the word stays as it was read.
THEOREM StoresAreTheOwners == Spec => []OwnerLosesNothing
<1>1. IInv => OwnerLosesNothing
  BY Zenon DEF IInv, CopyOf, StoreLabels, OwnerLosesNothing
<1> QED
  BY <1>1, Invariance, PTL

-----------------------------------------------------------------------------
(* Unreserving implements SafeRegion *)

Holders == {"ul_cas", "ul_resume"}
Unsafe == {t \in Threads : pc[t] \notin SafePlaces}
Held == [t \in Threads |-> {u \in Threads : victim[u] = t /\ pc[u] \in Holders}]

\* A step that suspends and resumes nobody.
LEMMA RegionMove ==
    ASSUME IInv, NEW t \in Threads,
           \A u \in Threads \ {t} : pc'[u] = pc[u] /\ victim'[u] = victim[u],
           \A v \in Threads : victim'[t] = v /\ pc'[t] \in Holders
                              <=> victim[t] = v /\ pc[t] \in Holders,
           pc[t] \in SafePlaces /\ pc'[t] \notin SafePlaces => Unasked(t)
    PROVE  Region!Next \/ UNCHANGED Region!vars
<1>1. Held' = Held
  BY DEF Held
<1>2. CASE pc[t] \in SafePlaces <=> pc'[t] \in SafePlaces
  <2>1. Unsafe' = Unsafe
    BY Zenon, <1>2 DEF Unsafe
  <2> QED
    BY Zenon, <1>1, <2>1 DEF Region!vars, Unsafe, Held, Holders
<1>3. CASE pc[t] \in SafePlaces /\ pc'[t] \notin SafePlaces
  <2>1. t \notin Unsafe /\ Unsafe' = Unsafe \cup {t} /\ Held[t] = {}
    BY Zenon, <1>3 DEF Unsafe, Held, Unasked
  <2>2. Region!leave_safe_region(t)
    BY Zenon, <1>1, <2>1 DEF Region!leave_safe_region, Unsafe, Held, Holders
  <2> QED
    BY Zenon, <2>2 DEF Region!Next
<1>4. CASE pc[t] \notin SafePlaces /\ pc'[t] \in SafePlaces
  <2>1. t \in Unsafe /\ Unsafe' = Unsafe \ {t}
    BY Zenon, <1>4 DEF Unsafe
  <2>2. Region!enter_safe_region(t)
    BY Zenon, <1>1, <2>1 DEF Region!enter_safe_region, Unsafe, Held, Holders
  <2> QED
    BY Zenon, <2>2 DEF Region!Next
<1> QED
  BY Zenon, <1>2, <1>3, <1>4

\* The steps of unreserve_lock suspend and resume as SafeRegion allows.
LEMMA RegionUnreserve ==
    ASSUME IInv, NEW t \in Threads, Unreserve(t)
    PROVE  Region!Next \/ UNCHANGED Region!vars
<1>1. TypeInv /\ VictimOf(t)
  BY Zenon DEF IInv
<1>2. CASE unreserve_read(t) \/ unreserve_suspend(t) \/ unreserve_cas(t)
  BY <1>1, <1>2, BoundsAssumption, RegionMove
     DEF unreserve_read, unreserve_suspend, unreserve_cas, UnreserveReturns, Goto, Holders,
         TypeInv, VictimOf, SafePlaces
<1>3. CASE unreserve_wait(t)
  <2>1. CASE pc[victim[t]] \notin SafePlaces
    BY <1>1, <1>3, <2>1, BoundsAssumption, RegionMove
       DEF unreserve_wait, Again, Busy, AfterBusy, Goto, Holders, TypeInv, VictimOf, SafePlaces
  <2>2. CASE pc[victim[t]] \in SafePlaces
    <3>1. PICK v \in Threads : victim[t] = v
      BY Zenon, <1>1, <1>3 DEF unreserve_wait, TypeInv, VictimOf
    <3>2. victim' = victim /\ pc[t] = "ul_wait" /\ pc' = [pc EXCEPT ![t] = "ul_cas"]
      BY Zenon, <1>3, <2>2 DEF unreserve_wait, Goto
    <3>3. v \notin Unsafe /\ Unsafe' = Unsafe
      BY Zenon, <1>1, <2>2, <3>1, <3>2 DEF Unsafe, TypeInv, SafePlaces
    <3>4. \A w \in Threads : Held'[w] = IF w = v THEN Held[w] \cup {t} ELSE Held[w]
      BY <1>1, <3>1, <3>2 DEF Held, Holders, TypeInv
    <3>5. Held' = [Held EXCEPT ![v] = @ \cup {t}]
      BY Zenon, <3>4 DEF Held
    <3>6. Region!suspend(t, v)
      BY Zenon, <3>3, <3>5 DEF Region!suspend, Unsafe, Held, Holders
    <3> QED
      BY Zenon, <3>6 DEF Region!Next
  <2> QED
    BY Zenon, <2>1, <2>2
<1>4. CASE unreserve_resume(t)
  <2>1. /\ pc[t] = "ul_resume" /\ pc' = [pc EXCEPT ![t] = "try"]
        /\ victim' = [victim EXCEPT ![t] = NoThread]
    BY Zenon, <1>4 DEF unreserve_resume, UnreserveReturns, Goto
  <2>2. CASE victim[t] = NoThread
    BY <1>1, <2>1, <2>2, BoundsAssumption, RegionMove DEF TypeInv, SafePlaces, Holders
  <2>3. ASSUME NEW v \in Threads, victim[t] = v PROVE Region!Next
    <3>1. Unsafe' = Unsafe
      BY Zenon, <1>1, <2>1 DEF Unsafe, TypeInv, SafePlaces
    <3>2. t \in Held[v]
      BY Zenon, <2>1, <2>3 DEF Held, Holders
    <3>3. \A w \in Threads : Held'[w] = IF w = v THEN Held[w] \ {t} ELSE Held[w]
      BY <1>1, <2>1, <2>3, BoundsAssumption DEF Held, Holders, TypeInv
    <3>4. Held' = [Held EXCEPT ![v] = @ \ {t}]
      BY Zenon, <3>3 DEF Held
    <3>5. Region!resume(t, v)
      BY Zenon, <3>1, <3>2, <3>4 DEF Region!resume, Unsafe, Held, Holders
    <3> QED
      BY Zenon, <3>5 DEF Region!Next
  <2> QED
    BY Zenon, <1>1, <2>2, <2>3 DEF TypeInv
<1> QED
  BY Zenon, <1>2, <1>3, <1>4 DEF Unreserve

\* So does every other step that a thread takes inside the monitor code.
LEMMA RegionStep ==
    ASSUME IInv, NEW t \in Threads, Step(t)
    PROVE  Region!Next \/ UNCHANGED Region!vars
<1>1. TypeInv /\ ret[t] \in {"idle", "overflow", "wait"}
  BY Zenon DEF IInv, TypeInv
<1>2. CASE Unreserve(t)
  BY Zenon, <1>2, RegionUnreserve
<1>3. CASE /\ victim' = victim /\ pc[t] \notin Holders /\ pc[t] \notin SafePlaces
           /\ \E l \in Labels \ Holders : Goto(t, l)
  BY Zenon, <1>1, <1>3, RegionMove DEF Goto, TypeInv
<1>4. CASE fast_enter(t) \/ try_enter(t) \/ recursion_inc(t) \/ reserve(t) \/ overflow(t)
  BY Zenon, <1>3, <1>4
     DEF fast_enter, try_enter, recursion_inc, reserve, overflow, FatTry, Success, Goto, Holders,
         Labels, SafePlaces
<1>5. CASE spin_free(t) \/ spin_fat(t) \/ spin_owned(t)
  <2>1. pc[t] = "spin" /\ stage[t] \in Attempts /\ victim' = victim
    BY Zenon, <1>5 DEF IInv, StageOf, spin_free, spin_fat, spin_owned
  <2>2. ASSUME Again(t) PROVE \E l \in Labels \ Holders : Goto(t, l)
    BY Zenon, <2>1, <2>2 DEF Again, Busy, AfterBusy, Attempts, Holders, Labels, SafePlaces
  <2>3. ASSUME Success(t) PROVE \E l \in Labels \ Holders : Goto(t, l)
    BY Zenon, <2>3 DEF Success, Holders, Labels, SafePlaces
  <2>4. \E l \in Labels \ Holders : Goto(t, l)
    BY Zenon, <1>5, <2>2, <2>3 DEF spin_free, spin_fat, spin_owned, FatTry, Holders, Labels
  <2> QED
    BY Zenon, <1>3, <2>1, <2>4 DEF Holders, SafePlaces
<1>6. CASE safe_point(t) \/ block(t) \/ woken(t)
  BY <1>1, <1>6, RegionMove
     DEF safe_point, block, woken, Ready, Goto, Holders, SafePlaces, TypeInv
<1>7. CASE inflate(t) \/ unreserve_self(t) \/ fatten(t)
  BY Zenon, <1>1, <1>3, <1>7
     DEF inflate, unreserve_self, fatten, Goto, Holders, Labels, SafePlaces
<1>8. CASE exit(t) \/ fast_exit(t) \/ wait(t)
  BY Zenon, <1>3, <1>8 DEF exit, fast_exit, wait, Goto, Holders, Labels, SafePlaces
<1> QED
  BY Zenon, <1>2, <1>4, <1>5, <1>6, <1>7, <1>8 DEF Step

\* Unreserving uses safe suspension as SafeRegion allows, for any number of threads: the
\* owner's word is changed only while the owner stays outside its unsafe regions.
THEOREM UnreservingIsSafe == Spec => UsesSafeRegion
<1>1. Init => Region!Init
  BY Zenon, BoundsAssumption DEF Init, Region!Init, SafePlaces
<1>2. ASSUME IInv, [Next]_vars PROVE Region!Next \/ UNCHANGED Region!vars
  <2>1. CASE UNCHANGED vars
    BY Zenon, <2>1 DEF vars, control, Region!vars
  <2>2. ASSUME NEW t \in Threads, Step(t) PROVE Region!Next \/ UNCHANGED Region!vars
    BY Zenon, <1>2, <2>2, RegionStep
  <2>3. ASSUME NEW t \in Threads,
               \/ enter(t) \/ begin_exit(t) \/ begin_wait(t) \/ wait_returns(t) \/ die(t)
               \/ ask(t) \/ release(t)
        PROVE  Region!Next \/ UNCHANGED Region!vars
    <3>1. TypeInv
      BY Zenon, <1>2 DEF IInv
    <3>2. CASE enter(t) \/ begin_exit(t) \/ begin_wait(t) \/ wait_returns(t) \/ die(t)
      BY <1>2, <3>1, <3>2, RegionMove
         DEF enter, begin_exit, begin_wait, wait_returns, die, Ready, Goto, Holders, SafePlaces,
             TypeInv
    <3>3. CASE ask(t) \/ release(t)
      BY Zenon, <3>3 DEF ask, release, control, Region!vars
    <3> QED
      BY Zenon, <2>3, <3>2, <3>3
  <2> QED
    BY Zenon, <1>2, <2>1, <2>2, <2>3 DEF Next
<1> QED
  BY <1>1, <1>2, Invariance, PTL DEF Spec, UsesSafeRegion, Region!Spec

-----------------------------------------------------------------------------
(* Two threads: every exit matches an entry *)

TwoThreads == \A t, u, v \in Threads : t = u \/ t = v \/ u = v

\* A step of t leaves the counts of the others exact.
LEMMA OthersCount ==
    ASSUME PairInv, NEW t \in Threads, Framed(t), NEW u \in Threads \ {t}
    PROVE  CountOf(u)'
<1>1. /\ pc'[u] = pc[u] /\ depth'[u] = depth[u] /\ saved'[u] = saved[u]
      /\ get_recursion(u)' = get_recursion(u)
  BY Zenon DEF Framed, Alone, Respects
<1>2. CountOf(u) /\ (pc[u] = "reserve" => word' = word)
  BY Zenon DEF PairInv, IInv, PlaceOf, Framed, Respects, SafePlaces
<1> QED
  BY Zenon, <1>1, <1>2 DEF CountOf

\* A step that counts and enters nothing.
LEMMA QuietCounts ==
    ASSUME NEW t \in Threads, CountOf(t), get_recursion(t)' = get_recursion(t), depth' = depth,
           pc[t] # "waiting", pc'[t] \notin {"waiting", "reserve"}
    PROVE  CountOf(t)'
BY Zenon DEF CountOf

\* An attempt that succeeds with one count more leaves the counts exact.
LEMMA EntryCounts ==
    ASSUME PairInv, NEW t \in Threads, pc[t] # "waiting", Success(t),
           get_recursion(t)' = get_recursion(t) + 1
    PROVE  CountOf(t)'
BY Zenon DEF PairInv, IInv, TypeInv, CountOf, Success, Goto

\* A fat monitor that is entered counts the entry.
LEMMA FatEntryCounts ==
    ASSUME PairInv, NEW t \in Threads, pc[t] # "waiting", word.fat, FatTry(t), word' = word
    PROVE  get_recursion(t)' = get_recursion(t) + 1
BY Zenon, BoundsAssumption DEF PairInv, IInv, TypeInv, WordInv, FatTry, get_recursion

\* All the ways to enter count one entry.
LEMMA EnteringCounts ==
    ASSUME PairInv, NEW t \in Threads,
           \/ fast_enter(t) \/ recursion_inc(t) \/ spin_free(t) \/ spin_fat(t) \/ overflow(t)
    PROVE  CountOf(t)'
<1>1. /\ IInv /\ TypeInv /\ WordInv /\ StageOf(t) /\ CopyOf(t) /\ PlaceOf(t)
      /\ CountOf(t) /\ FreshOf(t)
  BY Zenon DEF PairInv, IInv
<1>2. ASSUME UNCHANGED <<word, monitor, depth>>, pc[t] # "waiting",
             \E l : Goto(t, l) /\ l \notin {"waiting", "reserve"}
      PROVE  CountOf(t)'
  BY Zenon, <1>1, <1>2, QuietCounts DEF get_recursion, Goto, TypeInv
<1>3. ASSUME Again(t), UNCHANGED <<word, monitor, depth>>, pc[t] = "spin" PROVE CountOf(t)'
  <2>1. AfterBusy(t)[2] \notin {"waiting", "reserve"}
    <3>1. stage[t] \in Attempts
      BY Zenon, <1>1, <1>3 DEF StageOf
    <3> QED
      BY Zenon, <3>1, BusyLabel
  <2>2. \E l : Goto(t, l) /\ l \notin {"waiting", "reserve"}
    BY Zenon, <1>3, <2>1 DEF Again, Busy
  <2> QED
    BY Zenon, <1>2, <1>3, <2>2
<1>4. ASSUME Success(t), pc[t] # "waiting", word = copy[t], word.id = t, word.rec < MAX_RECURSION,
             word' = Inc(copy[t]), monitor' = monitor
      PROVE  CountOf(t)'
  <2>1. ~word.fat
    BY Zenon, <1>1, <1>4, OwnedThin
  <2> QED
    BY Zenon, <1>1, <1>4, <2>1, OwnerIncrements, EntryCounts
<1>5. CASE fast_enter(t)
  <2>1. CASE copy[t].id = t /\ copy[t].rec < MAX_RECURSION /\ word' = Inc(copy[t]) /\ Success(t)
    BY Zenon, <1>1, <1>4, <1>5, <2>1 DEF fast_enter, CopyOf, StoreLabels
  <2>2. CASE /\ Free(copy[t]) /\ word = copy[t] /\ Success(t)
             /\ word' = [copy[t] EXCEPT !.id = t, !.rec = IF copy[t].res THEN @ + 1 ELSE @]
    <3> DEFINE r == IF word.res THEN 1 ELSE 0
    <3>1. word.rec = 0 /\ r \in 0 .. MAX_RECURSION /\ get_recursion(t) = 0
      BY <1>1, <2>2, BoundsAssumption DEF WordInv, get_recursion, Free
    <3>2. word' = [word EXCEPT !.id = t, !.rec = r] /\ monitor' = monitor
      BY <1>1, <1>5, <2>2, <3>1 DEF TypeInv, LockWords, fast_enter
    <3>3. get_recursion(t)' = 1
      BY Zenon, <1>1, <2>2, <3>1, <3>2, FreeIsTaken
    <3> QED
      BY <1>5, <2>2, <3>1, <3>3, EntryCounts DEF fast_enter
  <2>3. CASE Goto(t, "try") /\ UNCHANGED <<word, depth>>
    BY <1>2, <1>5, <2>3 DEF fast_enter
  <2> QED
    BY Zenon, <1>5, <2>1, <2>2, <2>3 DEF fast_enter
<1>6. CASE recursion_inc(t)
  BY Zenon, <1>1, <1>4, <1>6 DEF recursion_inc, CopyOf, PlaceOf, StoreLabels
<1>7. CASE spin_fat(t) \/ overflow(t)
  <2>1. word.fat
    BY Zenon, <1>1, <1>7 DEF spin_fat, overflow, CopyOf, PlaceOf, Fat
  <2> QED
    BY Zenon, <1>3, <1>7, <2>1, FatEntryCounts, EntryCounts DEF spin_fat, overflow, FatTry
<1>8. CASE spin_free(t) /\ Free(word)
  <2>1. /\ word.rec = 0 /\ 0 \in 0 .. MAX_RECURSION /\ word \in LockWords /\ get_recursion(t) = 0
        /\ monitor' = monitor /\ pc[t] = "spin"
    BY <1>1, <1>8, BoundsAssumption DEF WordInv, TypeInv, get_recursion, Free, spin_free
  <2>2. word' = [word EXCEPT !.id = t, !.rec = 0] /\ word'.res = word.res
    BY Zenon, <1>8, <2>1 DEF LockWords, spin_free
  <2>3. get_recursion(t)' = IF word.res THEN 0 ELSE 1
    BY Zenon, <1>1, <1>8, <2>1, <2>2, FreeIsTaken
  <2>4. CASE copy[t].res
    <3>1. ASSUME NEW u \in Threads PROVE pc[u] # "fatten"
      BY Zenon, <1>1, <1>8, BoundsAssumption DEF IInv, CopyOf, PlaceOf, StoreLabels, Free
    <3>2. word.res
      BY Zenon, <1>1, <1>8, <2>1, <2>4, <3>1 DEF FreshOf, Free, spin_free
    <3> QED
      BY Zenon, <1>1, <1>8, <2>1, <2>2, <2>3, <2>4, <3>2 DEF CountOf, TypeInv, spin_free, Goto
  <2>5. CASE ~copy[t].res
    BY <1>1, <1>8, <2>1, <2>3, <2>5, EntryCounts DEF CopyOf, spin_free
  <2> QED
    BY Zenon, <2>4, <2>5
<1>9. CASE spin_free(t) /\ ~Free(word)
  BY Zenon, <1>3, <1>9 DEF spin_free
<1> QED
  BY Zenon, <1>5, <1>6, <1>7, <1>8, <1>9

\* All the ways to exit take one count away.
LEMMA LeavingCounts ==
    ASSUME PairInv, NEW t \in Threads, exit(t) \/ fast_exit(t)
    PROVE  CountOf(t)'
<1>1. IInv /\ TypeInv /\ WordInv /\ CopyOf(t) /\ PlaceOf(t) /\ CountOf(t)
  BY Zenon DEF PairInv, IInv
<1>2. pc[t] \in {"exit", "fast_exit"} /\ depth[t] = get_recursion(t) /\ depth[t] \in Int
  BY Zenon, <1>1 DEF CountOf, exit, fast_exit, TypeInv
<1>3. ASSUME Goto(t, "idle"), depth' = [depth EXCEPT ![t] = @ - 1],
             get_recursion(t)' = get_recursion(t) - 1
      PROVE  CountOf(t)'
  BY Zenon, <1>1, <1>2, <1>3 DEF CountOf, TypeInv, Goto
<1>4. ASSUME UNCHANGED <<word, monitor, depth>>, Goto(t, "idle") \/ Goto(t, "exit")
      PROVE  CountOf(t)'
  BY Zenon, <1>1, <1>2, <1>4, QuietCounts DEF get_recursion, Goto, TypeInv
<1>5. ASSUME copy[t].id = t, ~copy[t].res \/ copy[t].rec # 0, ThinExit(copy[t]), monitor' = monitor
      PROVE  get_recursion(t)' = get_recursion(t) - 1
  <2>1. word = copy[t] /\ ~word.fat
    <3>1. word = copy[t]
      BY Zenon, <1>1, <1>2, <1>5 DEF CopyOf, StoreLabels
    <3> QED
      BY Zenon, <1>1, <1>5, <3>1, OwnedThin
  <2> QED
    BY Zenon, <1>1, <1>5, <2>1, OwnerExits
<1>6. CASE exit(t)
  <2>1. CASE copy[t].fat /\ FatExit(t) /\ depth' = [depth EXCEPT ![t] = @ - 1]
    <3>1. get_recursion(t)' = get_recursion(t) - 1
      BY <1>1, <2>1, BoundsAssumption
         DEF FatExit, CopyOf, Fat, WordInv, TypeInv, Unlocked, get_recursion
    <3> QED
      BY Zenon, <1>3, <1>6, <2>1, <3>1 DEF exit
  <2> QED
    BY Zenon, <1>3, <1>4, <1>5, <1>6, <2>1 DEF exit, OwnsThin
<1>7. CASE fast_exit(t)
  <2>1. CASE ~copy[t].fat
    <3>1. copy[t].id = t /\ word = copy[t] /\ depth[t] > 0
      BY Zenon, <1>1, <1>7, <2>1 DEF PlaceOf, CopyOf, StoreLabels, fast_exit
    <3>2. ~copy[t].res \/ copy[t].rec # 0
      BY <1>2, <2>1, <3>1 DEF get_recursion
    <3> QED
      BY Zenon, <1>3, <1>5, <1>7, <2>1, <3>1, <3>2 DEF fast_exit
  <2> QED
    BY Zenon, <1>4, <1>7, <2>1 DEF fast_exit
<1> QED
  BY Zenon, <1>6, <1>7

\* Blocking, Object.wait and inflation move the counts and lose none.
LEMMA WaitingCounts ==
    ASSUME PairInv, NEW t \in Threads, block(t) \/ wait(t) \/ wait_returns(t) \/ fatten(t)
    PROVE  CountOf(t)'
<1>1. TypeInv /\ WordInv /\ CopyOf(t) /\ PlaceOf(t) /\ CountOf(t)
  BY Zenon DEF PairInv, IInv
<1>2. CASE block(t)
  BY <1>1, <1>2, BoundsAssumption DEF block, Goto, TypeInv, PlaceOf, CountOf, get_recursion
<1>3. CASE wait(t)
  BY <1>1, <1>3, BoundsAssumption
     DEF wait, Goto, TypeInv, WordInv, Unlocked, CountOf, get_recursion
<1>4. CASE wait_returns(t)
  BY Zenon, <1>1, <1>4 DEF wait_returns, Goto, TypeInv, PlaceOf, CountOf, get_recursion
<1>5. CASE fatten(t)
  <2>1. /\ word = copy[t] /\ word.id = t /\ ~word.res /\ ~word.fat
        /\ ret[t] \in {"idle", "overflow", "wait"} /\ pc[t] = "fatten" /\ pc'[t] = ret[t]
    <3>1. /\ word = copy[t] /\ word.id = t /\ ~word.res /\ pc[t] = "fatten" /\ pc'[t] = ret[t]
      BY Zenon, <1>1, <1>5 DEF fatten, CopyOf, PlaceOf, StoreLabels, TypeInv, Goto
    <3>2. ret[t] \in {"idle", "overflow", "wait"}
      BY Zenon, <1>1 DEF TypeInv
    <3> QED
      BY Zenon, <1>1, <3>1, <3>2, OwnedThin
  <2>2. get_recursion(t)' = get_recursion(t)
    BY Zenon, <1>5, <2>1 DEF fatten, get_recursion, Fat
  <2> QED
    BY Zenon, <1>1, <1>5, <2>1, <2>2, QuietCounts DEF fatten
<1> QED
  BY Zenon, <1>2, <1>3, <1>4, <1>5

\* An unreservation counts what the reserved word counted.
LEMMA UnreservingCounts ==
    ASSUME PairInv, NEW t \in Threads, Unreserve(t) \/ unreserve_self(t)
    PROVE  CountOf(t)'
<1>1. IInv /\ TypeInv /\ StageOf(t) /\ CopyOf(t) /\ PlaceOf(t) /\ CountOf(t)
  BY Zenon DEF PairInv, IInv
<1>2. ASSUME UNCHANGED <<word, monitor>> PROVE get_recursion(t)' = get_recursion(t)
  BY Zenon, <1>2 DEF get_recursion
<1>3. CASE unreserve_self(t)
  <2>1. word' = Unreserved(word) /\ monitor' = monitor /\ word.res
    BY Zenon, <1>1, <1>3 DEF unreserve_self, CopyOf, PlaceOf, StoreLabels
  <2> QED
    BY Zenon, <1>1, <1>3, <2>1, UnreservedCounts, QuietCounts DEF unreserve_self, Goto, TypeInv
<1>4. CASE unreserve_cas(t)
  <2>1. get_recursion(t)' = get_recursion(t)
    BY Zenon, <1>1, <1>2, <1>4, UnreservedCounts DEF unreserve_cas
  <2> QED
    BY Zenon, <1>1, <1>4, <2>1, QuietCounts DEF unreserve_cas, Goto, TypeInv
<1>5. CASE unreserve_read(t) \/ unreserve_suspend(t) \/ unreserve_resume(t)
  BY Zenon, <1>1, <1>2, <1>5, QuietCounts
     DEF unreserve_read, unreserve_suspend, unreserve_resume, UnreserveReturns, Goto, TypeInv
<1>6. CASE unreserve_wait(t)
  BY <1>1, <1>2, <1>6, QuietCounts
     DEF unreserve_wait, Again, Busy, AfterBusy, StageOf, UnreserveLabels, Attempts, Goto, TypeInv
<1> QED
  BY Zenon, <1>3, <1>4, <1>5, <1>6 DEF Unreserve

\* Every step of t leaves the counts of t exact.
LEMMA ActsCount == ASSUME PairInv, NEW t \in Threads, Acts(t) PROVE CountOf(t)'
<1>1. TypeInv /\ StageOf(t) /\ CountOf(t)
  BY Zenon DEF PairInv, IInv
<1>2. ASSUME UNCHANGED <<word, monitor>> PROVE get_recursion(t)' = get_recursion(t)
  BY Zenon, <1>2 DEF get_recursion
<1>3. CASE try_enter(t) \/ spin_owned(t) \/ safe_point(t) \/ woken(t) \/ inflate(t)
  BY <1>1, <1>2, <1>3, QuietCounts
     DEF try_enter, spin_owned, Again, Busy, AfterBusy, StageOf, Attempts, safe_point, woken, Ready,
         inflate, Goto, TypeInv
<1>4. CASE enter(t) \/ begin_exit(t) \/ begin_wait(t) \/ die(t)
  BY Zenon, <1>1, <1>2, <1>4, QuietCounts
     DEF enter, begin_exit, begin_wait, die, Ready, Goto, TypeInv
<1>5. CASE ask(t) \/ release(t)
  BY Zenon, <1>1, <1>2, <1>5 DEF ask, release, control, locals, CountOf
<1>6. CASE reserve(t)
  BY Zenon, <1>1, <1>2, <1>6, QuietCounts DEF reserve, Goto, TypeInv
<1> QED
  BY Zenon, <1>3, <1>4, <1>5, <1>6, EnteringCounts, LeavingCounts, WaitingCounts, UnreservingCounts
     DEF Acts, Step

\* Only an unreservation clears the reservation bit, and the owner that unreserves its own
\* word goes on to inflate it.
LEMMA ReservationEnds ==
    ASSUME IInv, NEW t \in Threads, Acts(t)
    PROVE  /\ word'.res = word.res \/ word'.fat \/ pc'[t] = "fatten"
              \/ (pc[t] = "ul_cas" /\ word.res /\ pc[word.id] \in SafePlaces /\ word.id \in Threads)
           /\ pc[t] = "fatten" => pc'[t] = "fatten" \/ word'.fat
<1>1. TypeInv /\ WordInv /\ CopyOf(t) /\ PlaceOf(t) /\ VictimOf(t)
  BY Zenon DEF IInv
<1>2. CASE word' = word /\ pc[t] # "fatten"
  BY Zenon, <1>2
<1>3. CASE ask(t) \/ release(t)
  BY Zenon, <1>3 DEF ask, release, control
<1>4. CASE fatten(t)
  BY Zenon, <1>4 DEF fatten, Fat
<1>5. CASE unreserve_self(t)
  BY Zenon, <1>1, <1>5 DEF unreserve_self, Goto, TypeInv
<1>6. CASE unreserve_cas(t) /\ word' # word
  BY Zenon, <1>1, <1>6 DEF unreserve_cas, VictimOf, UnreserveLabels, SafePlaces, TypeInv, LockWords
<1>7. CASE fast_enter(t) /\ word' # word
  <2>1. word = copy[t] /\ word \in LockWords /\ pc[t] = "fast_enter"
    BY Zenon, <1>1, <1>7 DEF fast_enter, CopyOf, StoreLabels, TypeInv
  <2> QED
    BY Zenon, <1>7, <2>1 DEF fast_enter, Inc, LockWords
<1>8. CASE recursion_inc(t)
  <2>1. word = copy[t] /\ word \in LockWords /\ pc[t] = "inc"
    BY Zenon, <1>1, <1>8 DEF recursion_inc, CopyOf, PlaceOf, StoreLabels, TypeInv
  <2> QED
    BY Zenon, <1>8, <2>1 DEF recursion_inc, Inc, LockWords
<1>9. CASE spin_free(t)
  BY Zenon, <1>1, <1>9 DEF spin_free, TypeInv, LockWords
<1>10. CASE (exit(t) \/ fast_exit(t)) /\ word' # word
  <2>1. word = copy[t] /\ word \in LockWords /\ pc[t] \in {"exit", "fast_exit"} /\ ThinExit(word)
    BY Zenon, <1>1, <1>10
       DEF exit, fast_exit, FatExit, CopyOf, PlaceOf, OwnsThin, StoreLabels, TypeInv
  <2> QED
    BY Zenon, <2>1 DEF ThinExit, ClearId, Dec, LockWords
<1>11. CASE \/ enter(t) \/ begin_exit(t) \/ begin_wait(t) \/ wait_returns(t) \/ die(t) \/ wait(t)
            \/ safe_point(t) \/ block(t) \/ woken(t)
  BY Zenon, <1>2, <1>11
     DEF enter, begin_exit, begin_wait, wait_returns, die, wait, safe_point, block, woken, Ready
<1>12. CASE \/ try_enter(t) \/ reserve(t) \/ spin_fat(t) \/ spin_owned(t) \/ overflow(t)
            \/ inflate(t)
  BY Zenon, <1>2, <1>12 DEF try_enter, reserve, spin_fat, spin_owned, overflow, inflate
<1>13. CASE Unreserve(t) /\ word' = word
  BY Zenon, <1>2, <1>13
     DEF Unreserve, unreserve_read, unreserve_suspend, unreserve_wait, unreserve_cas,
         unreserve_resume
<1>14. Unreserve(t) => word' = word \/ unreserve_cas(t)
  BY Zenon DEF Unreserve, unreserve_read, unreserve_suspend, unreserve_wait, unreserve_cas,
         unreserve_resume
<1>15. (fast_enter(t) \/ exit(t) \/ fast_exit(t)) => pc[t] # "fatten"
  BY Zenon DEF fast_enter, exit, fast_exit
<1> QED
  BY Zenon, <1>2, <1>3, <1>4, <1>5, <1>6, <1>7, <1>8, <1>9, <1>10, <1>11, <1>12, <1>13, <1>14, <1>15
     DEF Acts, Step

\* A thread that spins on a reserved word it found free still finds it reserved, when it can be.
LEMMA ActsFresh ==
    ASSUME TwoThreads, PairInv, NEW t \in Threads, Acts(t), NEW u \in Threads
    PROVE  FreshOf(u)'
<1>1. IInv /\ TypeInv /\ StageOf(t) /\ Framed(t)
  BY Zenon, ActsInv DEF PairInv, IInv
<1>2. ASSUME pc[u] = "spin", Free(copy[u]), copy[u].res, pc'[u] = "spin", copy'[u] = copy[u]
      PROVE  FreshOf(u)'
  <2>1. word.res \/ word.fat \/ \E v \in Threads : pc[v] = "fatten"
    BY Zenon, <1>2 DEF PairInv, FreshOf
  <2>2. CASE word.res
    <3>1. ~(pc[t] = "ul_cas" /\ pc[word.id] \in SafePlaces /\ word.id \in Threads)
      BY Zenon, <1>2 DEF TwoThreads, SafePlaces
    <3> QED
      BY Zenon, <1>1, <2>2, <3>1, ReservationEnds DEF FreshOf
  <2>3. CASE word.fat
    BY Zenon, <1>1, <2>3 DEF Framed, Respects, FreshOf
  <2>4. ASSUME NEW v \in Threads, pc[v] = "fatten" PROVE FreshOf(u)'
    BY Zenon, <1>1, <2>4, ReservationEnds DEF Framed, Alone, FreshOf
  <2> QED
    BY Zenon, <2>1, <2>2, <2>3, <2>4
<1>3. CASE u # t
  BY Zenon, <1>1, <1>2, <1>3 DEF Framed, Alone, FreshOf, Free
<1>4. ASSUME word' = word, copy'[u] = word PROVE FreshOf(u)'
  BY Zenon, <1>4 DEF FreshOf
<1>5. ASSUME Again(t), word' = word, stage[t] \in Attempts PROVE FreshOf(t)'
  <2>1. CASE copy' = [copy EXCEPT ![t] = word]
    BY Zenon, <1>1, <1>5, <2>1 DEF FreshOf, TypeInv
  <2>2. CASE Busy(t)
    BY Zenon, <1>1, <1>5, <2>2 DEF FreshOf, Busy, AfterBusy, Attempts, Goto, TypeInv
  <2> QED
    BY Zenon, <1>5, <2>1, <2>2 DEF Again, Read
<1>6. CASE u = t /\ (try_enter(t) \/ reserve(t) \/ inflate(t) \/ begin_exit(t))
  BY Zenon, <1>1, <1>4, <1>6 DEF try_enter, reserve, inflate, begin_exit, Read, TypeInv
<1>7. CASE u = t /\ (ask(t) \/ release(t))
  BY Zenon, <1>2, <1>7 DEF ask, release, control, locals, FreshOf, Free
<1>8. CASE u = t /\ (spin_free(t) \/ spin_fat(t) \/ spin_owned(t))
  BY Zenon, <1>1, <1>5, <1>8
     DEF spin_free, spin_fat, spin_owned, StageOf, FatTry, Success, Goto, FreshOf, TypeInv
<1>9. CASE u = t /\ Unreserve(t)
  BY Zenon, <1>1, <1>5, <1>9
     DEF Unreserve, unreserve_read, unreserve_suspend, unreserve_wait, unreserve_cas,
         unreserve_resume, UnreserveReturns, Goto, FreshOf, TypeInv, StageOf, UnreserveLabels
<1>10. CASE u = t /\ (fast_enter(t) \/ recursion_inc(t) \/ overflow(t) \/ exit(t) \/ fast_exit(t))
  BY <1>1, <1>10
     DEF fast_enter, recursion_inc, overflow, exit, fast_exit, FatTry, Success, Goto, FreshOf,
         TypeInv
<1>11. CASE /\ u = t
            /\ \/ enter(t) \/ begin_wait(t) \/ wait_returns(t) \/ die(t) \/ wait(t) \/ safe_point(t)
               \/ block(t) \/ woken(t) \/ unreserve_self(t) \/ fatten(t)
  BY <1>1, <1>11
     DEF enter, begin_wait, wait_returns, die, wait, safe_point, block, woken,
         unreserve_self, fatten,
         Goto, FreshOf, TypeInv
<1> QED
  BY Zenon, <1>3, <1>6, <1>7, <1>8, <1>9, <1>10, <1>11 DEF Acts, Step

\* The stronger invariant, with two threads.
LEMMA PairInvariance == ASSUME TwoThreads PROVE Spec => []PairInv
<1>1. Init => PairInv
  <2>1. ASSUME Init, NEW t \in Threads PROVE CountOf(t) /\ FreshOf(t)
    BY Zenon, <2>1, BoundsAssumption DEF Init, CountOf, FreshOf, get_recursion
  <2> QED
    BY Zenon, <2>1, InitInv DEF PairInv
<1>2. PairInv /\ [Next]_vars => PairInv'
  <2>1. ASSUME PairInv, UNCHANGED vars PROVE PairInv'
    <3>1. IInv'
      BY Zenon, <2>1, NextInv DEF PairInv
    <3> QED
      BY Zenon, <2>1, <3>1 DEF PairInv, CountOf, FreshOf, get_recursion, vars, control, locals
  <2>2. ASSUME PairInv, NEW t \in Threads, Acts(t) PROVE PairInv'
    <3>1. IInv' /\ Framed(t)
      BY Zenon, <2>2, ActsInv DEF PairInv
    <3> QED
      BY Zenon, <2>2, <3>1, OthersCount, ActsCount, ActsFresh DEF PairInv
  <2> QED
    BY Zenon, <2>1, <2>2 DEF Next, Acts
<1> QED
  BY <1>1, <1>2, PTL DEF Spec

\* Two threads lose no exit and no entry: between two operations the lock is held exactly as
\* often as it was entered and not exited.  With three the stale reservation breaks this.
THEOREM PairExitsMatch == ASSUME TwoThreads PROVE Spec => []ExitsMatchEntries
<1>1. PairInv => ExitsMatchEntries
  BY Zenon DEF PairInv, CountOf, ExitsMatchEntries
<1> QED
  BY <1>1, PairInvariance, PTL

\* With two threads the type invariant holds: no thread exits more often than it entered.
THEOREM PairTypeCorrect == ASSUME TwoThreads PROVE Spec => []TypeOK
<1>1. PairInv => TypeOK
  <2> SUFFICES ASSUME PairInv PROVE TypeOK
    BY Zenon
  <2>1. TypeInv
    BY Zenon DEF PairInv, IInv
  <2>2. ASSUME NEW t \in Threads PROVE depth[t] \in 0 .. MaxCalls
    <3>1. depth[t] \in Int /\ calls \in 0 .. MaxCalls /\ depth[t] <= calls
      <4>1. StageOf(t)
        BY Zenon DEF PairInv, IInv
      <4> QED
        BY <2>1, <4>1 DEF TypeInv, StageOf
    <3>2. get_recursion(t) \in Nat /\ saved[t] \in Nat
      <4>1. saved \in [Threads -> Nat] /\ word \in LockWords /\ TypeInv
        BY Zenon, <2>1 DEF TypeInv
      <4> QED
        BY <4>1 DEF get_recursion, LockWords, TypeInv
    <3>3. depth[t] >= 0
      <4>1. depth[t] \in {saved[t], get_recursion(t)}
        BY Zenon DEF PairInv, CountOf
      <4> QED
        BY <3>2, <4>1
    <3> QED
      BY <3>1, <3>3, BoundsAssumption
  <2> QED
    BY Zenon, <2>1, <2>2 DEF TypeInv, TypeOK, Attempts
<1> QED
  BY <1>1, PairInvariance, PTL
=============================================================================
