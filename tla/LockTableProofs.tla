--------------------------- MODULE LockTableProofs ---------------------------
(***************************************************************************)
(* The theorems about LockTable, for any number of threads, objects, table *)
(* entries and spurious wake-ups.                                          *)
(***************************************************************************)
EXTENDS LockTable, FiniteSetTheorems, TLAPS

-----------------------------------------------------------------------------
(* The search for a free entry *)

\* A nonempty set of natural numbers has a least element.
LEMMA LeastExists ==
  ASSUME NEW T, T \subseteq Nat, T # {}
  PROVE  \E x \in T : \A y \in T : x <= y
<1> DEFINE R == OpToRel(<, Nat)
<1>1. \E x \in T : \A y \in T : ~(<<y, x>> \in R)
  <2>1. IsWellFoundedOn(R, Nat)
    BY Zenon, NatLessThanWellFounded
  <2> HIDE DEF R
  <2> QED
    BY Zenon, <2>1, WFMin
<1>2. \A x, y \in Nat : <<y, x>> \in R <=> y < x
  BY Zenon DEF OpToRel
<1>3. PICK x \in T : \A y \in T : ~(<<y, x>> \in R)
  BY Zenon, <1>1
<1> HIDE DEF R
<1>4. ASSUME NEW y \in T PROVE x <= y
  <2>1. ~(<<y, x>> \in R) /\ x \in Nat /\ y \in Nat
    BY Zenon, <1>3
  <2>2. ~(y < x)
    BY Zenon, <1>2, <2>1
  <2> QED
    BY <2>1, <2>2
<1> QED
  BY Zenon, <1>4

\* The bounds of a remainder.
LEMMA RemainderBound == ASSUME NEW a \in Nat, NEW b \in Nat \ {0} PROVE a % b \in 0 .. b - 1
OBVIOUS

\* The limit of the table is a positive number.
LEMMA MaxLocks == HY_MAX_FAT_LOCKS \in Nat \ {0}
BY TableAssumption DEF HY_MAX_FAT_LOCKS

\* The search from the cursor on ends at a free entry when there is one.
LEMMA FirstFreeIsFree ==
  ASSUME TypeInv, HasFree
  PROVE  FirstFree \in 0 .. size - 1 /\ tables[FirstFree] = NoMonitor
<1>1. size \in Nat \ {0} /\ array_cursor \in Nat
  BY MaxLocks DEF TypeInv
<1>2. PICK k \in 0 .. size - 1 : \A y \in 0 .. size - 1 : FreeAt(y) => FreeAt(k) /\ k <= y
  <2> DEFINE T == {k \in 0 .. size - 1 : FreeAt(k)}
  <2>1. T \subseteq Nat /\ T # {}
    BY <1>1 DEF HasFree
  <2> HIDE DEF T
  <2>2. \E x \in T : \A y \in T : x <= y
    BY Zenon, <2>1, LeastExists
  <2> QED
    BY Zenon, <2>2 DEF T
<1>3. FreeAt(k) /\ \A j \in 0 .. k - 1 : ~FreeAt(j)
  BY <1>1, <1>2 DEF HasFree
<1>4. \E l \in 0 .. size - 1 : FirstFree = Visit(l) /\ FreeAt(l)
  BY Zenon, <1>3 DEF FirstFree
<1> QED
  BY <1>1, <1>4, RemainderBound DEF Visit, FreeAt

-----------------------------------------------------------------------------
(* The allocation of a monitor *)

\* A function has no more values than arguments.
LEMMA RangeBound ==
  ASSUME NEW S, IsFiniteSet(S), NEW f, DOMAIN f = S, f = [x \in S |-> f[x]]
  PROVE  /\ IsFiniteSet({f[x] : x \in S})
         /\ Cardinality({f[x] : x \in S}) <= Cardinality(S)
<1> DEFINE T == {f[x] : x \in S}
<1>1. f \in Surjection(S, T)
  BY Zenon DEF Surjection
<1> HIDE DEF T
<1>2. IsFiniteSet(T) /\ Cardinality(T) <= Cardinality(S)
  BY Zenon, <1>1, FS_Surjection
<1> QED
  BY Zenon, <1>2 DEF T

\* There is a monitor left for whoever is about to create one.
LEMMA FreshMonitor ==
  ASSUME TypeInv, NEW t \in Inflaters, fat_monitor[t] = NoMonitor
  PROVE  NewMonitor \in Monitors
<1> DEFINE Stored == {tables[i] : i \in Ids}
           Rest == Inflaters \ {t}
           f == [s \in Rest |-> fat_monitor[s]]
           Local == {f[s] : s \in Rest}
<1>1. IsFiniteSet(Ids) /\ Cardinality(Ids) = HY_MAX_FAT_LOCKS
  BY FS_Interval, MaxLocks DEF Ids
<1>2. IsFiniteSet(Stored) /\ Cardinality(Stored) <= HY_MAX_FAT_LOCKS
  BY <1>1, RangeBound DEF TypeInv
<1>3. IsFiniteSet(Rest) /\ Cardinality(Rest) = Cardinality(Inflaters) - 1
  BY Zenon, FiniteAssumption, FS_RemoveElement
<1>4. IsFiniteSet(Local) /\ Cardinality(Local) <= Cardinality(Inflaters) - 1
  <2> HIDE DEF Rest
  <2> QED
    BY Zenon, <1>3, RangeBound
<1>5. /\ Cardinality(Inflaters) \in Nat /\ Cardinality(Monitors) \in Nat
      /\ Cardinality(Stored) \in Nat /\ Cardinality(Local) \in Nat
  BY Zenon, <1>2, <1>4, FiniteAssumption, FS_CardinalityType
<1>6. IsFiniteSet(Stored \cup Local) /\ Cardinality(Stored \cup Local) < Cardinality(Monitors)
  <2> HIDE DEF Stored, Local
  <2>1. IsFiniteSet(Stored \cap Local) /\ Cardinality(Stored \cap Local) \in Nat
    BY Zenon, <1>2, FS_Intersection, FS_CardinalityType
  <2>2. /\ IsFiniteSet(Stored \cup Local)
        /\ Cardinality(Stored \cup Local)
             = Cardinality(Stored) + Cardinality(Local) - Cardinality(Stored \cap Local)
    BY Zenon, <1>2, <1>4, FS_Union
  <2> QED
    BY <1>2, <1>4, <1>5, <2>1, <2>2, MonitorsAssumption, MaxLocks DEF HY_MAX_FAT_LOCKS
<1>7. ~(Monitors \subseteq Stored \cup Local)
  <2> HIDE DEF Stored, Local
  <2> QED
    BY <1>5, <1>6, FS_Subset, FS_CardinalityType
<1>8. PICK m \in Monitors : m \notin Stored \cup Local
  BY Zenon, <1>7
<1>9. (\A i \in Ids : tables[i] # m) /\ \A s \in Inflaters : fat_monitor[s] # m
  BY Zenon, <1>8, NamesAssumption
<1> QED
  BY Zenon, <1>9 DEF NewMonitor

-----------------------------------------------------------------------------
(* The reader-writer lock *)

\* The waiting writers are finitely many.
LEMMA ThreadsFinite ==
  IsFiniteSet(WritersWaiting) /\ Cardinality(WritersWaiting) \in Nat /\ IsFiniteSet(Threads)
<1>1. IsFiniteSet(Threads)
  BY Zenon, FiniteAssumption, FS_Union, FS_Singleton DEF Threads
<1>2. WritersWaiting \subseteq Threads
  BY Zenon DEF WritersWaiting
<1>3. IsFiniteSet(WritersWaiting)
  BY Zenon, <1>1, <1>2, FS_Subset
<1> QED
  BY Zenon, <1>1, <1>3, FS_CardinalityType

\* A step of t that stays inside its write section, or outside of all sections.
LEMMA LockKept ==
  ASSUME IInv, NEW t \in Threads, NEW l, Goto(t, l), UNCHANGED <<rwlock, spurious>>,
         \/ InWrite(t) /\ l \in {"p_store", "w_exit"}
         \/ pc[t] \in {"idle", "publish", "resume"} /\ l \in {"idle", "w_enter", "r_enter"}
  PROVE  LockInv'
<1>1. TypeInv /\ LockInv
  BY Zenon DEF IInv
<1>2. pc[t] \notin {"w_wait", "r_body"} /\ l \notin {"w_wait", "r_body"}
  BY Zenon DEF InWrite
<1>3. \A s \in Threads : pc'[s] = IF s = t THEN l ELSE pc[s]
  BY Zenon, <1>1 DEF TypeInv, Goto
<1>4. WritersWaiting' = WritersWaiting
  BY Zenon, <1>2, <1>3 DEF WritersWaiting
<1>5. \A s \in Threads : Holds(s)' <=> Holds(s)
  BY Zenon, <1>2, <1>3 DEF Holds, InWrite, rwlock
<1>6. pc'[Reclaimer] = "r_body" <=> pc[Reclaimer] = "r_body"
  BY Zenon, <1>2, <1>3 DEF Threads
<1> QED
  BY Zenon, <1>1, <1>4, <1>5, <1>6 DEF LockInv, rwlock

\* While the collecting thread reads, and while it sweeps, the others are idle.
LEMMA OthersIdle ==
  ASSUME WorldInv, world = "reclaiming", NEW t \in Threads \ {Reclaimer}
  PROVE  pc[t] = "idle"
BY Zenon DEF WorldInv, Threads

\* The lock after locktable_writer_enter, whether the writer gets in or waits.
LEMMA WriterEnterLock ==
  ASSUME IInv, NEW t \in Threads, locktable_writer_enter(t)
  PROVE  LockInv'
<1>1. TypeInv /\ WorldInv /\ LockInv /\ pc[t] = "w_enter" /\ spurious' = spurious
  BY Zenon DEF IInv, locktable_writer_enter, At
<1>2. CASE state # IDLE
  <2>1. \A s \in Threads : pc'[s] = IF s = t THEN "w_wait" ELSE pc[s]
    BY Zenon, <1>1, <1>2 DEF locktable_writer_enter, TypeInv, Goto
  <2>2. WritersWaiting' = WritersWaiting \cup {t} /\ t \notin WritersWaiting
    BY Zenon, <1>1, <2>1 DEF WritersWaiting
  <2>3. write' = write \cup {t} /\ writers_waiting' = writers_waiting + 1 /\ state' = state
    BY Zenon, <1>2 DEF locktable_writer_enter
  <2>4. Cardinality(WritersWaiting') = Cardinality(WritersWaiting) + 1
    BY Zenon, <2>2, ThreadsFinite, FS_AddElement
  <2>5. \A s \in Threads : Holds(s)' <=> Holds(s)
    BY Zenon, <1>1, <2>1, <2>3 DEF Holds, InWrite
  <2>6. pc'[Reclaimer] = "r_body" <=> pc[Reclaimer] = "r_body"
    BY Zenon, <1>1, <2>1 DEF Threads
  <2> QED
    BY Zenon, <1>1, <2>2, <2>3, <2>4, <2>5, <2>6 DEF LockInv
<1>3. CASE state = IDLE
  <2>1. \A s \in Threads : pc'[s] = IF s = t THEN "w_body" ELSE pc[s]
    BY Zenon, <1>1, <1>3 DEF locktable_writer_enter, TypeInv, Goto
  <2>2. WritersWaiting' = WritersWaiting
    BY Zenon, <1>1, <2>1 DEF WritersWaiting
  <2>3. write' = write /\ writers_waiting' = writers_waiting /\ state' = WRITING
    BY Zenon, <1>3 DEF locktable_writer_enter
  <2>4. \A s \in Threads : Holds(s)' <=> Holds(s) \/ s = t
    BY Zenon, <1>1, <2>1, <2>3 DEF Holds, InWrite
  <2>5. pc'[Reclaimer] # "r_body"
    BY Zenon, <1>1, <1>3, <2>1 DEF Threads, LockInv, IDLE, READING
  <2> QED
    BY Zenon, <1>1, <1>3, <2>2, <2>3, <2>4, <2>5 DEF LockInv, IDLE, READING, WRITING
<1> QED
  BY Zenon, <1>2, <1>3

\* The lock is idle when the collecting thread comes to read.
LEMMA ReaderFindsIdle ==
  ASSUME IInv, pc[Reclaimer] = "r_enter"
  PROVE  state = IDLE /\ writers_waiting = 0 /\ \A t \in Threads : ~Holds(t)
<1>1. TypeInv /\ WorldInv /\ LockInv /\ world = "reclaiming"
  BY Zenon DEF IInv, WorldInv
<1>2. \A t \in Threads : pc[t] \in {"idle", "r_enter"}
  BY Zenon, <1>1, OthersIdle
<1>3. WritersWaiting = {} /\ \A t \in Threads : ~Holds(t)
  BY Zenon, <1>2 DEF WritersWaiting, Holds, InWrite
<1> QED
  BY Zenon, <1>1, <1>3, FS_EmptySet DEF LockInv, TypeInv

\* The lock after locktable_reader_enter: the collecting thread never has to wait.
LEMMA ReaderEnterLock ==
  ASSUME IInv, NEW t \in Threads, locktable_reader_enter(t)
  PROVE  /\ t = Reclaimer /\ state' = READING /\ readers_reading' = 1 /\ Goto(t, "r_body")
         /\ UNCHANGED <<readers_waiting, read>> /\ LockInv'
<1>1. TypeInv /\ WorldInv /\ LockInv /\ pc[t] = "r_enter" /\ spurious' = spurious
  BY Zenon DEF IInv, locktable_reader_enter, At
<1>2. t = Reclaimer
  BY Zenon, <1>1 DEF WorldInv, Threads
<1>3. state = IDLE /\ \A s \in Threads : ~Holds(s)
  BY Zenon, <1>1, <1>2, ReaderFindsIdle
<1>4. /\ state' = READING /\ readers_reading' = 1 /\ Goto(t, "r_body")
      /\ UNCHANGED <<readers_waiting, read, write, writers_waiting>>
  BY <1>1, <1>2, <1>3 DEF locktable_reader_enter, TypeInv
<1>5. \A s \in Threads : pc'[s] = IF s = t THEN "r_body" ELSE pc[s]
  BY Zenon, <1>1, <1>4 DEF TypeInv, Goto
<1>6. WritersWaiting' = WritersWaiting /\ \A s \in Threads : ~Holds(s)'
  BY Zenon, <1>1, <1>3, <1>4, <1>5 DEF WritersWaiting, Holds, InWrite
<1> QED
  BY Zenon, <1>1, <1>2, <1>4, <1>5, <1>6 DEF LockInv, IDLE, READING, WRITING

\* The lock after the wait of a writer has returned; nothing is looked at again.
LEMMA WaitReturnsLock ==
  ASSUME IInv, NEW t \in Threads, wait_returns(t)
  PROVE  pc[t] = "w_wait" /\ Goto(t, "w_body") /\ LockInv' /\ writers_waiting' \in Nat
<1>1. /\ TypeInv /\ WorldInv /\ LockInv /\ spurious' = spurious
      /\ UNCHANGED <<state, readers_reading, readers_waiting, read, write>>
  BY Zenon DEF IInv, wait_returns
<1>2. pc[t] = "w_wait" /\ t \notin write /\ Goto(t, "w_body")
  BY Zenon, <1>1 DEF wait_returns, At, WorldInv, Threads
<1>3. \A s \in Threads : pc'[s] = IF s = t THEN "w_body" ELSE pc[s]
  BY Zenon, <1>1, <1>2 DEF TypeInv, Goto
<1>4. WritersWaiting' = WritersWaiting \ {t} /\ t \in WritersWaiting
  BY Zenon, <1>2, <1>3 DEF WritersWaiting
<1>5. writers_waiting' = Cardinality(WritersWaiting') /\ writers_waiting' \in Nat
  <2>1. Cardinality(WritersWaiting \ {t}) = Cardinality(WritersWaiting) - 1
    BY Zenon, <1>4, ThreadsFinite, FS_RemoveElement
  <2>2. Cardinality(WritersWaiting \ {t}) \in Nat
    BY Zenon, <1>4, ThreadsFinite, FS_RemoveElement, FS_CardinalityType
  <2>3. writers_waiting' = writers_waiting - 1
    BY Zenon, <1>2 DEF wait_returns
  <2> QED
    BY Zenon, <1>1, <1>4, <2>1, <2>2, <2>3 DEF LockInv
<1>6. \A s \in Threads : Holds(s)' <=> Holds(s)
  BY Zenon, <1>1, <1>2, <1>3 DEF Holds, InWrite
<1>7. pc'[Reclaimer] = "r_body" <=> pc[Reclaimer] = "r_body"
  BY Zenon, <1>2, <1>3 DEF Threads
<1>8. write' \subseteq WritersWaiting'
  BY Zenon, <1>1, <1>2, <1>4 DEF LockInv
<1> QED
  BY Zenon, <1>1, <1>2, <1>5, <1>6, <1>7, <1>8 DEF LockInv

\* The lock after a wait has returned with no notification.
LEMMA SpuriousLock ==
  ASSUME IInv, NEW t \in Threads, spurious_wakeup(t)
  PROVE  LockInv' /\ write' = write \ {t} /\ read' = {} /\ spurious' \in 1 .. MaxSpurious
<1>1. TypeInv /\ LockInv
  BY Zenon DEF IInv
<1>2. /\ write' = write \ {t} /\ read' = {} /\ spurious' \in 1 .. MaxSpurious
      /\ UNCHANGED <<state, writers_waiting, pc>>
  BY <1>1, NamesAssumption DEF spurious_wakeup, TypeInv
<1>3. WritersWaiting' = WritersWaiting /\ \A s \in Threads : Holds(s) => Holds(s)'
  BY Zenon, <1>2 DEF WritersWaiting, Holds, InWrite
<1> QED
  BY <1>1, <1>2, <1>3 DEF LockInv

\* The counter of waiting writers is exact: when it is zero there are none.
LEMMA NobodyWaits ==
  ASSUME LockInv, ~(writers_waiting > 0)
  PROVE  WritersWaiting = {}
BY ThreadsFinite, FS_EmptySet DEF LockInv

\* Whoever leaves the write section leaves the lock to a waiter, or free.
LEMMA WriterExitLock ==
  ASSUME IInv, NEW t \in Threads, locktable_writer_exit(t)
  PROVE  /\ LockInv' /\ write' \subseteq write /\ state' \in {state, IDLE}
         /\ UNCHANGED <<readers_reading, readers_waiting, writers_waiting, read>>
<1> DEFINE l == IF t \in Inflaters THEN "publish"
                ELSE IF t \in Collectors THEN "idle" ELSE "resume"
<1>1. /\ TypeInv /\ WorldInv /\ LockInv /\ pc[t] = "w_exit" /\ spurious' = spurious
      /\ writer_release /\ Goto(t, l)
  BY Zenon DEF IInv, locktable_writer_exit, At
<1>2. pc[Reclaimer] # "r_body"
  BY Zenon, <1>1, OthersIdle DEF WorldInv
<1>3. readers_reading = 0 /\ state \in {IDLE, WRITING}
  BY Zenon, <1>1, <1>2 DEF TypeInv, LockInv
<1>4. /\ IF writers_waiting > 0 THEN notify_one(write, write') /\ UNCHANGED state
         ELSE state' = IDLE /\ UNCHANGED write
      /\ UNCHANGED <<readers_reading, readers_waiting, writers_waiting, read>>
  BY <1>1, <1>3 DEF writer_release
<1>5. l \in {"publish", "idle", "resume"} /\ \A s \in Threads : pc'[s] = IF s = t THEN l ELSE pc[s]
  BY Zenon, <1>1 DEF TypeInv, Goto
<1>6. pc'[Reclaimer] # "r_body"
  BY Zenon, <1>2, <1>5 DEF Threads
<1> HIDE DEF l
<1>7. WritersWaiting' = WritersWaiting
  BY Zenon, <1>1, <1>5 DEF WritersWaiting
<1>8. Holds(t) /\ ~Holds(t)'
  BY Zenon, <1>1, <1>5 DEF Holds, InWrite
<1>9. CASE writers_waiting > 0
  <2>1. WritersWaiting # {}
    BY <1>1, <1>9, FS_EmptySet DEF LockInv
  <2>2. CASE write = {}
    <3>1. write' = {} /\ state' = state
      BY Zenon, <1>4, <1>9, <2>2 DEF notify_one
    <3>2. PICK w \in Threads : pc[w] = "w_wait"
      BY Zenon, <2>1 DEF WritersWaiting
    <3>3. Holds(w) /\ Holds(w)' /\ w # t
      BY Zenon, <1>1, <1>5, <2>2, <3>1, <3>2 DEF Holds
    <3>4. spurious # 0
      BY Zenon, <1>1, <1>8, <3>3 DEF LockInv
    <3> QED
      BY Zenon, <1>1, <1>3, <1>4, <1>6, <1>7, <3>1, <3>3, <3>4 DEF LockInv, IDLE, READING, WRITING
  <2>3. CASE write # {}
    <3>1. PICK w \in write : write' = write \ {w} /\ state' = state
      BY Zenon, <1>4, <1>9, <2>3 DEF notify_one
    <3>2. w \in Threads /\ pc[w] = "w_wait" /\ w # t
      BY Zenon, <1>1, <3>1 DEF LockInv, WritersWaiting
    <3>3. \A s \in Threads : Holds(s)' <=> (Holds(s) /\ s # t) \/ s = w
      BY Zenon, <1>1, <1>5, <3>1, <3>2 DEF Holds, InWrite
    <3>4. spurious = 0 => state = WRITING /\ \A s \in Threads : Holds(s)' <=> s = w
      BY Zenon, <1>1, <1>3, <1>8, <3>3 DEF LockInv
    <3> QED
      BY Zenon, <1>1, <1>3, <1>4, <1>6, <1>7, <3>1, <3>2, <3>3, <3>4
         DEF LockInv, IDLE, READING, WRITING
  <2> QED
    BY Zenon, <2>2, <2>3
<1>10. CASE ~(writers_waiting > 0)
  <2>1. WritersWaiting = {} /\ write' = write /\ state' = IDLE
    BY Zenon, <1>1, <1>4, <1>10, NobodyWaits
  <2>2. spurious = 0 => \A s \in Threads : ~Holds(s)'
    BY Zenon, <1>1, <1>5, <1>7, <1>8, <2>1 DEF LockInv, Holds, InWrite, WritersWaiting
  <2> QED
    BY Zenon, <1>1, <1>4, <1>6, <1>7, <2>1, <2>2 DEF LockInv, IDLE, READING, WRITING
<1> QED
  BY Zenon, <1>9, <1>10

\* The collecting thread leaves the read section: no writer is waiting.
LEMMA ReclaimTestLock ==
  ASSUME IInv, reclaim_test
  PROVE  /\ LockInv' /\ state' = IDLE /\ readers_reading' = 0
         /\ UNCHANGED <<readers_waiting, writers_waiting, read, write>>
<1> DEFINE l == IF live_objs_were_reported THEN "w_enter" ELSE "resume"
<1>1. /\ TypeInv /\ WorldInv /\ LockInv /\ pc[Reclaimer] = "r_body" /\ spurious' = spurious
      /\ reader_release /\ Goto(Reclaimer, l) /\ Reclaimer \in Threads
  BY Zenon DEF IInv, reclaim_test, At, Threads
<1>2. \A t \in Threads : pc[t] \in {"idle", "r_body"}
  BY Zenon, <1>1, OthersIdle DEF WorldInv
<1>3. WritersWaiting = {} /\ \A t \in Threads : ~Holds(t)
  BY Zenon, <1>2 DEF WritersWaiting, Holds, InWrite
<1>4. writers_waiting = 0
  BY Zenon, <1>1, <1>3, FS_EmptySet DEF LockInv
<1>5. /\ state' = IDLE /\ readers_reading' = 0
      /\ UNCHANGED <<readers_waiting, writers_waiting, read, write>>
  BY <1>1, <1>4 DEF reader_release, TypeInv
<1>6. l \in {"w_enter", "resume"} /\ \A s \in Threads : pc'[s] = IF s = Reclaimer THEN l ELSE pc[s]
  BY Zenon, <1>1 DEF TypeInv, Goto
<1> HIDE DEF l
<1>7. WritersWaiting' = WritersWaiting /\ \A t \in Threads : ~Holds(t)'
  BY Zenon, <1>1, <1>2, <1>6 DEF WritersWaiting, Holds, InWrite
<1> QED
  BY Zenon, <1>1, <1>5, <1>6, <1>7 DEF LockInv, IDLE, READING, WRITING

-----------------------------------------------------------------------------
(* The steps of the reader-writer lock *)

\* Entering a section changes nothing but the lock and the label.
LEMMA EnterKeeps ==
  ASSUME IInv, NEW t \in Threads, NEW l, Goto(t, l),
         \/ pc[t] \in {"w_enter", "w_wait"} /\ l \in {"w_wait", "w_body"}
         \/ pc[t] = "r_enter" /\ l = "r_body",
         UNCHANGED <<locktable, locals, heap, collection, exited, spurious>>
  PROVE  WorldInv' /\ InflateInv' /\ EntryInv' /\ MarkInv'
<1>1. TypeInv /\ WorldInv /\ InflateInv /\ EntryInv /\ MarkInv
  BY Zenon DEF IInv
<1>2. \A s \in Threads : pc'[s] = IF s = t THEN l ELSE pc[s]
  BY Zenon, <1>1 DEF TypeInv, Goto
<1>3. WorldInv'
  BY Zenon, <1>1, <1>2 DEF WorldInv, Threads, collection
<1>4. InflateInv'
  BY <1>1, <1>2 DEF InflateInv, Threads, locktable, locals, heap
<1>5. FatLocked' = FatLocked
  BY Zenon DEF FatLocked, heap
<1>6. EntryInv'
  BY Zenon, <1>1, <1>5 DEF EntryInv, locktable, heap
<1>7. pc'[Reclaimer] \in {"w_exit", "resume"} <=> pc[Reclaimer] \in {"w_exit", "resume"}
  BY Zenon, <1>2 DEF Threads
<1>8. pc'[Reclaimer] = "w_exit" <=> pc[Reclaimer] = "w_exit"
  BY Zenon, <1>2 DEF Threads
<1>9. pc'[Reclaimer] \in {"w_enter", "w_wait", "w_body"} =>
        pc[Reclaimer] \in {"w_enter", "w_wait", "w_body"}
  BY Zenon, <1>2 DEF Threads
<1>10. \A c \in Collectors :
         (pc'[c] # "idle" <=> pc[c] # "idle") /\ (pc'[c] = "w_exit" <=> pc[c] = "w_exit")
  BY Zenon, <1>2 DEF Threads
<1>11. MarkInv'
  BY Zenon, <1>1, <1>5, <1>7, <1>8, <1>9, <1>10 DEF MarkInv, locktable, locals, heap, collection
<1> QED
  BY Zenon, <1>3, <1>4, <1>6, <1>11

\* A writer enters, or waits.
LEMMA WriterEnterInv ==
  ASSUME IInv, NEW t \in Threads, locktable_writer_enter(t)
  PROVE  IInv'
<1>1. TypeInv /\ pc[t] = "w_enter"
  BY Zenon DEF IInv, locktable_writer_enter, At
<1>2. PICK l \in {"w_wait", "w_body"} : Goto(t, l)
  BY Zenon DEF locktable_writer_enter
<1>3. WorldInv' /\ InflateInv' /\ EntryInv' /\ MarkInv'
  BY Zenon, <1>1, <1>2, EnterKeeps DEF locktable_writer_enter
<1>4. /\ state' \in {state, WRITING} /\ writers_waiting' \in Nat /\ write' \subseteq Threads
      /\ pc' \in [Threads -> Labels]
      /\ UNCHANGED <<readers_reading, readers_waiting, read, locktable, locals, heap, collection,
                     exited, spurious>>
  BY <1>1, <1>2 DEF locktable_writer_enter, TypeInv, Goto, Labels
<1>5. pc'[Reclaimer] = "r_body" <=> pc[Reclaimer] = "r_body"
  BY Zenon, <1>1, <1>2 DEF TypeInv, Goto, Threads
<1>6. TypeInv'
  BY Zenon, <1>1, <1>4, <1>5 DEF TypeInv, locktable, locals, heap, collection
<1> QED
  BY Zenon, <1>3, <1>6, WriterEnterLock DEF IInv

\* The collecting thread enters the read section.
LEMMA ReaderEnterInv ==
  ASSUME IInv, NEW t \in Threads, locktable_reader_enter(t)
  PROVE  IInv'
<1>1. TypeInv /\ pc[t] = "r_enter"
  BY Zenon DEF IInv, locktable_reader_enter, At
<1>2. /\ t = Reclaimer /\ state' = READING /\ readers_reading' = 1 /\ Goto(t, "r_body")
      /\ UNCHANGED <<readers_waiting, read>> /\ LockInv'
  BY Zenon, ReaderEnterLock
<1>3. WorldInv' /\ InflateInv' /\ EntryInv' /\ MarkInv'
  BY Zenon, <1>1, <1>2, EnterKeeps DEF locktable_reader_enter
<1>4. pc' \in [Threads -> Labels] /\ pc'[Reclaimer] = "r_body"
  BY Zenon, <1>1, <1>2 DEF TypeInv, Goto, Labels
<1>5. TypeInv'
  BY Zenon, <1>1, <1>2, <1>4
     DEF locktable_reader_enter, TypeInv, locktable, locals, heap, collection
<1> QED
  BY Zenon, <1>2, <1>3, <1>5 DEF IInv

\* A writer goes on after its wait.
LEMMA WaitReturnsInv ==
  ASSUME IInv, NEW t \in Threads, wait_returns(t)
  PROVE  IInv'
<1>1. TypeInv /\ pc[t] = "w_wait" /\ Goto(t, "w_body") /\ LockInv' /\ writers_waiting' \in Nat
  BY Zenon, WaitReturnsLock DEF IInv
<1>2. WorldInv' /\ InflateInv' /\ EntryInv' /\ MarkInv'
  BY Zenon, <1>1, EnterKeeps DEF wait_returns
<1>3. /\ pc' \in [Threads -> Labels]
      /\ pc'[Reclaimer] = "r_body" <=> pc[Reclaimer] = "r_body"
  BY Zenon, <1>1 DEF TypeInv, Goto, Labels, Threads
<1>4. TypeInv'
  BY Zenon, <1>1, <1>3 DEF wait_returns, TypeInv, locktable, locals, heap, collection
<1> QED
  BY Zenon, <1>1, <1>2, <1>4 DEF IInv

\* A wait returns with no notification.
LEMMA SpuriousInv ==
  ASSUME IInv, NEW t \in Threads, spurious_wakeup(t)
  PROVE  IInv'
<1>1. TypeInv /\ WorldInv /\ InflateInv /\ EntryInv /\ MarkInv
  BY Zenon DEF IInv
<1>2. LockInv' /\ write' = write \ {t} /\ read' = {} /\ spurious' \in 1 .. MaxSpurious
  BY Zenon, SpuriousLock
<1>3. /\ UNCHANGED <<pc, locktable, locals, heap, collection, exited>>
      /\ UNCHANGED <<state, readers_reading, readers_waiting, writers_waiting>>
  BY Zenon DEF spurious_wakeup
<1>4. TypeInv'
  BY <1>1, <1>2, <1>3 DEF TypeInv, locktable, locals, heap, collection
<1>5. WorldInv'
  BY Zenon, <1>1, <1>3 DEF WorldInv, collection
<1>6. spurious' # 0
  BY <1>2
<1>7. InflateInv'
  BY Zenon, <1>1, <1>3, <1>6 DEF InflateInv, locktable, locals, heap
<1>8. FatLocked' = FatLocked
  BY Zenon, <1>3 DEF FatLocked, heap
<1>9. EntryInv'
  BY Zenon, <1>1, <1>3, <1>6, <1>8 DEF EntryInv, locktable, heap
<1>10. MarkInv'
  BY Zenon, <1>1, <1>3, <1>8 DEF MarkInv, locktable, locals, heap, collection
<1> QED
  BY Zenon, <1>2, <1>4, <1>5, <1>7, <1>9, <1>10 DEF IInv

\* A writer leaves.
LEMMA WriterExitInv ==
  ASSUME IInv, NEW t \in Threads, locktable_writer_exit(t)
  PROVE  IInv'
<1>1. /\ TypeInv /\ WorldInv /\ InflateInv /\ EntryInv /\ MarkInv /\ pc[t] = "w_exit"
      /\ UNCHANGED <<world, kind, fat_monitor, locktable, heap, exited, spurious>>
  BY Zenon DEF IInv, locktable_writer_exit, At
<1>2. /\ LockInv' /\ write' \subseteq write /\ state' \in {state, IDLE}
      /\ UNCHANGED <<readers_reading, readers_waiting, writers_waiting, read>>
  BY Zenon, WriterExitLock
<1>3. /\ Goto(t, IF t \in Inflaters THEN "publish"
                 ELSE IF t \in Collectors THEN "idle" ELSE "resume")
      /\ unreported' = IF t \in Collectors THEN unreported \ {obj[t]} ELSE unreported
      /\ obj' = IF t \in Collectors THEN [obj EXCEPT ![t] = NoObject] ELSE obj
      /\ mon_index' = IF t \in Collectors THEN [mon_index EXCEPT ![t] = 0] ELSE mon_index
  BY Zenon DEF locktable_writer_exit
<1>4. size \in Nat \ {0} /\ size' = size /\ tables' = tables /\ live_objs' = live_objs
      /\ live_objs_were_reported' = live_objs_were_reported /\ array_cursor' = array_cursor
  BY <1>1, MaxLocks DEF TypeInv, locktable
<1>5. TypeInv'
  <2>1. pc' \in [Threads -> Labels] /\ (pc'[Reclaimer] = "r_body" <=> pc[Reclaimer] = "r_body")
    BY Zenon, <1>1, <1>3 DEF TypeInv, Goto, Labels, Threads
  <2>2. obj' \in [Threads -> Objects \cup {NoObject}] /\ mon_index' \in [Threads -> 0 .. size - 1]
    BY <1>1, <1>3, <1>4 DEF TypeInv
  <2> QED
    BY Zenon, <1>1, <1>2, <1>3, <1>4, <2>1, <2>2 DEF TypeInv, heap
<1>6. \A s \in Threads : s # t => pc'[s] = pc[s] /\ obj'[s] = obj[s] /\ mon_index'[s] = mon_index[s]
  BY Zenon, <1>1, <1>3 DEF TypeInv, Goto
<1>7. pc'[t] = IF t \in Inflaters THEN "publish" ELSE IF t \in Collectors THEN "idle" ELSE "resume"
  BY Zenon, <1>1, <1>3 DEF TypeInv, Goto
<1>8. WorldInv'
  BY Zenon, <1>1, <1>6, <1>7, NamesAssumption DEF WorldInv, Threads
<1>9. \A s \in Inflaters : obj'[s] = obj[s] /\ mon_index'[s] = mon_index[s]
  BY Zenon, <1>3, <1>6, NamesAssumption DEF Threads
<1>10. InflateInv'
  BY <1>1, <1>4, <1>6, <1>7, <1>9, NamesAssumption DEF InflateInv, Threads, heap
<1>11. FatLocked' = FatLocked /\ lockword' = lockword /\ made_for' = made_for
  BY Zenon, <1>1 DEF FatLocked, heap
<1>12. EntryInv'
  BY Zenon, <1>1, <1>4, <1>11 DEF EntryInv
<1>13. MarkInv'
  <2>1. CASE t \in Inflaters
    BY <1>1, <1>3, <1>4, <1>6, <1>7, <1>11, <2>1, NamesAssumption DEF MarkInv, Threads
  <2>2. CASE t \in Collectors
    <3>1. pc'[Reclaimer] = pc[Reclaimer] /\ pc'[t] = "idle" /\ unreported' = unreported \ {obj[t]}
      BY Zenon, <1>3, <1>6, <1>7, <2>2, NamesAssumption DEF Threads
    <3>2. live_objs[lockword[obj[t]]]
      BY Zenon, <1>1, <2>2 DEF MarkInv
    <3>3. \A o \in FatLocked \ unreported' : o \in FatLocked \ unreported \/ o = obj[t]
      BY Zenon, <3>1
    <3> QED
      BY <1>1, <1>4, <1>6, <1>11, <3>1, <3>2, <3>3 DEF MarkInv, Threads
  <2>3. CASE t = Reclaimer
    BY <1>1, <1>3, <1>4, <1>6, <1>7, <1>11, <2>3, NamesAssumption DEF MarkInv, Threads
  <2> QED
    BY Zenon, <2>1, <2>2, <2>3 DEF Threads
<1> QED
  BY Zenon, <1>2, <1>5, <1>8, <1>10, <1>12, <1>13 DEF IInv

-----------------------------------------------------------------------------
(* Inflation *)

\* A table more, when it is allowed, still fits under the limit.
LEMMA GrowthFits ==
  ASSUME NEW e \in Nat \ {0}, NEW m \in Nat \ {0}, NEW k \in 1 .. m, e * k < e * m
  PROVE  k + 1 \in 1 .. m /\ e * k + e = e * (k + 1) /\ e * k + e <= e * m
<1>1. k # m
  OBVIOUS
<1>2. PICK d \in Nat : m = k + 1 + d
  <2>1. m - k - 1 \in Nat /\ m = k + 1 + (m - k - 1)
    BY <1>1
  <2> QED
    BY Zenon, <2>1
<1>3. e * m = e * (k + 1) + e * d /\ e * d \in Nat
  BY <1>2
<1> QED
  BY <1>1, <1>3

\* Every thread that inflates has the world running and no collection at work.
LEMMA InflaterRuns ==
  ASSUME IInv, NEW t \in Inflaters, pc[t] # "idle"
  PROVE  /\ world = "running" /\ kind = "none" /\ pc[Reclaimer] = "idle"
         /\ \A c \in Collectors : pc[c] = "idle"
         /\ unreported = {} /\ ~live_objs_were_reported /\ \A i \in Ids : ~live_objs[i]
BY Zenon DEF IInv, WorldInv, MarkInv, TypeInv

\* With no collection at work the marks are none, whatever the heap.
LEMMA NoMarksKept ==
  ASSUME IInv, world = "running",
         UNCHANGED <<live_objs, live_objs_were_reported, collection>>,
         pc'[Reclaimer] = "idle", \A c \in Collectors : pc'[c] = "idle"
  PROVE  MarkInv'
<1>1. /\ kind = "none" /\ unreported = {} /\ ~live_objs_were_reported
      /\ \A i \in Ids : ~live_objs[i]
  BY Zenon DEF IInv, WorldInv, MarkInv, TypeInv
<1> QED
  BY Zenon, <1>1 DEF MarkInv, collection

\* A step of an inflating thread that leaves the heap and the entries alone.
LEMMA InflateLockInv ==
  ASSUME IInv, NEW t \in Inflaters, NEW o \in Objects, hythread_inflate_lock(t, o)
  PROVE  IInv'
<1>1. /\ TypeInv /\ WorldInv /\ LockInv /\ InflateInv /\ EntryInv /\ MarkInv
      /\ t \in Threads /\ pc[t] = "idle" /\ world = "running"
      /\ o \in reachable /\ lockword[o] = ThinLock /\ \A s \in Inflaters : obj[s] # o
  BY Zenon DEF IInv, hythread_inflate_lock, At, Threads
<1>2. NewMonitor \in Monitors
  BY Zenon, <1>1, FreshMonitor DEF InflateInv
<1>3. /\ obj' = [obj EXCEPT ![t] = o] /\ fat_monitor' = [fat_monitor EXCEPT ![t] = NewMonitor]
      /\ made_for' = [made_for EXCEPT ![o] = NewMonitor] /\ Goto(t, "w_enter")
      /\ UNCHANGED <<mon_index, lockword, reachable, locktable, rwlock, collection, exited,
                     spurious>>
  BY Zenon DEF hythread_inflate_lock
<1> HIDE DEF hythread_inflate_lock
<1>4. \A s \in Threads : /\ pc'[s] = IF s = t THEN "w_enter" ELSE pc[s]
                         /\ obj'[s] = IF s = t THEN o ELSE obj[s]
                         /\ fat_monitor'[s] = IF s = t THEN NewMonitor ELSE fat_monitor[s]
  BY Zenon, <1>1, <1>3 DEF TypeInv, Goto
<1>5. \A p \in Objects : made_for'[p] = IF p = o THEN NewMonitor ELSE made_for[p]
  BY Zenon, <1>1, <1>3 DEF TypeInv
<1>6. TypeInv'
  <2>1. pc' \in [Threads -> Labels] /\ (pc'[Reclaimer] = "r_body" <=> pc[Reclaimer] = "r_body")
    BY Zenon, <1>1, <1>3, NamesAssumption DEF TypeInv, Goto, Labels, Threads
  <2>2. /\ obj' \in [Threads -> Objects \cup {NoObject}]
        /\ fat_monitor' \in [Threads -> Monitors \cup {NoMonitor}]
        /\ made_for' \in [Objects -> Monitors \cup {NoMonitor}]
    BY Zenon, <1>1, <1>2, <1>3 DEF TypeInv
  <2> QED
    BY Zenon, <1>1, <1>3, <2>1, <2>2 DEF TypeInv, locktable, rwlock, collection
<1>7. WorldInv'
  BY Zenon, <1>1, <1>3, <1>4, NamesAssumption DEF WorldInv, Threads, collection
<1>8. LockInv'
  BY Zenon, <1>1, <1>3, LockKept
<1>9. InflateInv'
  <2>1. \A s \in Inflaters : s \in Threads /\ (s # t => obj[s] # o)
    BY Zenon, <1>1 DEF Threads
  <2>2. \A s \in Inflaters : pc[s] # "idle" => obj[s] \in Objects
    BY Zenon, <1>1 DEF InflateInv, TypeInv
  <2> QED
    BY <1>1, <1>2, <1>3, <1>4, <1>5, <2>1, <2>2, NamesAssumption DEF InflateInv, locktable
<1>10. FatLocked' = FatLocked /\ o \notin FatLocked /\ FatLocked \subseteq Objects
  BY Zenon, <1>1, <1>3 DEF FatLocked, TypeInv
<1>11. EntryInv'
  BY Zenon, <1>1, <1>3, <1>5, <1>10 DEF EntryInv, locktable
<1>12. MarkInv'
  <2>1. pc'[Reclaimer] = "idle" /\ \A c \in Collectors : pc'[c] = "idle"
    BY Zenon, <1>1, <1>4, NamesAssumption DEF WorldInv, Threads
  <2> QED
    BY Zenon, <1>1, <1>3, <2>1, NoMarksKept DEF locktable
<1> QED
  BY Zenon, <1>6, <1>7, <1>8, <1>9, <1>11, <1>12 DEF IInv

\* The entry is chosen: a free one, the first of a new table, or the VM gives up.
LEMMA PutSearchInv ==
  ASSUME IInv, NEW t \in Inflaters, put_search(t)
  PROVE  IInv'
<1>1. /\ TypeInv /\ WorldInv /\ LockInv /\ InflateInv /\ EntryInv /\ MarkInv
      /\ t \in Threads /\ pc[t] = "w_body" /\ size \in Nat \ {0}
      /\ UNCHANGED <<tables, live_objs, array_cursor, live_objs_were_reported>>
      /\ UNCHANGED <<obj, fat_monitor, rwlock, heap, collection, spurious>>
  BY MaxLocks DEF IInv, put_search, At, Threads, TypeInv
<1>2. /\ world = "running" /\ pc[Reclaimer] = "idle" /\ \A c \in Collectors : pc[c] = "idle"
  BY Zenon, <1>1, InflaterRuns
<1>3. FatLocked' = FatLocked
  BY Zenon, <1>1 DEF FatLocked, heap
<1>4. CASE exited' = TRUE /\ UNCHANGED <<mon_index, size, pc>>
  <2>1. TypeInv'
    BY Zenon, <1>1, <1>4 DEF TypeInv, rwlock, heap, collection
  <2>2. WorldInv' /\ InflateInv' /\ EntryInv'
    BY Zenon, <1>1, <1>3, <1>4 DEF WorldInv, InflateInv, EntryInv, heap, collection
  <2>3. LockInv'
    BY Zenon, <1>1, <1>4 DEF LockInv, rwlock, WritersWaiting, Holds, InWrite
  <2>4. MarkInv'
    BY Zenon, <1>1, <1>2, <1>4, NoMarksKept
  <2> QED
    BY Zenon, <2>1, <2>2, <2>3, <2>4 DEF IInv
<1>5. ASSUME NEW i \in Nat, mon_index' = [mon_index EXCEPT ![t] = i], Goto(t, "p_store"),
             i < size', i \in Ids, tables[i] = NoMonitor, size' \in Nat, size <= size',
             size' <= HY_MAX_FAT_LOCKS, exited' = exited,
             \E k \in 1 .. HY_MAX_FAT_TABLES : size' = HY_FAT_TABLE_ENTRIES * k
      PROVE  IInv'
  <2>1. \A s \in Threads : /\ pc'[s] = IF s = t THEN "p_store" ELSE pc[s]
                           /\ mon_index'[s] = IF s = t THEN i ELSE mon_index[s]
    BY Zenon, <1>1, <1>5 DEF TypeInv, Goto
  <2>2. pc' \in [Threads -> Labels] /\ (pc'[Reclaimer] = "r_body" <=> pc[Reclaimer] = "r_body")
    BY Zenon, <1>1, <1>5, NamesAssumption DEF TypeInv, Goto, Labels, Threads
  <2>3. mon_index' \in [Threads -> 0 .. size' - 1]
    BY <1>1, <1>5 DEF TypeInv
  <2>4. lockword' \in [Objects -> (0 .. size' - 1) \cup {ThinLock}]
    BY <1>1, <1>5 DEF TypeInv, heap
  <2>5. size' \in 1 .. HY_MAX_FAT_LOCKS /\ array_cursor' \in 0 .. size'
    BY <1>1, <1>5, MaxLocks DEF TypeInv
  <2>6. TypeInv'
    BY Zenon, <1>1, <1>5, <2>2, <2>3, <2>4, <2>5 DEF TypeInv, rwlock, heap, collection
  <2>7. WorldInv'
    BY Zenon, <1>1, <1>2, <2>1, NamesAssumption DEF WorldInv, Threads, collection
  <2>8. LockInv'
    BY Zenon, <1>1, <1>5, LockKept DEF InWrite
  <2>9. InflateInv'
    BY <1>1, <1>5, <2>1 DEF InflateInv, Threads, heap
  <2>10. EntryInv'
    BY <1>1, <1>3, <1>5, MaxLocks DEF EntryInv, heap, Ids
  <2>11. MarkInv'
    BY Zenon, <1>1, <1>2, <2>1, NamesAssumption, NoMarksKept DEF Threads
  <2> QED
    BY Zenon, <2>6, <2>7, <2>8, <2>9, <2>10, <2>11 DEF IInv
<1>6. CASE HasFree
  <2>1. FirstFree \in 0 .. size - 1 /\ tables[FirstFree] = NoMonitor
    BY Zenon, <1>1, <1>6, FirstFreeIsFree
  <2>2. mon_index' = [mon_index EXCEPT ![t] = FirstFree] /\ Goto(t, "p_store")
        /\ UNCHANGED <<size, exited>>
    BY Zenon, <1>6 DEF put_search
  <2>3. /\ FirstFree \in Nat /\ FirstFree < size' /\ FirstFree \in Ids /\ size' \in Nat
        /\ size <= size' /\ size' <= HY_MAX_FAT_LOCKS
    BY <1>1, <2>1, <2>2, MaxLocks DEF TypeInv, Ids
  <2>4. \E k \in 1 .. HY_MAX_FAT_TABLES : size' = HY_FAT_TABLE_ENTRIES * k
    BY Zenon, <1>1, <2>2 DEF TypeInv
  <2> HIDE DEF FirstFree
  <2> QED
    BY Zenon, <1>5, <2>1, <2>2, <2>3, <2>4
<1>7. CASE ~HasFree /\ size >= HY_MAX_FAT_LOCKS
  BY Zenon, <1>4, <1>7 DEF put_search
<1>8. CASE ~HasFree /\ ~(size >= HY_MAX_FAT_LOCKS)
  <2>1. mon_index' = [mon_index EXCEPT ![t] = size] /\ Goto(t, "p_store")
        /\ size' = size + HY_FAT_TABLE_ENTRIES /\ exited' = exited
    BY Zenon, <1>8 DEF put_search
  <2>2. PICK k \in 1 .. HY_MAX_FAT_TABLES : size = HY_FAT_TABLE_ENTRIES * k
    BY Zenon, <1>1 DEF TypeInv
  <2>3. HY_FAT_TABLE_ENTRIES * k < HY_FAT_TABLE_ENTRIES * HY_MAX_FAT_TABLES
    BY <1>1, <1>8, <2>2, MaxLocks DEF HY_MAX_FAT_LOCKS
  <2>4. /\ k + 1 \in 1 .. HY_MAX_FAT_TABLES /\ size' = HY_FAT_TABLE_ENTRIES * (k + 1)
        /\ size' <= HY_MAX_FAT_LOCKS
    BY Zenon, <2>1, <2>2, <2>3, GrowthFits, TableAssumption DEF HY_MAX_FAT_LOCKS
  <2>5. size \in Nat /\ size < size' /\ size <= size' /\ size' \in Nat /\ size \in Ids
    BY <1>1, <1>8, <2>1, TableAssumption, MaxLocks DEF Ids
  <2>6. tables[size] = NoMonitor
    BY <1>1, <2>5 DEF EntryInv
  <2> QED
    BY Zenon, <1>5, <2>1, <2>4, <2>5, <2>6
<1> QED
  BY Zenon, <1>6, <1>7, <1>8

\* The monitor is stored in the entry that was found.
LEMMA PutStoreInv ==
  ASSUME IInv, NEW t \in Inflaters, put_store(t)
  PROVE  IInv'
<1>1. /\ TypeInv /\ WorldInv /\ LockInv /\ InflateInv /\ EntryInv /\ MarkInv
      /\ t \in Threads /\ pc[t] = "p_store" /\ size \in Nat \ {0} /\ size <= HY_MAX_FAT_LOCKS
      /\ tables' = [tables EXCEPT ![mon_index[t]] = fat_monitor[t]]
      /\ array_cursor' = mon_index[t] + 1 /\ Goto(t, "w_exit")
      /\ UNCHANGED <<live_objs, size, live_objs_were_reported>>
      /\ UNCHANGED <<locals, rwlock, heap, collection, exited, spurious>>
  BY MaxLocks DEF IInv, put_store, At, Threads, TypeInv
<1>2. mon_index[t] \in 0 .. size - 1 /\ mon_index[t] \in Ids /\ fat_monitor[t] \in Monitors
  BY <1>1, MaxLocks DEF TypeInv, Ids, InflateInv
<1>3. /\ world = "running" /\ pc[Reclaimer] = "idle" /\ \A c \in Collectors : pc[c] = "idle"
  BY Zenon, <1>1, InflaterRuns
<1>4. \A s \in Threads : pc'[s] = IF s = t THEN "w_exit" ELSE pc[s]
  BY Zenon, <1>1 DEF TypeInv, Goto
<1>5. \A i \in Ids : tables'[i] = IF i = mon_index[t] THEN fat_monitor[t] ELSE tables[i]
  BY Zenon, <1>1 DEF TypeInv
<1>6. TypeInv'
  <2>1. pc' \in [Threads -> Labels] /\ (pc'[Reclaimer] = "r_body" <=> pc[Reclaimer] = "r_body")
    BY Zenon, <1>1, NamesAssumption DEF TypeInv, Goto, Labels, Threads
  <2>2. tables' \in [Ids -> Monitors \cup {NoMonitor}] /\ array_cursor' \in 0 .. size
    BY <1>1, <1>2 DEF TypeInv
  <2> QED
    BY Zenon, <1>1, <2>1, <2>2 DEF TypeInv, locals, rwlock, heap, collection
<1>7. WorldInv'
  BY Zenon, <1>1, <1>3, <1>4, NamesAssumption DEF WorldInv, Threads, collection
<1>8. LockInv'
  BY Zenon, <1>1, LockKept DEF InWrite
<1>9. \A s \in Inflaters : s \in Threads /\ mon_index[s] \in Ids
  BY <1>1, MaxLocks DEF Threads, TypeInv, Ids
<1>10. InflateInv'
  <2>1. \A s \in Inflaters : spurious = 0 /\ s # t => pc[s] \notin {"p_store", "w_exit"}
    BY Zenon, <1>1, <1>9 DEF LockInv, Holds, InWrite
  <2>2. \A s \in Inflaters : spurious = 0 /\ pc[s] = "publish" => mon_index[s] # mon_index[t]
    BY Zenon, <1>1 DEF InflateInv
  <2>3. ASSUME NEW s \in Inflaters
        PROVE  /\ pc'[s] \in {"w_exit", "publish"} => tables[mon_index[s]]' # NoMonitor
               /\ spurious = 0 =>
                    /\ pc'[s] = "p_store" => tables[mon_index[s]]' = NoMonitor
                    /\ pc'[s] \in {"w_exit", "publish"} => tables[mon_index[s]]' = fat_monitor[s]
    <3>1. mon_index' = mon_index /\ mon_index[s] \in Ids /\ fat_monitor[t] # NoMonitor
      BY Zenon, <1>1, <1>2, <1>9, NamesAssumption DEF locals
    <3>2. CASE s = t
      BY Zenon, <1>4, <1>5, <1>9, <3>1, <3>2
    <3>3. CASE s # t
      BY <1>1, <1>4, <1>5, <1>9, <2>1, <2>2, <3>1, <3>3 DEF InflateInv
    <3> QED
      BY Zenon, <3>2, <3>3
  <2>4. \A s \in Inflaters : pc'[s] = "idle" <=> pc[s] = "idle"
    BY Zenon, <1>1, <1>4, <1>9
  <2>5. UNCHANGED <<obj, fat_monitor, mon_index, lockword, reachable, made_for, spurious>>
    BY Zenon, <1>1 DEF locals, heap
  <2> QED
    BY <1>1, <2>3, <2>4, <2>5 DEF InflateInv
<1>11. EntryInv'
  <2>1. FatLocked' = FatLocked /\ UNCHANGED <<lockword, made_for>> /\ fat_monitor[t] # NoMonitor
    BY Zenon, <1>1, <1>2, NamesAssumption DEF FatLocked, heap
  <2>2. \A o \in FatLocked : lockword[o] \in Ids
    BY <1>1, MaxLocks DEF FatLocked, TypeInv, Ids
  <2>3. spurious = 0 => \A o \in FatLocked : lockword[o] # mon_index[t]
    BY <1>1 DEF EntryInv, InflateInv
  <2>4. \A i \in Ids : i >= size => i # mon_index[t]
    BY <1>1, <1>2
  <2> QED
    BY <1>1, <1>5, <2>1, <2>2, <2>3, <2>4 DEF EntryInv
<1>12. MarkInv'
  BY Zenon, <1>1, <1>3, <1>4, NamesAssumption, NoMarksKept DEF Threads
<1> QED
  BY Zenon, <1>6, <1>7, <1>8, <1>10, <1>11, <1>12 DEF IInv

\* The number of the entry goes into the lock word of the object.
LEMMA PublishInv ==
  ASSUME IInv, NEW t \in Inflaters, set_fat_lock_id(t)
  PROVE  IInv'
<1>1. /\ TypeInv /\ WorldInv /\ LockInv /\ InflateInv /\ EntryInv /\ MarkInv
      /\ t \in Threads /\ pc[t] = "publish" /\ size \in Nat \ {0} /\ size <= HY_MAX_FAT_LOCKS
      /\ lockword' = [lockword EXCEPT ![obj[t]] = mon_index[t]]
      /\ obj' = [obj EXCEPT ![t] = NoObject] /\ fat_monitor' = [fat_monitor EXCEPT ![t] = NoMonitor]
      /\ mon_index' = [mon_index EXCEPT ![t] = 0] /\ Goto(t, "idle")
      /\ UNCHANGED <<reachable, made_for, locktable, rwlock, collection, exited, spurious>>
  BY MaxLocks DEF IInv, set_fat_lock_id, At, Threads, TypeInv
<1> HIDE DEF set_fat_lock_id
<1>2. /\ obj[t] \in reachable /\ obj[t] \in Objects /\ lockword[obj[t]] = ThinLock
      /\ mon_index[t] \in 0 .. size - 1 /\ mon_index[t] # ThinLock
      /\ made_for[obj[t]] = fat_monitor[t]
  BY <1>1 DEF InflateInv, TypeInv, ThinLock
<1>3. /\ world = "running" /\ pc[Reclaimer] = "idle" /\ \A c \in Collectors : pc[c] = "idle"
  BY Zenon, <1>1, InflaterRuns
<1>4. \A s \in Threads : /\ pc'[s] = IF s = t THEN "idle" ELSE pc[s]
                         /\ obj'[s] = IF s = t THEN NoObject ELSE obj[s]
                         /\ fat_monitor'[s] = IF s = t THEN NoMonitor ELSE fat_monitor[s]
                         /\ mon_index'[s] = IF s = t THEN 0 ELSE mon_index[s]
  BY Zenon, <1>1 DEF TypeInv, Goto
<1>5. \A o \in Objects : lockword'[o] = IF o = obj[t] THEN mon_index[t] ELSE lockword[o]
  BY Zenon, <1>1 DEF TypeInv
<1>6. TypeInv'
  <2>1. pc' \in [Threads -> Labels] /\ (pc'[Reclaimer] = "r_body" <=> pc[Reclaimer] = "r_body")
    BY Zenon, <1>1, NamesAssumption DEF TypeInv, Goto, Labels, Threads
  <2>2. /\ obj' \in [Threads -> Objects \cup {NoObject}]
        /\ fat_monitor' \in [Threads -> Monitors \cup {NoMonitor}]
    BY Zenon, <1>1 DEF TypeInv
  <2>3. mon_index' \in [Threads -> 0 .. size - 1]
    BY <1>1 DEF TypeInv
  <2>4. lockword' \in [Objects -> (0 .. size - 1) \cup {ThinLock}]
    BY Zenon, <1>1, <1>2 DEF TypeInv
  <2> QED
    BY Zenon, <1>1, <2>1, <2>2, <2>3, <2>4 DEF TypeInv, locktable, rwlock, collection
<1>7. WorldInv'
  BY Zenon, <1>1, <1>3, <1>4, NamesAssumption DEF WorldInv, Threads, collection
<1>8. LockInv'
  BY Zenon, <1>1, LockKept
<1>9. InflateInv'
  <2>1. \A s \in Inflaters : s \in Threads /\ (s # t /\ pc[s] # "idle" => obj[s] # obj[t])
    BY Zenon, <1>1, <1>2, NamesAssumption DEF Threads, InflateInv
  <2>2. \A s \in Inflaters : pc[s] # "idle" => obj[s] \in Objects
    BY Zenon, <1>1 DEF InflateInv, TypeInv
  <2> QED
    BY <1>1, <1>4, <1>5, <2>1, <2>2 DEF InflateInv, locktable
<1>10. /\ FatLocked' = FatLocked \cup {obj[t]} /\ obj[t] \notin FatLocked
       /\ FatLocked \subseteq Objects
  BY <1>1, <1>2, <1>5 DEF FatLocked, TypeInv
<1>11. EntryInv'
  <2>1. /\ tables[mon_index[t]] # NoMonitor
        /\ spurious = 0 => tables[mon_index[t]] = made_for[obj[t]]
    BY Zenon, <1>1, <1>2 DEF InflateInv
  <2> QED
    BY <1>1, <1>2, <1>5, <1>10, <2>1 DEF EntryInv, locktable
<1>12. MarkInv'
  <2>1. pc'[Reclaimer] = "idle" /\ \A c \in Collectors : pc'[c] = "idle"
    BY Zenon, <1>3, <1>4, NamesAssumption DEF Threads
  <2> QED
    BY Zenon, <1>1, <1>3, <2>1, NoMarksKept DEF locktable
<1> QED
  BY Zenon, <1>6, <1>7, <1>8, <1>9, <1>11, <1>12 DEF IInv

-----------------------------------------------------------------------------
(* The heap and the collection *)

\* The program drops its last reference to an object, or allocates one.
LEMMA HeapInv ==
  ASSUME IInv, NEW o \in Objects, drop(o) \/ allocate(o)
  PROVE  IInv'
<1>1. /\ TypeInv /\ WorldInv /\ LockInv /\ InflateInv /\ EntryInv /\ MarkInv /\ world = "running"
      /\ UNCHANGED <<lockword, made_for, pc, locals, locktable, rwlock, collection, exited,
                     spurious>>
  BY Zenon DEF IInv, drop, allocate
<1>2. /\ FatLocked' \subseteq FatLocked /\ reachable' \subseteq Objects
      /\ \A s \in Inflaters : obj[s] \in reachable => obj[s] \in reachable'
  BY Zenon, <1>1 DEF FatLocked, TypeInv, drop, allocate
<1>3. TypeInv'
  BY Zenon, <1>1, <1>2 DEF TypeInv, locals, locktable, rwlock, collection
<1>4. WorldInv'
  BY Zenon, <1>1 DEF WorldInv, collection
<1>5. LockInv'
  BY Zenon, <1>1 DEF LockInv, rwlock, WritersWaiting, Holds, InWrite
<1>6. InflateInv'
  BY Zenon, <1>1, <1>2 DEF InflateInv, locals, locktable
<1>7. EntryInv'
  BY Zenon, <1>1, <1>2 DEF EntryInv, locktable
<1>8. MarkInv'
  BY Zenon, <1>1, NoMarksKept DEF WorldInv, locktable
<1> QED
  BY Zenon, <1>3, <1>4, <1>5, <1>6, <1>7, <1>8 DEF IInv

\* A collection stops the world: nobody is inside an inflation.
LEMMA StopInv ==
  ASSUME IInv, NEW k \in {"major", "minor"}, stop_the_world(k)
  PROVE  IInv'
<1>1. /\ TypeInv /\ WorldInv /\ LockInv /\ InflateInv /\ EntryInv /\ MarkInv /\ world = "running"
      /\ \A t \in Inflaters : pc[t] = "idle"
      /\ world' = "marking" /\ kind' = k /\ unreported' = IF k = "major" THEN FatLocked ELSE {}
      /\ UNCHANGED <<pc, locals, locktable, rwlock, heap, exited, spurious>>
  BY Zenon DEF IInv, stop_the_world
<1>2. FatLocked' = FatLocked /\ FatLocked \subseteq Objects
  BY Zenon, <1>1 DEF FatLocked, heap, TypeInv
<1>3. TypeInv'
  BY Zenon, <1>1, <1>2 DEF TypeInv, locals, locktable, rwlock, heap
<1>4. WorldInv'
  BY Zenon, <1>1 DEF WorldInv
<1>5. LockInv'
  BY Zenon, <1>1 DEF LockInv, rwlock, WritersWaiting, Holds, InWrite
<1>6. InflateInv' /\ EntryInv'
  BY Zenon, <1>1, <1>2 DEF InflateInv, EntryInv, locals, locktable, heap
<1>7. MarkInv'
  <2>1. /\ ~live_objs_were_reported /\ (\A i \in Ids : ~live_objs[i])
        /\ pc[Reclaimer] = "idle" /\ \A c \in Collectors : pc[c] = "idle"
    BY Zenon, <1>1 DEF WorldInv, MarkInv, TypeInv
  <2> QED
    BY Zenon, <1>1, <1>2, <2>1 DEF MarkInv, locktable, heap
<1> QED
  BY Zenon, <1>3, <1>4, <1>5, <1>6, <1>7 DEF IInv

\* A collector reports a live object with a fat lock.
LEMMA NotifyInv ==
  ASSUME IInv, NEW c \in Collectors, NEW o \in Objects, vm_notify_obj_alive(c, o)
  PROVE  IInv'
<1>1. /\ TypeInv /\ WorldInv /\ LockInv /\ InflateInv /\ EntryInv /\ MarkInv
      /\ c \in Threads /\ pc[c] = "idle" /\ world = "marking" /\ o \in unreported
      /\ obj' = [obj EXCEPT ![c] = o] /\ mon_index' = [mon_index EXCEPT ![c] = lockword[o]]
      /\ Goto(c, "w_enter")
      /\ UNCHANGED <<fat_monitor, locktable, rwlock, heap, collection, exited, spurious>>
  BY Zenon DEF IInv, vm_notify_obj_alive, At, Threads
<1> HIDE DEF vm_notify_obj_alive
<1>2. kind = "major" /\ o \in FatLocked /\ lockword[o] \in 0 .. size - 1
  BY <1>1 DEF MarkInv, FatLocked, TypeInv
<1>3. \A s \in Threads : /\ pc'[s] = IF s = c THEN "w_enter" ELSE pc[s]
                         /\ obj'[s] = IF s = c THEN o ELSE obj[s]
                         /\ mon_index'[s] = IF s = c THEN lockword[o] ELSE mon_index[s]
  BY Zenon, <1>1 DEF TypeInv, Goto
<1>4. TypeInv'
  <2>1. pc' \in [Threads -> Labels] /\ (pc'[Reclaimer] = "r_body" <=> pc[Reclaimer] = "r_body")
    BY Zenon, <1>1, NamesAssumption DEF TypeInv, Goto, Labels, Threads
  <2>2. obj' \in [Threads -> Objects \cup {NoObject}] /\ mon_index' \in [Threads -> 0 .. size - 1]
    BY Zenon, <1>1, <1>2 DEF TypeInv
  <2> QED
    BY Zenon, <1>1, <2>1, <2>2 DEF TypeInv, locktable, rwlock, heap, collection
<1>5. \A s \in Inflaters : pc'[s] = pc[s] /\ obj'[s] = obj[s] /\ mon_index'[s] = mon_index[s]
  BY Zenon, <1>3, NamesAssumption DEF Threads
<1>6. pc'[Reclaimer] = pc[Reclaimer]
  BY Zenon, <1>3, NamesAssumption DEF Threads
<1>7. WorldInv'
  BY Zenon, <1>1, <1>3, <1>5, <1>6 DEF WorldInv, Threads, collection
<1>8. LockInv'
  BY Zenon, <1>1, LockKept
<1>9. InflateInv'
  BY <1>1, <1>5 DEF InflateInv, locktable, heap
<1>10. FatLocked' = FatLocked
  BY Zenon, <1>1 DEF FatLocked, heap
<1>11. EntryInv'
  BY Zenon, <1>1, <1>10 DEF EntryInv, locktable, heap
<1>12. MarkInv'
  BY <1>1, <1>2, <1>3, <1>6, <1>10 DEF MarkInv, locktable, heap, collection, Threads
<1> QED
  BY Zenon, <1>4, <1>7, <1>8, <1>9, <1>11, <1>12 DEF IInv

\* ... and marks its entry.
LEMMA IsLiveInv ==
  ASSUME IInv, NEW c \in Collectors, native_resource_is_live(c)
  PROVE  IInv'
<1>1. /\ TypeInv /\ WorldInv /\ LockInv /\ InflateInv /\ EntryInv /\ MarkInv
      /\ c \in Threads /\ pc[c] = "w_body"
      /\ live_objs' = [live_objs EXCEPT ![mon_index[c]] = TRUE]
      /\ live_objs_were_reported' = TRUE /\ Goto(c, "w_exit")
      /\ UNCHANGED <<tables, size, array_cursor, locals, rwlock, heap, collection,
                     exited, spurious>>
  BY Zenon DEF IInv, native_resource_is_live, At, Threads
<1>2. /\ kind = "major" /\ obj[c] \in FatLocked /\ mon_index[c] = lockword[obj[c]]
      /\ mon_index[c] \in Ids /\ world = "marking" /\ pc[Reclaimer] = "idle"
  BY <1>1, MaxLocks DEF MarkInv, WorldInv, TypeInv, Ids
<1>3. \A s \in Threads : pc'[s] = IF s = c THEN "w_exit" ELSE pc[s]
  BY Zenon, <1>1 DEF TypeInv, Goto
<1>4. \A i \in Ids : live_objs'[i] <=> i = mon_index[c] \/ live_objs[i]
  BY Zenon, <1>1 DEF TypeInv
<1>5. TypeInv'
  <2>1. pc' \in [Threads -> Labels] /\ (pc'[Reclaimer] = "r_body" <=> pc[Reclaimer] = "r_body")
    BY Zenon, <1>1, NamesAssumption DEF TypeInv, Goto, Labels, Threads
  <2>2. live_objs' \in [Ids -> BOOLEAN]
    BY Zenon, <1>1 DEF TypeInv
  <2> QED
    BY Zenon, <1>1, <2>1, <2>2 DEF TypeInv, locals, rwlock, heap, collection
<1>6. pc'[Reclaimer] = "idle" /\ \A s \in Inflaters : pc'[s] = pc[s]
  BY Zenon, <1>2, <1>3, NamesAssumption DEF Threads
<1>7. WorldInv'
  BY Zenon, <1>1, <1>2, <1>3, <1>6 DEF WorldInv, Threads, collection
<1>8. LockInv'
  BY Zenon, <1>1, LockKept DEF InWrite
<1>9. InflateInv'
  BY <1>1, <1>6 DEF InflateInv, locals, heap
<1>10. FatLocked' = FatLocked /\ \A o \in FatLocked : lockword[o] \in Ids
  BY <1>1, MaxLocks DEF FatLocked, heap, TypeInv, Ids
<1>11. EntryInv'
  BY Zenon, <1>1, <1>10 DEF EntryInv, heap
<1>12. MarkInv'
  <2>1. /\ UNCHANGED <<obj, mon_index, lockword, kind, world, unreported>>
        /\ unreported \subseteq FatLocked
    BY Zenon, <1>1 DEF locals, heap, collection, MarkInv
  <2>2. \A i \in Ids : live_objs'[i] => \E o \in FatLocked : lockword[o] = i
    BY Zenon, <1>1, <1>2, <1>4 DEF MarkInv
  <2>3. \A o \in FatLocked \ unreported : live_objs'[lockword[o]]
    BY Zenon, <1>1, <1>2, <1>4, <1>10 DEF MarkInv
  <2>4. \A d \in Collectors : pc'[d] # "idle" =>
          /\ obj[d] \in FatLocked /\ mon_index[d] = lockword[obj[d]]
          /\ pc'[d] = "w_exit" => live_objs'[mon_index[d]]
    BY <1>1, <1>2, <1>3, <1>4, <1>10 DEF MarkInv, Threads
  <2> QED
    BY <1>1, <1>2, <1>4, <1>6, <1>10, <2>1, <2>2, <2>3, <2>4 DEF MarkInv
<1> QED
  BY Zenon, <1>5, <1>7, <1>8, <1>9, <1>11, <1>12 DEF IInv

\* A step of the collecting thread that leaves the entries and the heap alone.
LEMMA ReclaimerMoves ==
  ASSUME IInv, NEW l \in Labels, Goto(Reclaimer, l),
         UNCHANGED <<locals, tables, size, heap, spurious>>
  PROVE  /\ InflateInv' /\ EntryInv' /\ FatLocked' = FatLocked
         /\ pc' \in [Threads -> Labels] /\ pc'[Reclaimer] = l
         /\ \A t \in Inflaters \cup Collectors : pc'[t] = pc[t]
<1>1. TypeInv /\ InflateInv /\ EntryInv /\ Reclaimer \in Threads
  BY Zenon DEF IInv, Threads
<1>2. /\ pc' \in [Threads -> Labels] /\ pc'[Reclaimer] = l
      /\ \A t \in Inflaters \cup Collectors : pc'[t] = pc[t]
  BY Zenon, <1>1, NamesAssumption DEF TypeInv, Goto, Threads
<1>3. FatLocked' = FatLocked
  BY Zenon DEF FatLocked, heap
<1>4. InflateInv'
  BY Zenon, <1>1, <1>2 DEF InflateInv, locals, heap
<1>5. EntryInv'
  BY Zenon, <1>1, <1>3 DEF EntryInv, heap
<1> QED
  BY Zenon, <1>2, <1>3, <1>4, <1>5

\* Everything is reported: the collecting thread goes to the table.
LEMMA MarkingDoneInv ==
  ASSUME IInv, marking_done
  PROVE  IInv'
<1>1. /\ TypeInv /\ WorldInv /\ LockInv /\ MarkInv
      /\ world = "marking" /\ unreported = {} /\ \A c \in Collectors : pc[c] = "idle"
      /\ world' = "reclaiming" /\ Goto(Reclaimer, "r_enter") /\ "r_enter" \in Labels
      /\ UNCHANGED <<kind, unreported, locals, locktable, rwlock, heap, exited, spurious>>
      /\ UNCHANGED <<tables, live_objs, size, array_cursor, live_objs_were_reported>>
      /\ pc[Reclaimer] = "idle" /\ Reclaimer \in Threads
  BY Zenon DEF IInv, marking_done, Labels, locktable, WorldInv, Threads
<1>2. /\ InflateInv' /\ EntryInv' /\ FatLocked' = FatLocked
      /\ pc' \in [Threads -> Labels] /\ pc'[Reclaimer] = "r_enter"
      /\ \A t \in Inflaters \cup Collectors : pc'[t] = pc[t]
  BY Zenon, <1>1, ReclaimerMoves
<1>3. TypeInv'
  BY Zenon, <1>1, <1>2 DEF TypeInv, locals, rwlock, heap
<1>4. WorldInv'
  BY Zenon, <1>1, <1>2 DEF WorldInv
<1>5. LockInv'
  BY Zenon, <1>1, LockKept
<1>6. MarkInv'
  BY Zenon, <1>1, <1>2 DEF MarkInv, locals, heap
<1> QED
  BY Zenon, <1>2, <1>3, <1>4, <1>5, <1>6 DEF IInv

\* The collecting thread reads whether there is anything to reclaim.
LEMMA ReclaimTestInv ==
  ASSUME IInv, reclaim_test
  PROVE  IInv'
<1> DEFINE l == IF live_objs_were_reported THEN "w_enter" ELSE "resume"
<1>1. /\ TypeInv /\ WorldInv /\ MarkInv /\ pc[Reclaimer] = "r_body"
      /\ Goto(Reclaimer, l) /\ l \in Labels
      /\ UNCHANGED <<locals, locktable, heap, collection, exited, spurious>>
      /\ UNCHANGED <<tables, live_objs, size, array_cursor, live_objs_were_reported>>
      /\ Reclaimer \in Threads
  BY Zenon DEF IInv, reclaim_test, At, Labels, locktable, Threads
<1>2. /\ LockInv' /\ state' = IDLE /\ readers_reading' = 0
      /\ UNCHANGED <<readers_waiting, writers_waiting, read, write>>
  BY Zenon, ReclaimTestLock
<1>3. /\ InflateInv' /\ EntryInv' /\ FatLocked' = FatLocked
      /\ pc' \in [Threads -> Labels] /\ pc'[Reclaimer] = l
      /\ \A t \in Inflaters \cup Collectors : pc'[t] = pc[t]
  BY Zenon, <1>1, ReclaimerMoves
<1>4. TypeInv'
  BY Zenon, <1>1, <1>2, <1>3 DEF TypeInv, locals, heap, collection
<1>5. WorldInv'
  BY Zenon, <1>1, <1>3 DEF WorldInv, collection
<1>6. MarkInv'
  BY Zenon, <1>1, <1>3 DEF MarkInv, locals, heap, collection
<1> QED
  BY Zenon, <1>2, <1>3, <1>4, <1>5, <1>6 DEF IInv

\* The sweep: every entry of a reachable object is marked, every other one is not.
LEMMA SweepInv ==
  ASSUME IInv, reclaim_sweep
  PROVE  IInv'
<1>1. /\ TypeInv /\ WorldInv /\ LockInv /\ InflateInv /\ EntryInv /\ MarkInv
      /\ pc[Reclaimer] = "w_body" /\ live_objs_were_reported' = FALSE
      /\ tables' = [i \in Ids |-> IF live_objs[i] THEN tables[i] ELSE NoMonitor]
      /\ live_objs' = [i \in Ids |-> FALSE] /\ Goto(Reclaimer, "w_exit")
      /\ UNCHANGED <<size, array_cursor, locals, rwlock, heap, collection, exited, spurious>>
      /\ Reclaimer \in Threads
  BY Zenon DEF IInv, reclaim_sweep, At, Threads
<1>2. /\ world = "reclaiming" /\ kind = "major" /\ unreported = {}
      /\ \A t \in Inflaters \cup Collectors : pc[t] = "idle"
  BY Zenon, <1>1 DEF WorldInv, MarkInv
<1>3. /\ pc' \in [Threads -> Labels] /\ pc'[Reclaimer] = "w_exit"
      /\ \A t \in Inflaters \cup Collectors : pc'[t] = "idle"
  BY Zenon, <1>1, <1>2, NamesAssumption DEF TypeInv, Goto, Threads, Labels
<1>4. FatLocked' = FatLocked /\ UNCHANGED <<lockword, made_for>>
  BY Zenon, <1>1 DEF FatLocked, heap
<1>5. \A o \in FatLocked : lockword[o] \in Ids /\ live_objs[lockword[o]]
  BY <1>1, <1>2, MaxLocks DEF FatLocked, TypeInv, Ids, MarkInv
<1>6. TypeInv'
  <2>1. tables' \in [Ids -> Monitors \cup {NoMonitor}] /\ live_objs' \in [Ids -> BOOLEAN]
    BY Zenon, <1>1 DEF TypeInv
  <2> QED
    BY Zenon, <1>1, <1>3, <2>1 DEF TypeInv, locals, rwlock, heap, collection
<1>7. WorldInv'
  BY Zenon, <1>1, <1>2, <1>3 DEF WorldInv, collection
<1>8. LockInv'
  BY Zenon, <1>1, LockKept DEF InWrite
<1>9. InflateInv'
  BY Zenon, <1>1, <1>2, <1>3 DEF InflateInv, locals
<1>10. EntryInv'
  BY Zenon, <1>1, <1>4, <1>5 DEF EntryInv
<1>11. MarkInv'
  <2>1. \A i \in Ids : tables'[i] # NoMonitor => \E o \in FatLocked : lockword[o] = i
    BY Zenon, <1>1 DEF MarkInv
  <2> QED
    BY Zenon, <1>1, <1>2, <1>3, <1>4, <2>1 DEF MarkInv, collection
<1> QED
  BY Zenon, <1>6, <1>7, <1>8, <1>9, <1>10, <1>11 DEF IInv

\* The world goes on, without the objects that were freed.
LEMMA ResumeInv ==
  ASSUME IInv, NEW freed \in SUBSET Objects, resume_the_world(freed)
  PROVE  IInv'
<1>1. /\ TypeInv /\ WorldInv /\ LockInv /\ InflateInv /\ EntryInv /\ MarkInv
      /\ pc[Reclaimer] = "resume" /\ freed \subseteq Objects \ reachable
      /\ lockword' = [o \in Objects |-> IF o \in freed THEN ThinLock ELSE lockword[o]]
      /\ made_for' = [o \in Objects |-> IF o \in freed THEN NoMonitor ELSE made_for[o]]
      /\ world' = "running" /\ kind' = "none" /\ Goto(Reclaimer, "idle")
      /\ UNCHANGED <<reachable, unreported, locals, locktable, rwlock, exited, spurious>>
      /\ UNCHANGED <<tables, live_objs, size, array_cursor, live_objs_were_reported>>
      /\ Reclaimer \in Threads
  BY Zenon DEF IInv, resume_the_world, At, Threads, locktable
<1> HIDE DEF resume_the_world
<1>2. \A t \in Inflaters \cup Collectors : pc[t] = "idle"
  BY Zenon, <1>1 DEF WorldInv
<1>3. /\ pc' \in [Threads -> Labels] /\ pc'[Reclaimer] = "idle"
      /\ \A t \in Inflaters \cup Collectors : pc'[t] = "idle"
  BY Zenon, <1>1, <1>2, NamesAssumption DEF TypeInv, Goto, Threads, Labels
<1>4. /\ FatLocked' = FatLocked
      /\ \A o \in FatLocked : lockword'[o] = lockword[o] /\ made_for'[o] = made_for[o]
  BY Zenon, <1>1 DEF FatLocked, TypeInv
<1>5. TypeInv'
  <2>1. /\ lockword' \in [Objects -> (0 .. size - 1) \cup {ThinLock}]
        /\ made_for' \in [Objects -> Monitors \cup {NoMonitor}]
    BY Zenon, <1>1 DEF TypeInv
  <2> QED
    BY Zenon, <1>1, <1>3, <2>1 DEF TypeInv, locals, rwlock
<1>6. WorldInv'
  BY Zenon, <1>1, <1>3 DEF WorldInv
<1>7. LockInv'
  BY Zenon, <1>1, LockKept
<1>8. InflateInv'
  BY Zenon, <1>1, <1>2, <1>3 DEF InflateInv, locals
<1>9. EntryInv'
  BY <1>1, <1>4 DEF EntryInv
<1>10. MarkInv'
  <2>1. ~live_objs_were_reported /\ unreported = {} /\ \A i \in Ids : ~live_objs[i]
    BY Zenon, <1>1 DEF MarkInv, WorldInv
  <2> QED
    BY Zenon, <1>1, <1>3, <2>1 DEF MarkInv
<1> QED
  BY Zenon, <1>5, <1>6, <1>7, <1>8, <1>9, <1>10 DEF IInv

-----------------------------------------------------------------------------
(* The theorems *)

\* The invariant holds at the start.
LEMMA InitInv == Init => IInv
<1> SUFFICES ASSUME Init PROVE IInv
  BY Zenon
<1>1. /\ Reclaimer \in Threads /\ \A t \in Threads : pc[t] = "idle"
      /\ Inflaters \subseteq Threads /\ Collectors \subseteq Threads
  BY Zenon DEF Init, Threads
<1>2. FatLocked = {} /\ WritersWaiting = {} /\ \A t \in Threads : ~Holds(t)
  BY Zenon, <1>1 DEF Init, FatLocked, WritersWaiting, Holds, InWrite
<1>3. TypeInv
  <2>1. /\ size \in 1 .. HY_MAX_FAT_LOCKS /\ size = HY_FAT_TABLE_ENTRIES * 1
        /\ 1 \in 1 .. HY_MAX_FAT_TABLES
    <3>1. \/ 1 = HY_MAX_FAT_TABLES
          \/ HY_FAT_TABLE_ENTRIES * 1 < HY_FAT_TABLE_ENTRIES * HY_MAX_FAT_TABLES
      <4>1. PICK d \in Nat : HY_MAX_FAT_TABLES = 1 + d
        <5>1. HY_MAX_FAT_TABLES - 1 \in Nat /\ HY_MAX_FAT_TABLES = 1 + (HY_MAX_FAT_TABLES - 1)
          BY TableAssumption
        <5> QED
          BY Zenon, <5>1
      <4>2. HY_FAT_TABLE_ENTRIES * HY_MAX_FAT_TABLES =
              HY_FAT_TABLE_ENTRIES + HY_FAT_TABLE_ENTRIES * d
        BY <4>1, TableAssumption
      <4> QED
        BY <4>1, <4>2, TableAssumption
    <3> QED
      BY <3>1, TableAssumption DEF Init, HY_MAX_FAT_LOCKS
  <2>2. mon_index \in [Threads -> 0 .. size - 1]
    BY <2>1, MaxLocks DEF Init
  <2>3. \E k \in 1 .. HY_MAX_FAT_TABLES : size = HY_FAT_TABLE_ENTRIES * k
    BY Zenon, <2>1
  <2>4. array_cursor \in 0 .. size /\ spurious \in 0 .. MaxSpurious
    BY <2>1, MaxLocks, NamesAssumption DEF Init
  <2> QED
    BY Zenon, <1>1, <2>1, <2>2, <2>3, <2>4 DEF Init, TypeInv, Labels
<1>4. WorldInv
  BY Zenon, <1>1 DEF Init, WorldInv
<1>5. LockInv
  BY Zenon, <1>1, <1>2, FS_EmptySet DEF Init, LockInv, IDLE, READING, WRITING
<1>6. InflateInv /\ EntryInv /\ MarkInv
  BY Zenon, <1>1, <1>2 DEF Init, InflateInv, EntryInv, MarkInv
<1> QED
  BY Zenon, <1>3, <1>4, <1>5, <1>6 DEF IInv

\* Every step keeps the invariant.
LEMMA NextInv == IInv /\ [Next]_vars => IInv'
<1> SUFFICES ASSUME IInv, [Next]_vars PROVE IInv'
  BY Zenon
<1>1. CASE \E t \in Threads : Lock(t) \/ spurious_wakeup(t)
  BY Zenon, <1>1, ReaderEnterInv, WriterEnterInv, WaitReturnsInv, WriterExitInv, SpuriousInv
     DEF Lock
<1>2. CASE \E t \in Inflaters : Inflate(t)
  BY Zenon, <1>2, PutSearchInv, PutStoreInv, PublishInv DEF Inflate
<1>3. CASE \E t \in Inflaters, o \in Objects : hythread_inflate_lock(t, o)
  BY Zenon, <1>3, InflateLockInv
<1>4. CASE \E c \in Collectors : Report(c)
  BY Zenon, <1>4, NotifyInv, IsLiveInv DEF Report
<1>5. CASE \E o \in Objects : drop(o) \/ allocate(o)
  BY Zenon, <1>5, HeapInv
<1>6. CASE \E k \in {"major", "minor"} : stop_the_world(k)
  BY Zenon, <1>6, StopInv
<1>7. CASE Reclaim
  BY Zenon, <1>7, MarkingDoneInv, ReclaimTestInv, SweepInv, ResumeInv DEF Reclaim
<1>8. CASE UNCHANGED vars
  <2>1. UNCHANGED <<pc, locals, locktable, rwlock, heap, collection, exited, spurious>>
    BY Zenon, <1>8 DEF vars
  <2>2. TypeInv' /\ WorldInv' /\ FatLocked' = FatLocked
    BY Zenon, <2>1
       DEF IInv, TypeInv, WorldInv, FatLocked, locals, locktable, rwlock, heap, collection
  <2>3. LockInv'
    BY Zenon, <2>1 DEF IInv, LockInv, rwlock, WritersWaiting, Holds, InWrite
  <2>4. InflateInv' /\ EntryInv' /\ MarkInv'
    BY Zenon, <2>1, <2>2
       DEF IInv, InflateInv, EntryInv, MarkInv, locals, locktable, heap, collection
  <2> QED
    BY Zenon, <2>2, <2>3, <2>4 DEF IInv
<1> QED
  BY Zenon, <1>1, <1>2, <1>3, <1>4, <1>5, <1>6, <1>7, <1>8 DEF Next

\* The inductive invariant holds in every reachable state: the lock has one holder, the entries
\* below the size are those given out, and the marks are those of the objects reported.
THEOREM Invariance == Spec => []IInv
BY InitInv, NextInv, PTL DEF Spec

\* The types of all variables: entries, cursor and indices stay inside the
\* tables that are allocated (locktable_put_fat_monitor), and the counters of
\* the reader-writer lock stay inside the number of threads.
THEOREM TypeCorrect == Spec => []TypeOK
<1>1. ASSUME IInv PROVE TypeOK
  <2>1. TypeInv /\ writers_waiting = Cardinality(WritersWaiting) /\ WritersWaiting \subseteq Threads
    BY Zenon, <1>1 DEF IInv, LockInv, WritersWaiting
  <2>2. writers_waiting \in 0 .. Cardinality(Threads)
    BY <2>1, ThreadsFinite, FS_Subset, FS_CardinalityType
  <2>3. lockword \in [Objects -> Ids \cup {ThinLock}]
    BY <2>1, MaxLocks DEF TypeInv, Ids
  <2> QED
    BY <2>1, <2>2, <2>3 DEF TypeInv, TypeOK
<1> QED
  BY <1>1, Invariance, PTL

\* locktable_writer_enter and locktable_writer_exit: a thread inside a write
\* section is alone, for any number of inflating and collecting threads, as
\* long as no wait returns for no reason.
THEOREM WritersExclude == Spec => []WriteExclusive
<1>1. ASSUME IInv PROVE WriteExclusive
  <2> SUFFICES ASSUME spurious = 0, NEW t \in Threads, NEW s \in Threads, InWrite(t), s # t
               PROVE  ~InWrite(s) /\ pc[s] # "r_body"
    BY Zenon DEF WriteExclusive
  <2>1. ~InWrite(s)
    BY Zenon, <1>1 DEF IInv, LockInv, Holds
  <2>2. pc[s] # "r_body"
    BY Zenon, <1>1, OthersIdle DEF IInv, WorldInv, Threads, InWrite
  <2> QED
    BY Zenon, <2>1, <2>2
<1> QED
  BY <1>1, Invariance, PTL

\* locktable_get_fat_monitor may read the table with no lock: the entry that
\* the lock word of a reachable object names holds the monitor made for it,
\* as long as no wait returns for no reason.
THEOREM MonitorsStay == Spec => []MonitorStays
<1>1. ASSUME IInv PROVE MonitorStays
  BY Zenon, <1>1 DEF IInv, EntryInv, InflateInv, MonitorStays, MonitorCannotVanish
<1> QED
  BY <1>1, Invariance, PTL

\* hythread_reclaim_resources destroys the monitors of dead objects and no
\* other, even after spurious wake-ups.
THEOREM SweepExact == Spec => []SweepIsExact
<1>1. ASSUME IInv PROVE SweepIsExact
  BY <1>1 DEF IInv, EntryInv, MarkInv, SweepIsExact, At
<1> QED
  BY <1>1, Invariance, PTL
=============================================================================
