----------------------------- MODULE LockTable -----------------------------
(***************************************************************************)
(* The fat lock table of vm/thread/src/thread_native_thin_monitor.c: the   *)
(* reader-writer lock that guards it, the search for a free entry when a   *)
(* thin lock is inflated, the liveness reports of the collector threads,   *)
(* and the reclamation of the entries whose objects have died.             *)
(*                                                                         *)
(* A section under lock_table->mutex is one step: every field of the       *)
(* reader-writer lock is read and written under that mutex only.  A wait   *)
(* on a condition variable splits the section.  The write section itself   *)
(* is two steps, the search and the store, so that a second writer inside  *)
(* it would be seen.                                                       *)
(*                                                                         *)
(* Inflation runs with suspension disabled (the assert at line 680), so    *)
(* the world stops only between two inflations; SafeSuspend models the     *)
(* handshake that this module takes as the guard of stop_the_world.        *)
(***************************************************************************)
EXTENDS Integers, FiniteSets

CONSTANTS Inflaters,             \* Java threads that inflate locks
          Collectors,            \* parallel collector threads
          Reclaimer,             \* the thread that runs the collection
          Objects,               \* heap objects (addresses)
          Monitors,              \* HyThreadMonitor structures
          NoMonitor,             \* an empty entry
          NoObject,
          HY_FAT_TABLE_ENTRIES,  \* entries of one table
          HY_MAX_FAT_TABLES,     \* tables the lock table may grow to
          MaxSpurious            \* bound: spurious wake-ups of condition variables

ASSUME TableAssumption ==
  /\ HY_FAT_TABLE_ENTRIES \in Nat \ {0}
  /\ HY_MAX_FAT_TABLES \in Nat \ {0}
ASSUME FiniteAssumption ==
  IsFiniteSet(Inflaters) /\ IsFiniteSet(Collectors) /\ IsFiniteSet(Monitors)
ASSUME MonitorsAssumption ==
  Cardinality(Monitors) >= HY_FAT_TABLE_ENTRIES * HY_MAX_FAT_TABLES + Cardinality(Inflaters)
ASSUME NamesAssumption ==
  /\ NoMonitor \notin Monitors
  /\ NoObject \notin Objects
  /\ Reclaimer \notin Inflaters \cup Collectors
  /\ Inflaters \cap Collectors = {}
  /\ MaxSpurious \in Nat

VARIABLES
  \* HyFatLockTable
  tables, live_objs, size, array_cursor, live_objs_were_reported,
  state, readers_reading, readers_waiting, writers_waiting,
  read, write,         \* threads asleep on the two condition variables
  \* locals of the threads
  pc, obj, fat_monitor, mon_index,
  \* the heap: the lock word of each object, and which objects are reachable
  lockword, reachable,
  made_for,            \* history: the monitor inflation made for an object
  \* the collection: world is running or stopped, and what it still does
  world, kind, unreported,
  exited,              \* DIE() ended the process
  spurious             \* history: wake-ups that nobody asked for

locktable == <<tables, live_objs, size, array_cursor, live_objs_were_reported>>
rwlock == <<state, readers_reading, readers_waiting, writers_waiting, read, write>>
locals == <<obj, fat_monitor, mon_index>>
heap == <<lockword, reachable, made_for>>
collection == <<world, kind, unreported>>
vars == <<locktable, rwlock, pc, locals, heap, collection, exited, spurious>>

HY_MAX_FAT_LOCKS == HY_FAT_TABLE_ENTRIES * HY_MAX_FAT_TABLES
Threads == Inflaters \cup Collectors \cup {Reclaimer}
Ids == 0 .. HY_MAX_FAT_LOCKS - 1
ThinLock == -1                  \* a lock word that names no table entry

IDLE == "HYTHREAD_LOCKTABLE_IDLE"
READING == "HYTHREAD_LOCKTABLE_READING"
WRITING == "HYTHREAD_LOCKTABLE_WRITING"

Goto(t, label) == pc' = [pc EXCEPT ![t] = label]
At(t, label) == pc[t] = label /\ ~exited

Init ==
  /\ tables = [i \in Ids |-> NoMonitor]
  /\ live_objs = [i \in Ids |-> FALSE]
  /\ size = HY_FAT_TABLE_ENTRIES
  /\ array_cursor = 0
  /\ live_objs_were_reported = FALSE
  /\ state = IDLE
  /\ readers_reading = 0 /\ readers_waiting = 0 /\ writers_waiting = 0
  /\ read = {} /\ write = {}
  /\ pc = [t \in Threads |-> "idle"]
  /\ obj = [t \in Threads |-> NoObject]
  /\ fat_monitor = [t \in Threads |-> NoMonitor]
  /\ mon_index = [t \in Threads |-> 0]
  /\ lockword = [o \in Objects |-> ThinLock]
  /\ reachable = Objects
  /\ made_for = [o \in Objects |-> NoMonitor]
  /\ world = "running" /\ kind = "none" /\ unreported = {}
  /\ exited = FALSE /\ spurious = 0

-----------------------------------------------------------------------------
(* The reader-writer lock.                                                 *)

locktable_reader_enter(t) ==
  /\ At(t, "r_enter")
  /\ IF state = IDLE \/ (state = READING /\ writers_waiting = 0)
     THEN /\ state' = READING
          /\ readers_reading' = readers_reading + 1
          /\ Goto(t, "r_body")
          /\ UNCHANGED <<readers_waiting, read>>
     ELSE /\ readers_waiting' = readers_waiting + 1
          /\ read' = read \cup {t}
          /\ Goto(t, "r_wait")
          /\ UNCHANGED <<state, readers_reading>>
  /\ UNCHANGED <<writers_waiting, write, locktable, locals, heap, collection, exited, spurious>>

\* hycond_notify wakes one sleeper, if there is one.
notify_one(waiters, waiters_after) ==
  IF waiters = {} THEN waiters_after = {}
  ELSE \E w \in waiters : waiters_after = waiters \ {w}

\* What the thread holding the table for reading does when it leaves.
reader_release ==
  /\ readers_reading' = readers_reading - 1
  /\ IF readers_reading' = 0
     THEN IF writers_waiting > 0
          THEN state' = WRITING /\ notify_one(write, write')
          ELSE state' = IDLE /\ UNCHANGED write
     ELSE UNCHANGED <<state, write>>
  /\ UNCHANGED <<readers_waiting, writers_waiting, read>>

\* A writer that finds the lock busy takes no second look at the state
\* after its wait.
locktable_writer_enter(t) ==
  /\ At(t, "w_enter")
  /\ IF state # IDLE
     THEN /\ writers_waiting' = writers_waiting + 1
          /\ write' = write \cup {t}
          /\ Goto(t, "w_wait")
          /\ UNCHANGED state
     ELSE /\ state' = WRITING
          /\ Goto(t, "w_body")
          /\ UNCHANGED <<writers_waiting, write>>
  /\ UNCHANGED <<readers_reading, readers_waiting, read>>
  /\ UNCHANGED <<locktable, locals, heap, collection, exited, spurious>>

\* A wait returned with the mutex held again.  A reader goes on without
\* counting itself (the writer that woke it did), a writer stops waiting;
\* neither looks at the state again except in an assert.
wait_returns(t) ==
  /\ \/ At(t, "r_wait") /\ t \notin read
     \/ At(t, "w_wait") /\ t \notin write
  /\ writers_waiting' = writers_waiting - (IF pc[t] = "w_wait" THEN 1 ELSE 0)
  /\ Goto(t, IF pc[t] = "w_wait" THEN "w_body" ELSE "r_body")
  /\ UNCHANGED <<state, readers_reading, readers_waiting, read, write>>
  /\ UNCHANGED <<locktable, locals, heap, collection, exited, spurious>>

\* bug: the lock is free for anybody while the woken writer is on its way.
writer_release_free ==
  /\ state' = IDLE
  /\ notify_one(write, write')
  /\ UNCHANGED <<readers_reading, readers_waiting, writers_waiting, read>>

\* bug: the lock is passed on, but nobody is woken.
writer_release_silent ==
  /\ state' = IF writers_waiting > 0 THEN WRITING ELSE IDLE
  /\ UNCHANGED <<readers_reading, readers_waiting, writers_waiting, read, write>>

\* The test is on readers_reading, as in the code: readers that wait are not
\* woken by a writer.
writer_release ==
  IF readers_reading > 0
  THEN /\ readers_reading' = readers_waiting
       /\ readers_waiting' = 0
       /\ state' = READING
       /\ read' = {}
       /\ UNCHANGED <<writers_waiting, write>>
  ELSE /\ IF writers_waiting > 0
          THEN notify_one(write, write') /\ UNCHANGED state
          ELSE state' = IDLE /\ UNCHANGED write
       /\ UNCHANGED <<readers_reading, readers_waiting, writers_waiting, read>>

\* POSIX lets a wait on a condition variable return with no notification.
spurious_wakeup(t) ==
  /\ spurious < MaxSpurious /\ ~exited
  /\ spurious' = spurious + 1
  /\ t \in read \cup write
  /\ read' = read \ {t} /\ write' = write \ {t}
  /\ UNCHANGED <<state, readers_reading, readers_waiting, writers_waiting>>
  /\ UNCHANGED <<pc, locktable, locals, heap, collection, exited>>

-----------------------------------------------------------------------------
(* Inflation: hythread_inflate_lock and locktable_put_fat_monitor.         *)

\* Which free structure the allocator returns makes no difference.
NewMonitor == CHOOSE m \in Monitors :
                /\ \A i \in Ids : tables[i] # m
                /\ \A s \in Inflaters : fat_monitor[s] # m

\* The owner of the thin lock of o allocates a monitor and goes to enter it
\* in the table.  Only the owner inflates, so no two threads inflate the same
\* object at once.
hythread_inflate_lock(t, o) ==
  /\ At(t, "idle") /\ world = "running"
  /\ o \in reachable /\ lockword[o] = ThinLock
  /\ \A s \in Inflaters : obj[s] # o
  /\ obj' = [obj EXCEPT ![t] = o]
  /\ fat_monitor' = [fat_monitor EXCEPT ![t] = NewMonitor]
  /\ made_for' = [made_for EXCEPT ![o] = NewMonitor]
  /\ Goto(t, "w_enter")
  /\ UNCHANGED <<mon_index, lockword, reachable, locktable, rwlock, collection, exited, spurious>>

\* The entries in the order the search visits them: from the cursor up, then
\* from 0.  The cursor may stand at size.
Visit(k) == (array_cursor + k) % size
FreeAt(k) == tables[Visit(k)] = NoMonitor
HasFree == \E k \in 0 .. size - 1 : FreeAt(k)
FirstFree == Visit(CHOOSE k \in 0 .. size - 1 :
                     FreeAt(k) /\ \A j \in 0 .. k - 1 : ~FreeAt(j))

\* bug: the search takes the entry under the cursor without looking at it.
put_search_cursor(t) ==
  /\ At(t, "w_body") /\ t \in Inflaters
  /\ mon_index' = [mon_index EXCEPT ![t] = array_cursor % size]
  /\ Goto(t, "p_store")
  /\ UNCHANGED <<size, exited, spurious>>
  /\ UNCHANGED <<tables, live_objs, array_cursor, live_objs_were_reported>>
  /\ UNCHANGED <<obj, fat_monitor, rwlock, heap, collection>>

\* bug: the limit on the number of tables is tested one table too late.
put_search_grow(t) ==
  /\ At(t, "w_body") /\ t \in Inflaters
  /\ IF HasFree
     THEN mon_index' = [mon_index EXCEPT ![t] = FirstFree] /\ UNCHANGED size
     ELSE /\ mon_index' = [mon_index EXCEPT ![t] = size]
          /\ size' = size + HY_FAT_TABLE_ENTRIES
  /\ Goto(t, "p_store")
  /\ UNCHANGED <<tables, live_objs, array_cursor, live_objs_were_reported>>
  /\ UNCHANGED <<obj, fat_monitor, rwlock, heap, collection, exited, spurious>>

\* locktable_put_fat_monitor up to the choice of the entry: a free one, else
\* the first of a new table, else DIE.
put_search(t) ==
  /\ At(t, "w_body") /\ t \in Inflaters
  /\ IF HasFree
     THEN /\ mon_index' = [mon_index EXCEPT ![t] = FirstFree]
          /\ Goto(t, "p_store")
          /\ UNCHANGED <<size, exited>>
     ELSE IF size >= HY_MAX_FAT_LOCKS
     THEN exited' = TRUE /\ UNCHANGED <<mon_index, size, pc>>
     ELSE /\ mon_index' = [mon_index EXCEPT ![t] = size]
          /\ size' = size + HY_FAT_TABLE_ENTRIES
          /\ Goto(t, "p_store")
          /\ UNCHANGED exited
  /\ UNCHANGED <<tables, live_objs, array_cursor, live_objs_were_reported>>
  /\ UNCHANGED <<obj, fat_monitor, rwlock, heap, collection, spurious>>

put_store(t) ==
  /\ At(t, "p_store")
  /\ tables' = [tables EXCEPT ![mon_index[t]] = fat_monitor[t]]
  /\ array_cursor' = mon_index[t] + 1
  /\ Goto(t, "w_exit")
  /\ UNCHANGED <<live_objs, size, live_objs_were_reported>>
  /\ UNCHANGED <<locals, rwlock, heap, collection, exited, spurious>>

\* set_fat_lock_id: the lock word of the object names the entry from now on.
set_fat_lock_id(t) ==
  /\ At(t, "publish")
  /\ lockword' = [lockword EXCEPT ![obj[t]] = mon_index[t]]
  /\ obj' = [obj EXCEPT ![t] = NoObject]
  /\ fat_monitor' = [fat_monitor EXCEPT ![t] = NoMonitor]
  /\ mon_index' = [mon_index EXCEPT ![t] = 0]
  /\ Goto(t, "idle")
  /\ UNCHANGED <<reachable, made_for, locktable, rwlock, collection, exited, spurious>>

-----------------------------------------------------------------------------
(* The mutators' heap, and the collection that reports and reclaims.       *)

\* The program drops its last reference to o; nobody is inflating its lock.
drop(o) ==
  /\ ~exited /\ world = "running"
  /\ o \in reachable /\ \A s \in Inflaters : obj[s] # o
  /\ reachable' = reachable \ {o}
  /\ UNCHANGED <<lockword, made_for, pc, locals, locktable, rwlock, collection, exited, spurious>>

\* A new object at a free address has a lock word with no monitor.
allocate(o) ==
  /\ ~exited /\ world = "running"
  /\ o \notin reachable /\ lockword[o] = ThinLock
  /\ reachable' = reachable \cup {o}
  /\ UNCHANGED <<lockword, made_for, pc, locals, locktable, rwlock, collection, exited, spurious>>

FatLocked == {o \in reachable : lockword[o] # ThinLock}

\* bug: the world is taken to be stopped while a thread inflates.
stop_the_world_early(k) ==
  /\ ~exited /\ world = "running"
  /\ world' = "marking" /\ kind' = k
  /\ unreported' = IF k = "major" THEN FatLocked ELSE {}
  /\ UNCHANGED <<pc, locals, locktable, rwlock, heap, exited, spurious>>

\* Every mutator is at a safe point, so none is inside an inflation.  Only a
\* major collection (mark_scan_pool, space_tune_mark_scan) reports live objects.
stop_the_world(k) ==
  /\ ~exited /\ world = "running"
  /\ \A t \in Inflaters : pc[t] = "idle"
  /\ world' = "marking" /\ kind' = k
  /\ unreported' = IF k = "major" THEN FatLocked ELSE {}
  /\ UNCHANGED <<pc, locals, locktable, rwlock, heap, exited, spurious>>

\* vm_notify_obj_alive: marking is idempotent only, so two collectors may
\* report one object.
vm_notify_obj_alive(c, o) ==
  /\ At(c, "idle") /\ world = "marking" /\ o \in unreported
  /\ obj' = [obj EXCEPT ![c] = o]
  /\ mon_index' = [mon_index EXCEPT ![c] = lockword[o]]
  /\ Goto(c, "w_enter")
  /\ UNCHANGED <<fat_monitor, locktable, rwlock, heap, collection, exited, spurious>>

native_resource_is_live(c) ==
  /\ At(c, "w_body") /\ c \in Collectors
  /\ live_objs' = [live_objs EXCEPT ![mon_index[c]] = TRUE]
  /\ live_objs_were_reported' = TRUE
  /\ Goto(c, "w_exit")
  /\ UNCHANGED <<tables, size, array_cursor, locals, rwlock, heap, collection, exited, spurious>>

\* The collectors join; the collecting thread calls vm_reclaim_native_objs.
marking_done ==
  /\ ~exited /\ world = "marking" /\ unreported = {}
  /\ \A c \in Collectors : pc[c] = "idle"
  /\ world' = "reclaiming"
  /\ Goto(Reclaimer, "r_enter")
  /\ UNCHANGED <<kind, unreported, locals, locktable, rwlock, heap, exited, spurious>>

\* hythread_reclaim_resources, the read section and its exit.
reclaim_test ==
  /\ At(Reclaimer, "r_body")
  /\ Goto(Reclaimer, IF live_objs_were_reported THEN "w_enter" ELSE "resume")
  /\ reader_release
  /\ UNCHANGED <<locals, locktable, heap, collection, exited, spurious>>

\* bug: the marks of this collection are still there at the next one.
reclaim_sweep_marked ==
  /\ At(Reclaimer, "w_body")
  /\ live_objs_were_reported' = FALSE
  /\ tables' = [i \in Ids |-> IF live_objs[i] THEN tables[i] ELSE NoMonitor]
  /\ Goto(Reclaimer, "w_exit")
  /\ UNCHANGED <<live_objs, size, array_cursor, locals, rwlock, heap, collection, exited, spurious>>

\* The write section: an entry that was not reported is destroyed, the marks
\* are reset.
reclaim_sweep ==
  /\ At(Reclaimer, "w_body")
  /\ live_objs_were_reported' = FALSE
  /\ tables' = [i \in Ids |-> IF live_objs[i] THEN tables[i] ELSE NoMonitor]
  /\ live_objs' = [i \in Ids |-> FALSE]
  /\ Goto(Reclaimer, "w_exit")
  /\ UNCHANGED <<size, array_cursor, locals, rwlock, heap, collection, exited, spurious>>

\* The end of every write section; each caller goes on where it left off.
locktable_writer_exit(t) ==
  /\ At(t, "w_exit")
  /\ writer_release
  /\ Goto(t, IF t \in Inflaters THEN "publish"
             ELSE IF t \in Collectors THEN "idle" ELSE "resume")
  /\ unreported' = IF t \in Collectors THEN unreported \ {obj[t]} ELSE unreported
  /\ IF t \in Collectors
     THEN /\ obj' = [obj EXCEPT ![t] = NoObject]
          /\ mon_index' = [mon_index EXCEPT ![t] = 0]
     ELSE UNCHANGED <<obj, mon_index>>
  /\ UNCHANGED <<world, kind, fat_monitor, locktable, heap, exited, spurious>>

\* The addresses the collection freed can be allocated again: all garbage in
\* a major collection, some of it in a minor one.
resume_the_world(freed) ==
  /\ At(Reclaimer, "resume")
  /\ freed \subseteq Objects \ reachable
  /\ kind = "major" => freed = Objects \ reachable
  /\ lockword' = [o \in Objects |-> IF o \in freed THEN ThinLock ELSE lockword[o]]
  /\ made_for' = [o \in Objects |-> IF o \in freed THEN NoMonitor ELSE made_for[o]]
  /\ world' = "running" /\ kind' = "none"
  /\ Goto(Reclaimer, "idle")
  /\ UNCHANGED <<reachable, unreported, locals, locktable, rwlock, exited, spurious>>

-----------------------------------------------------------------------------
Inflate(t) == put_search(t) \/ put_store(t) \/ set_fat_lock_id(t)
Lock(t) == \/ locktable_reader_enter(t) \/ locktable_writer_enter(t)
           \/ wait_returns(t) \/ locktable_writer_exit(t)
Report(c) == \/ \E o \in Objects : vm_notify_obj_alive(c, o)
             \/ native_resource_is_live(c)
Reclaim == \/ marking_done \/ reclaim_test \/ reclaim_sweep
           \/ \E freed \in SUBSET Objects : resume_the_world(freed)

Next ==
  \/ \E t \in Threads : Lock(t) \/ spurious_wakeup(t)
  \/ \E t \in Inflaters : Inflate(t)
  \/ \E t \in Inflaters, o \in Objects : hythread_inflate_lock(t, o)
  \/ \E c \in Collectors : Report(c)
  \/ \E o \in Objects : drop(o) \/ allocate(o)
  \/ \E k \in {"major", "minor"} : stop_the_world(k)
  \/ Reclaim

Spec == Init /\ [][Next]_vars

\* Every thread that is inside an inflation, a report or the reclamation keeps
\* running; nobody has to inflate or to collect.
FairSpec ==
  /\ Spec
  /\ \A t \in Threads : WF_vars(Lock(t))
  /\ \A t \in Inflaters : WF_vars(Inflate(t))
  /\ \A c \in Collectors : WF_vars(Report(c))
  /\ WF_vars(Reclaim)

-----------------------------------------------------------------------------
(* Properties.                                                             *)

Labels == {"idle", "r_enter", "r_wait", "r_body", "w_enter", "w_wait", "w_body",
           "p_store", "w_exit", "publish", "resume"}

\* The types of all variables: indices stay inside the allocated tables, the
\* counters of the reader-writer lock count threads.
TypeOK ==
  /\ tables \in [Ids -> Monitors \cup {NoMonitor}]
  /\ live_objs \in [Ids -> BOOLEAN]
  /\ size \in 1 .. HY_MAX_FAT_LOCKS /\ array_cursor \in 0 .. size
  /\ live_objs_were_reported \in BOOLEAN
  /\ state \in {IDLE, READING, WRITING}
  /\ readers_reading \in 0 .. 1 /\ readers_waiting \in 0 .. 1
  /\ writers_waiting \in 0 .. Cardinality(Threads)
  /\ read \subseteq {Reclaimer} /\ write \subseteq Threads
  /\ pc \in [Threads -> Labels]
  /\ obj \in [Threads -> Objects \cup {NoObject}]
  /\ fat_monitor \in [Threads -> Monitors \cup {NoMonitor}]
  /\ mon_index \in [Threads -> 0 .. size - 1]
  /\ lockword \in [Objects -> Ids \cup {ThinLock}]
  /\ reachable \subseteq Objects
  /\ made_for \in [Objects -> Monitors \cup {NoMonitor}]
  /\ world \in {"running", "marking", "reclaiming"}
  /\ kind \in {"none", "major", "minor"}
  /\ unreported \subseteq Objects
  /\ exited \in BOOLEAN /\ spurious \in 0 .. MaxSpurious

\* locktable_get_fat_monitor reads the table with no lock because a "monitor
\* can't vanish or be moved in lock table while we are doing get_fat_monitor":
\* the entry named by the lock word of a reachable object, or chosen by a
\* thread that has yet to publish it, holds the monitor made for that object.
MonitorCannotVanish ==
  /\ \A o \in FatLocked : tables[lockword[o]] = made_for[o]
  /\ \A t \in Inflaters :
       pc[t] \in {"w_exit", "publish"} => tables[mon_index[t]] = fat_monitor[t]

\* The same, as long as no wait on a condition variable returns for no reason.
MonitorStays == spurious = 0 => MonitorCannotVanish

InWrite(t) == pc[t] \in {"w_body", "p_store", "w_exit"}

\* The reader-writer lock: a thread inside a write section (inflation, report
\* or sweep) is alone, whatever the order of waits and wake-ups, unless a wait
\* returns for no reason.
WriteExclusive ==
  spurious = 0 =>
    \A t, s \in Threads : InWrite(t) /\ s # t => ~InWrite(s) /\ pc[s] # "r_body"

\* hythread_reclaim_resources leaves exactly the monitors of the reachable
\* objects when the collection reported any.
SweepIsExact ==
  At(Reclaimer, "w_exit") =>
    \A i \in Ids : tables[i] # NoMonitor <=> \E o \in FatLocked : lockword[o] = i

\* A thread that inflates a lock gets its entry, or the process dies of a
\* full table: no writer sleeps for ever on the write condition.
InflationEnds == \A t \in Inflaters : pc[t] = "w_enter" ~> (pc[t] = "idle" \/ exited)

\* A collection gets through its reports and the reclamation: the collecting
\* thread never sleeps on the read condition, from which no writer wakes it.
CollectionEnds == world # "running" ~> world = "running"
-----------------------------------------------------------------------------
(* The inductive invariant, for any number of threads, objects, entries and *)
(* spurious wake-ups.                                                       *)

\* Nobody ever waits to read: the collecting thread alone reads, and it does
\* so while all others are idle.
TypeInv ==
  /\ tables \in [Ids -> Monitors \cup {NoMonitor}]
  /\ live_objs \in [Ids -> BOOLEAN]
  /\ size \in 1 .. HY_MAX_FAT_LOCKS /\ array_cursor \in 0 .. size
  /\ \E k \in 1 .. HY_MAX_FAT_TABLES : size = HY_FAT_TABLE_ENTRIES * k
  /\ live_objs_were_reported \in BOOLEAN
  /\ state \in {IDLE, READING, WRITING}
  /\ readers_reading = (IF pc[Reclaimer] = "r_body" THEN 1 ELSE 0)
  /\ readers_waiting = 0 /\ read = {}
  /\ write \subseteq Threads /\ writers_waiting \in Nat
  /\ pc \in [Threads -> Labels]
  /\ obj \in [Threads -> Objects \cup {NoObject}]
  /\ fat_monitor \in [Threads -> Monitors \cup {NoMonitor}]
  /\ mon_index \in [Threads -> 0 .. size - 1]
  /\ lockword \in [Objects -> (0 .. size - 1) \cup {ThinLock}]
  /\ reachable \subseteq Objects
  /\ made_for \in [Objects -> Monitors \cup {NoMonitor}]
  /\ world \in {"running", "marking", "reclaiming"}
  /\ kind \in {"none", "major", "minor"}
  /\ unreported \subseteq Objects
  /\ exited \in BOOLEAN /\ spurious \in 0 .. MaxSpurious

\* Who is where while the world runs, while it is marked and while it is reclaimed.
WorldInv ==
  /\ \A t \in Inflaters :
       /\ pc[t] \in {"idle", "w_enter", "w_wait", "w_body", "p_store", "w_exit", "publish"}
       /\ world # "running" => pc[t] = "idle"
  /\ \A c \in Collectors :
       /\ pc[c] \in {"idle", "w_enter", "w_wait", "w_body", "w_exit"}
       /\ world # "marking" => pc[c] = "idle"
  /\ pc[Reclaimer] \in {"idle", "r_enter", "r_body", "w_enter", "w_wait", "w_body", "w_exit",
                        "resume"}
  /\ world = "reclaiming" <=> pc[Reclaimer] # "idle"
  /\ kind = "none" <=> world = "running"

\* The threads asleep in locktable_writer_enter or woken from it, and those
\* to whom the lock belongs: inside a write section, or woken and on the way.
WritersWaiting == {t \in Threads : pc[t] = "w_wait"}
Holds(t) == InWrite(t) \/ (pc[t] = "w_wait" /\ t \notin write)

\* Whoever leaves passes the lock on, or nobody is waiting for it.
LockInv ==
  /\ write \subseteq WritersWaiting
  /\ writers_waiting = Cardinality(WritersWaiting)
  /\ state = READING <=> pc[Reclaimer] = "r_body"
  /\ state = WRITING => \E t \in Threads : Holds(t)
  /\ spurious = 0 =>
       /\ \A t, s \in Threads : Holds(t) /\ Holds(s) => t = s
       /\ state = IDLE => \A t \in Threads : ~Holds(t)

\* A thread that inflates: its object, its monitor, and the entry it has chosen.
InflateInv ==
  /\ \A t \in Inflaters :
       /\ pc[t] # "idle" => /\ obj[t] \in reachable /\ lockword[obj[t]] = ThinLock
                            /\ fat_monitor[t] \in Monitors
                            /\ made_for[obj[t]] = fat_monitor[t]
       /\ pc[t] = "idle" => obj[t] = NoObject /\ fat_monitor[t] = NoMonitor
       /\ pc[t] \in {"w_exit", "publish"} => tables[mon_index[t]] # NoMonitor
       /\ spurious = 0 =>
            /\ pc[t] = "p_store" => tables[mon_index[t]] = NoMonitor
            /\ pc[t] \in {"w_exit", "publish"} => tables[mon_index[t]] = fat_monitor[t]
  /\ \A t, s \in Inflaters : obj[t] = obj[s] /\ obj[t] # NoObject => t = s

\* An entry is emptied only by the sweep; only the exclusion of writers keeps
\* what is in it.
EntryInv ==
  /\ \A o \in FatLocked :
       /\ tables[lockword[o]] # NoMonitor
       /\ spurious = 0 => tables[lockword[o]] = made_for[o]
  /\ \A i \in Ids : i >= size => tables[i] = NoMonitor

\* Before the sweep the marks are those of the reachable objects that are no
\* longer unreported; after it there are none.
MarkInv ==
  /\ unreported \subseteq FatLocked
  /\ world # "marking" \/ kind # "major" => unreported = {}
  /\ live_objs_were_reported <=> \E i \in Ids : live_objs[i]
  /\ \A i \in Ids : live_objs[i] => \E o \in FatLocked : lockword[o] = i
  /\ live_objs_were_reported => kind = "major"
  /\ live_objs_were_reported => pc[Reclaimer] \notin {"w_exit", "resume"}
  /\ kind = "major" /\ pc[Reclaimer] \notin {"w_exit", "resume"} =>
       \A o \in FatLocked \ unreported : live_objs[lockword[o]]
  /\ pc[Reclaimer] \in {"w_enter", "w_wait", "w_body"} => live_objs_were_reported
  /\ pc[Reclaimer] = "w_exit" =>
       \A i \in Ids : tables[i] # NoMonitor => \E o \in FatLocked : lockword[o] = i
  /\ \A c \in Collectors : pc[c] # "idle" =>
       /\ kind = "major" /\ obj[c] \in FatLocked /\ mon_index[c] = lockword[obj[c]]
       /\ pc[c] = "w_exit" => live_objs[mon_index[c]]

IInv == TypeInv /\ WorldInv /\ LockInv /\ InflateInv /\ EntryInv /\ MarkInv
=============================================================================
