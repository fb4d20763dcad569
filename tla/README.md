# A TLA+ model of the threads of DRLVM: suspension, monitors, waiting, classes

DRLVM is a Java virtual machine in C and C++. Its parts run in one process and
share memory; what makes it hard is that every part relies on the *thread
manager* (`vm/thread`) to stop, wake and synchronize threads without losing any
of them. This project models that core and the two protocols of the class
machinery that are built on it, class loading and class initialization. It checks
them with TLC on small instances, and proves with TLAPS, for every number of threads,
classes, monitors and objects, the safety of suspension, of thin monitors, of the fat lock
table, of waiting, of class loading and of class initialization.

## The system

| part | state | operations | what is hard about it |
|---|---|---|---|
| safe suspension (`thread_native_suspend.c`, inline functions of `hythread_ext.h`) | `suspend_count`, `request`, `disable_count`, `resume_event`, `SUSPENDED` of every thread | enter and leave unsafe regions, safe points, suspend one, suspend all, resume | a lock per thread without a barrier on the fast path; threads that suspend each other |
| safe point callbacks (same file) | `safepoint_callback`, `request` | set, run | shares `request` and `disable_count` with suspension |
| global thread lock, iterators (`thread_init.c`, `thread_native_iterator.c`) | `TM_LOCK` (recursive) | lock, unlock, iterate | gives the lock up when suspended; a nested lock does not |
| `Thread.suspend` (`thread_java_suspend.cpp`) | `suspend_flag`, `p_suspend_lock` | suspend, resume | safe points entered with the lock held |
| thin monitors (`thread_native_thin_monitor.c`) | the lock word of every object | enter, exit, reserve, unreserve, inflate | plain stores of the reserving owner against compare-and-swap of others |
| fat lock table (same file) | `lock_table` | look up, allocate, grow, reclaim | hand-made readers and writers |
| fat monitors (`thread_native_fat_monitor.c`) | `HyThreadMonitor` | enter, exit, wait, notify | notifications against timeouts and interrupts |
| condition variables, semaphores, latches | `HySemaphore`, `HyLatch` | wait, post, count down | timed waits, maximum counts |
| park and interrupt (`thread_native_park.c`, `thread_native_interrupt.c`) | `UNPARKED`, `INTERRUPTED`, `current_condition` | park, unpark, interrupt | a permit that must not get lost |
| life cycle (`thread_native_basic.c`) | thread groups, identifiers, non-daemon count | create, attach, exit, wait for non-daemon threads | exit against iteration and shutdown |
| port layer (`port/src/thread/linux/thread_os.c`) | `yield_other` handshake, suspended OS threads | yield other, suspend, resume | signals, timeouts, late answers |
| stop-the-world (`stop_the_world_root_set_enum.cpp`) | | stop, enumerate, resume | all of the above |
| gc_gen (`gc_gen/src`) | collector threads, task pools, spaces | collect | handshakes of collector threads, lock-free pools |
| class loading (`classloader.cpp`, `classloader.h`) | `m_loadingClasses`, `m_loadedClasses`, `m_initiatedClasses` | load, define, wait for another definer | several threads on one name, related names and failures |
| linking and initialization (`Verifier_stub.cpp`, `Prepare.cpp`, `Initialize.cpp`) | `m_state`, `m_initializing_thread` | verify, prepare, check constraints, initialize | one field, two locks, tests without either |
| verifier, interpreter, Jitrino, execution manager, JNI, JVMTI | | | sequential for the most part |

They interact as follows. Java and native code runs in *unsafe regions*
(`disable_count > 0`), where it may touch objects. Whoever needs a thread
stopped (a collector, a JVMTI agent, a thread that wants a lock reserved by
another one, `Thread.suspend`) raises its `suspend_count` and `request`, signals
it, and waits until it is seen outside its unsafe region. Monitors, parking and
sleeping bracket their blocking calls so that a blocked thread counts as
outside. Creation and exit of threads and stop-the-world exclude each other by
the global thread lock.

`PROJECT.json` lists every part with its status, and the hazards at the lines
where they bite.

## Modules

| module | what it is |
|---|---|
| `SafeRegion` | what safe suspension promises: a lock per thread, shared by those who suspend it |
| `SafeSuspend` | the protocol and its clients, one action per atomic step of the code |
| `SafeSuspendInv` | the inductive invariant |
| `MCSafeSuspend` | the module the configurations instantiate |
| `SafeSuspendLemmas`, `SafeSuspendProofs` | lemmas and theorems |
| `LockTable`, `LockTableProofs`, `MCLockTable` | the fat lock table: readers and writers, inflation, liveness reports, reclamation |
| `ThinMonitor`, `ThinMonitorProofs`, `MCThinMonitor` | the Java monitor of one object: reservation, unreservation, recursion, inflation; uses `SafeRegion` |
| `Waiting`, `WaitingProofs`, `MCWaiting` | monitors, park and sleep against notify, unpark, interrupt and stop |
| `ClassLoading`, `MCClassLoading` | concurrent loading and definition of classes through one loader, and the inductive invariant |
| `ClassLoadingLemmas`, `ClassLoadingProofs` | lemmas and theorems |
| `ClassInit`, `MCClassInit` | linking and initialization: the life of `m_state`, and the inductive invariant |
| `ClassInitProofs` | lemmas and theorems |

### SafeSuspend

The variables are the fields of `HyThread` (`suspend_count`, `request`,
`disable_count`, `resume_event`, the bit `SUSPENDED`), `suspend_flag` of
`VM_thread`, the two locks, and for each thread a label `pc` with the locals of
the functions it is in (`call`, `target`, `todo`, `saved`, `ret`). `ret` stands
for the call stack: the safe point and `hythread_resume` are entered from several
places and return to `ret`. Actions bear the names of the functions, with a suffix
where a function takes several atomic steps.

* **Memory.** `hythread_suspend_disable` increments `disable_count` by a plain
  store and then reads `request`; the barrier between the two is commented out
  (`hythread_ext.h:633`). On x86 the load may overtake the store. The model gives
  every thread a FIFO `store_buffer` for its own `disable_count`; locked
  instructions, barriers and mutex operations wait until it is empty (`Drained`).
  The other fields are only written by locked instructions or under a mutex.
* **The signal.** `hythread_yield_other` sends SIGUSR2 and waits for the handler;
  handling a signal completes the buffered stores of the target (`yield_other`).
  This is the barrier that the fast path does without, executed by the other side.
  That the handshake completes is an assumption. `port_thread_yield_other`
  (`thread_os.c:621-635`) gives up after 10 ms; this alone does no harm, since no store stays
  in a buffer for so long and a thread that is switched out has none. But the handler of a
  target that was late answers whatever request is pending then, so the next target may be
  taken to have answered when it has not, with a store still buffered. The safety
  properties of this module are claimed for behaviours in which that does not happen.
* **Regions.** `suspend_disable`, `suspend_disable_check`, `suspend_enable`;
  `blocking_call` is `hythread_reset_suspend_disable`, a blocking call, and
  `hythread_set_suspend_disable`.
* **Safe points.** `safe_point_check`, `_enter`, `_wait`, `_loop`, then
  `set_suspend_disable` and its check, which may enter a safe point again.
* **Suspension.** `send_suspend_count`, `_request`, `_yield` are
  `hythread_send_suspend_request`; `wait_safe_region_read`, `_busy`, `_state` are
  `wait_safe_region_event`, whose answer `TM_ERROR_EBUSY` leads each caller to what
  it does with it (`BusyLabel`, `BusyReturn`).
* **Resumption.** `resume_count` to `resume_post` are `hythread_resume`.
* **Clients.** `unreserve_*` is `hythread_unreserve_lock` under the loop of
  `jthread_monitor_enter`, which tries again after `TM_ERROR_EBUSY`, with a safe point in
  between or without; `inspect*` is `jvmtiGetStackTrace`; `suspend_all*` and
  `resume_all*` are the collector, which may enter an unsafe region of its own
  while the world is stopped; `jthread_*` is `Thread.suspend` and `Thread.resume`.
  The constants `Unreservers`, `Inspectors`, `Collectors` and `JavaSuspenders` say
  which threads do what.

`stage` is a history variable: how far the suspension of each thread by each agent
has got (`none`, `counted`, `requested`, `asked`, `stopped`, `uncounted`). No guard
reads it. The agent of `Thread.suspend` is `Java`, because one thread may resume
what another one suspended. `Unsafe(t)` says that a thread runs in an unsafe
region: by its own reading of `disable_count`, outside the labels of a safe point.

Left out: the callbacks of safe points (in `Waiting`), the lock word that unreserving
changes (in `ThinMonitor`), creation and exit of threads, and the timeout of the signal
handshake. `hythread_suspend` (a thread suspending itself) has no
caller but `hythread_suspend_other` on itself, which no client makes.

### SafeRegion and the refinement

`SafeRegion` has two variables: the threads inside an unsafe region, and for each
thread the agents that hold it. A thread gets inside only while nobody holds it;
nobody gets hold of a thread inside. `SafeSuspend` implements it with
`unsafe = {t : Unsafe(t)}` and `held[t] = {a : stage[a][t] = "stopped"}`
(`ImplementsSafeRegion`).

### LockTable

The variables are the fields of `HyFatLockTable`, the lock word of each object (only
whether and which table entry it names), the locals of `locktable_put_fat_monitor` and
the phase of the collection. A section under `lock_table->mutex` is one step; a wait on
one of the two condition variables splits it. Inside the write section the search and
the store are separate steps, so that two writers inside would be seen to collide.

The world stops between inflations only (`stop_the_world`): `hythread_inflate_lock`
asserts that suspension is disabled, and `StopTheWorld` of `SafeSuspend` is what makes
the guard true. Collector threads report the live objects they mark, possibly twice,
since marking is only idempotent; minor collections report nothing. Which objects are
reachable is the program's business (`drop`, `allocate`).

`locktable_writer_exit` tests `readers_reading` where `readers_waiting` would be
expected, so a reader that has to wait is never woken. The only reader is the
reclamation, in a stopped world, where it never has to wait: `CollectionEnds` is the
property that would fail.

### ThinMonitor

The lock word of one object is a record (`fat`, `id`, `rec`, `res`); the hash bits play no
part. The owner of a reservation changes the word by plain loads and stores, so every load
into the local `copy` and every store is a step. `enter` is `jthread_monitor_enter`: a first
`hythread_thin_monitor_try_enter`, the loop that unreserves, a second try, then the loop of
tries with safe points and, once the lock is fat, the blocking entry. `stage` says which of
these calls a thread is in, `ret` who asked for an inflation. `fast_enter` and `fast_exit`
are what compiled code inlines (`ThreadHelper.java`). `hythread_unreserve_lock` reads the
word, suspends the owner (`unreserve_suspend`, `unreserve_wait`), swaps the word and resumes.

Suspension is taken from `SafeRegion`: a suspender gets hold of a thread in one of
`SafePlaces`, and a thread that is asked to stop leaves no safe place. `ask` and `release`
are suspensions by the rest of the VM; `die` ends a thread that may leave its reservation
behind. `UsesSafeRegion` is the refinement that composes the two: every step of
`ThinMonitor` is one that `SafeRegion` allows, and `SafeSuspend` implements `SafeRegion`.

A wait gives up the monitor in one step and takes it back in another; how a wait ends is in
`Waiting`. Left out: soft unreservation (`use_soft_unreservation`, off by default), failure
of the allocation of a monitor, `hythread_thin_monitor_release` at shutdown; `notify` does
not touch the lock word. Identifiers of dead threads are not given to new ones.

### Waiting

Every wait is `condvar_wait_impl` inside a loop: `monitor_wait_impl`, `hythread_park` (in the
thread's own monitor) or `thread_sleep_impl`. `Begin` enters one and publishes
`waited_monitor`, `condvar_check` tests `interrupted`, `condvar_sleep` releases the mutex and sleeps
in one step, `condvar_wake` takes the mutex again and either loops or leaves. A sleep ends
by notification, timeout, or for no reason (`condvar_spurious`). `hythread_interrupt` sets
the flag, reads `waited_monitor` and notifies, or starts an `hythread_interrupter` thread if
the mutex is taken. A thread that leaves a wait passes a safe point, where a stop may
reach it, before it has the mutex back (`monitor_wait_poll`, `monitor_wait_relock`).
`set_callback` is the compare-and-swap loop of
`hythread_set_safepoint_callback`, used here by `hythread_set_thread_stop_callback`.

A thread may be delayed anywhere, which is all that suspension can do to it here. Left out:
`current_condition` (read only together with `waited_monitor`, which is set all around it), the loop of
`hythread_set_thread_stop_callback` that resumes a suspended target, latches and
interruptible semaphore waits (no caller outside the tests). Two things the properties do
not claim: a stop that comes between a thread's last safe point and its wait is noticed
only when that wait ends, unless the target is seen waiting; and a notification may be
taken by a thread that began to wait after it.

### ClassLoading

One `ClassLoader`, bootstrap or user-defined, and for each name of a class at most one
`LoadingClass` entry (`initiator`, `definer`, `waiting`, `signalled`). Each thread has a
stack of the names it is loading, because a superclass is loaded inside the definition of
its subclass. Sections under `m_lock` are one step; the lock is visible where
`StartLoadingClass`, called with the lock held from `WaitDefinition`, spins. For a
user-defined loader the monitor of the Java `ClassLoader` is held by `loadClass`.
What a class file holds is a `fate`; the scenarios of `MCClassLoading` choose it together
with what each thread asks for. The list `m_waitingThreads` is a set: the code only adds
a thread, removes it, looks for it and tests for the empty list, and nobody is added twice
(`ListOf`, proved: the initiator is never in the list, and others are added only after
`AlreadyWaiting` has said no). `InsertClass` calls Java code of a user-defined loader to
register the class, which may raise an exception (`refused`); the load then fails like one
of a malformed class. A class that the loader leaves to its parent is defined by another
loader (`Delegated`), and so is an array of it: `SetupAsArray` asks that loader for the array,
without `WaitDefinition` and without a definition of its own.

### ClassInit

`m_state` of each class and, for each thread, a stack of activations, since linking calls
linking of the superclass and initializers use other classes. `verify` and `prepare` hold
`m_lock` across steps; `verify_constraints` gives it up around the verifier; `initialize`
works under the monitor of the `java.lang.Class`, a section of which is one step.
`ST_Start` stands for `ST_LoadingAncestors` too. The verifier, the layout and Java code are
abstracted to what they call and whether they fail. Superinterfaces are not loaded; that
one cannot be loaded, or that the superclass is final or an interface, is a failure of
`LoadedAncestors`. The classes are neither interfaces, which leave `prepare` after their static
fields, nor arrays, which it makes `ST_Initialized` at once. Java code that itself holds the monitor
of a `Class` is not modelled.

## Runs

| run | instance | shows |
|---|---|---|
| `suspend` | 2 threads that unreserve locks and call `Thread.suspend` and `resume`, one of them also a collector, nesting 2, buffers of 1 | `CountsAgree`, `SuspensionsOwned`, `NoLostResume`, the inductive invariant (types included), the refinement; both threads get through, `hythread_suspend_all` returns, nobody sleeps for ever |
| `collect` | 3 threads: two collectors, one of them also a stack walker | `StoppedStaysSafe`, `StopTheWorld`, `SuspendedClearAtEnd` |
| `lock_table` | 2 inflating threads, 2 collectors, 2 objects, up to 3 tables of 1 entry, 1 spurious wake-up | the table and its lock: without the spurious wake-up no live monitor is lost and writers are alone; sweeps are exact, inflations and collections end |
| `thin_monitor` | 2 threads, recursion up to 1, one retry of the spin loop, 4 calls, 1 foreign suspension | mutual exclusion, `OwnerLosesNothing`, exits match entries, `UsesSafeRegion`, `EntryEnds` |
| `waiting` | 3 threads, 1 object, 6 scenarios, 3 calls per thread | the monitor is whole after a wait, notifications are bounded by waiters, `request` is exact, interrupt, unpark and stop end waits |
| `class_loading` | 3 threads; a class, its superclass, its array; both kinds of loader; classes missing, malformed, circular, refused, another loader's | defined once, `WaiterKeepsEntry`, no false circularity or linkage error, loaded on return, loads end |
| `class_init` | 3 threads, 2 classes, 22 worlds | one run of the initializer, superclass first, initialized on return, `m_state` moves forward, initialization ends |
| `java_resume`, `walker_busy`, `spurious_wakeup`, `stale_reservation`, `stale_definer` | 2 or 3 threads | violations, see below |

**Bounds.** `MaxDisable` bounds the nesting of unsafe regions: 1 suffices for all
tests of the code (`disable_count == 1`, `!= 0`), 2 lets a nested region happen.
`MaxBuffer` bounds the store buffer: with 1 the dangerous reordering occurs; that a store
of an older region can be behind one of a newer region takes 2, which the proofs cover, for
any bound. Three threads are needed for two independent suspenders of one target. Deadlock
is checked except where `Thread.suspend` is called, since a thread that suspended itself for
good may leave nothing to do, and in the runs that end in a violation.

In `LockTable` 2 objects and 3 entries let the table grow, fill with the monitors of dead
objects and be swept; it is full after minor collections only, and the process then exits
(`DIE`), which is why deadlock is not checked there. With 2 inflating threads at most one
writer waits, so that the order in which a condition variable wakes its sleepers plays no
part in the liveness properties. `MonitorStays` and `WriteExclusive` are about behaviours
before the first spurious wake-up; `spurious_wakeup` shows what happens after it.

In `ThinMonitor` `MAX_RECURSION` 1 and `SPIN_COUNT` 1 stand for 31 and 5: recursion
overflows on the third entry, and the spin loop is passed more than once. `MaxCalls` bounds
entries and waits, `MaxAsks` the suspensions from outside. Two threads suffice for all
pairs of steps on the word; the stale reservation needs a third. In `Waiting` `MaxCalls`
bounds the operations of a thread and its spurious wake-ups, which must not go on for ever
if a wait is to end; `Targets` restricts who is unparked, interrupted and stopped;
`RequestModulus` stands for 2^32: `request` really wraps below zero for a moment when the
callback runs before its setter has requested it. In `ClassLoading` and `ClassInit` each
thread asks for what its scenario says and the behaviour is finite, which is why deadlock
is not checked; the liveness properties say that the threads get there.

**Fairness.** Steps inside the VM's functions are weakly fair (the OS schedules every
thread), buffered stores reach memory. In `SafeSuspend` the safe point poll is strongly
fair: compiled code polls in loops and native code leaves its unsafe regions, which is the
rule on which the whole design rests (`hythread_ext.h:60`). Who has stopped others goes on
to resume them, also if it is stopped itself again and again on the way (`inspect_resume`,
`resume_all`). A mutex that is free again and again is obtained in the end
(`jthread_resume_lock`), so that the counterexample of `java_resume` is not one of
starvation. In `LockTable` every thread inside an inflation, a report or the reclamation
keeps running; nobody has to inflate, to drop objects or to collect. In `ThinMonitor` a
monitor that was entered is left and a foreign suspension is taken back; nobody has to
enter or to be notified. In `Waiting` a thread goes on with what it began, leaves monitors
and passes exception safe points; nobody has to notify, unpark or interrupt, and timeouts
need not come. In `ClassLoading` the monitor of a loader that is free again and again is
obtained (strong fairness of `EnterLoadClass`).

**Conditions.** `SuspendAllReturns` leaves one way out: a collector that is itself the target
of `Thread.suspend` stops where it is until it is resumed. Properties of `ClassLoading` have conditions, because an entry whose definer
is gone (`stale_definer`) misleads those who find it:

* `DefinedOnce` holds if nobody calls JNI `DefineClass` (`Unforced`). If two threads call it
  for a class and for its superclass while a third loads the class by name, the assertions
  of `WaitDefinition` fail and `InsertClass` can be called twice for the class.
* `WaiterKeepsEntry` and `NoFalseError` hold if, besides, the loader can define
  and register every class it finds (`WellFormed`), or the loader is user-defined and nobody asks again
  for what failed (`Undisturbed`). A thread that asks a user-defined loader again for a
  malformed class can find itself entered as the definer from the first time, and gets
  `ClassCircularityError`. Under this condition nobody spins in `StartLoadingClass` with
  `m_lock` held (`heldspin`).
* `LoadEnds` holds for all classes, refused and malformed ones and repeated requests included,
  so also where threads do spin with `m_lock` held; if a definer that is gone fails an
  assertion (`stale_definer`), the VM has stopped instead. Two cases are excepted. With JNI
  `DefineClass` two threads that define a class and its superclass can wait for each other.
  In the bootstrap loader, which takes no lock around a load, two threads that enter a circle of
  classes at different ends wait for each other, each for the class the other defines.
* `LoadedOnReturn` has no condition.

`InitializationEnds` is about hierarchies and initializers without circles (`Ordered`);
with a circle two threads may wait for each other, as the Java language says.

### What the code does differently from what is said of it

* `java_resume`: `jthread_suspend` can sleep in a safe point with `p_suspend_lock` held,
  and `jthread_resume` of that thread then never gets the lock.
* `walker_busy`: `jvmtiGetStackTrace` takes the global lock so that walkers do not suspend each
  other and asserts that `hythread_suspend_other` succeeds (`jvmti_stack.cpp:306-312`). A thread
  that takes a reserved lock from the walker suspends it without the global lock; if it is
  the thread to be walked, the walker is told `TM_ERROR_EBUSY`. Two walkers can get there too:
  one that takes the global lock while the other, which has given it up, is half-way through
  resuming it.
* `spurious_wakeup`: `locktable_writer_enter` waits once, with no loop. POSIX lets
  `pthread_cond_wait` return with no notification, and the assert after the wait holds
  as long as *somebody* writes. Two inflating threads then choose the same entry, although
  a "monitor can't vanish or be moved in lock table" (`thread_native_thin_monitor.c:830`).
* `stale_reservation`: `hythread_thin_monitor_try_enter` swaps the half word with the thread
  id and then looks at a copy of the word read before to see whether the lock is reserved
  (line 358; the reload in line 357 is commented out). If a second thread reserved the lock
  and left, and a third one unreserved it in between, the entry is counted as if the lock
  were still reserved, and the matching exit does not free it.
* `stale_definer`: `FailedLoadingClass` leaves `m_defineOwner` in an entry that others wait
  on. The bootstrap loader's waiter retries, finds a definer that is gone, and fails the
  assertion that it is waiting (`classloader.cpp:764`).

## Proofs

### Suspension

`SafeSuspendProofs` proves, for any finite set of threads, any roles and any bounds
(`ThreadsAssumption`, `BoundsAssumption`):

| theorem | property |
|---|---|
| `Invariance` | `IInv`, the inductive invariant |
| `TypeCorrect` | `TypeOK` |
| `StoppedSafe` | `StoppedStaysSafe` |
| `CountsCorrect` | `CountsAgree` |
| `NothingLeftBehind` | `SuspensionsOwned` |
| `WorldStops` | `StopTheWorld` |
| `ResumeNotLost` | `NoLostResume` |
| `StateCleared` | `SuspendedClearAtEnd` |
| `KeepsPromise` | `ImplementsSafeRegion`: `SafeSuspend` implements `SafeRegion` |

**The argument.** Safety is not inductive by itself, since it says nothing of a
suspender that is still waiting. `IInv` adds:

* control (`ControlInv`): at which labels an operation can be, what a thread in a safe
  point knows of its own `disable_count`, which labels mean that a lock is held;
* suspensions (`StageInv`): the label of an operation determines how far the suspension
  it works on has got, and for the collector those before and behind its iterator;
  `suspend_flag` is exact except for the target of the holder of `p_suspend_lock`;
* `CountsAgree`: `suspend_count` and `request` are the numbers of suspensions;
* regions (`RegionInv`): a thread that was signalled and runs in an unsafe region
  *shows* it, in memory and in every store still buffered; so a suspender that reads 0
  has found a thread that is outside, and a thread that is outside cannot get inside,
  because it tests `request` or `suspend_count` on the way and both are positive by
  `CountsAgree`.

`SafeSuspendLemmas` has the lemmas on buffers, labels, locks, types and frames, one
case per group of actions. It then abstracts steps into *moves* (stay in place, advance a
suspension, advance a resumption, ...), shows that every step is one, and derives from the
moves alone that labels and suspensions stay in agreement and how the counts change.
`SafeSuspendProofs` puts them together. `SuspendedClearAtEnd` needs no further
strengthening: the step that sets the state follows a signal, so a suspension is in
progress, and the step that forgets the last suspension finds `suspend_count` at 0 by
`CountsAgree` and goes on to clear the state.

### Class initialization

`ClassInitProofs` proves, for any threads, any classes of which none is its own superclass,
and any behaviour of the verifier and the initializers
(`WorldsAssumption`, `HierarchyAssumption`; `NoThreadAssumption` and `NoClassAssumption`
keep the two null values apart from threads and classes):

| theorem | property |
|---|---|
| `Invariance` | `IInv`, the inductive invariant |
| `StaticInitializerRunsOnce` | `InitializedOnce` |
| `SuperclassFirst` | `SuperFirst` |
| `WaiterIsNotified` | `NoLostWaiter`: who waits waits for a thread that is still initializing |
| `StatesMoveForward` | `StateMovesForward` |
| `ReturnsInitialized` | `InitializedOnReturn` |

**The argument.** What a thread does next depends on a stack of activations, and the
properties are about the stacks of all threads together. `IInv` says:

* of a class (`ClassInv`): it is `ST_Initializing` exactly while `m_initializing_thread`
  names a thread, and before that its initializer has not run;
* of an activation (`FramesInv`): what its label says of the state of the class, of the
  lock it holds and of the thread named as initializing;
* of the stack of a thread: activations below the top are in a call (`Calling`), one
  activation at most is between steps 6 and 10 for a class (`Single`), and the one that
  called the initialization of the superclass has the superclass usable once that call
  has returned normally (`SuperCalls`);
* of a thread and a class: the thread named as initializing has an activation that will
  name it no more (`RunnerExists`), and nobody waits un-notified for a class that is not
  being initialized by another thread (`NoLostWaiter`).

A step changes the top of one stack and the state of at most one class. The proof
first shows what pushing, popping and jumping do to the conjuncts on the stack of the thread
that moves, and that those of the other threads survive any change of state which goes
forward and leaves alone what they hold. From there on each action has a lemma.

### Class loading

`ClassLoadingProofs` proves, for any threads, any names and any scenarios in which an array
class has a base class and only a user-defined loader has a parent (`ScenarioAssumption`;
`NothingAssumption` keeps the null values apart from threads, names and entries):

| theorem | property |
|---|---|
| `Invariance` | `IInv`, the inductive invariant |
| `ReturnsLoaded` | `LoadedOnReturn`, unconditional |
| `Once` | `DefinedOnce`, without JNI `DefineClass` |
| `WaitersKeepEntries` | `WaiterKeepsEntry`, conditional on `Undisturbed` |
| `NoFalseErrors` | `NoFalseError`, conditional on `Undisturbed` |

**The argument.** `IInv` has three layers, each resting on the one before and each with the
condition under which it holds.

* `RequestInv`, always: where a thread is says what it has found out about the innermost name
  of its stack, and who spins after `StartLoadingClass` is in the list of the entry. This
  gives `LoadedOnReturn`.
* `LoadInv`, without JNI `DefineClass`. The stack of a thread is a chain of ancestors
  (`ChainOf`). Names of which no load can succeed are `Doomed`: the largest set of names that
  are missing, malformed or refused, or need an ancestor in the set. A thread fails only with a doomed
  name, so whatever a failure leaves behind in an entry is there for doomed names only,
  which are never inserted. For the others the definer in the entry is the initiator and the
  one thread that defines the class (`OpenEntry`), and once it is loaded nobody is left who
  defines it (`LoadedEntry`). In a user-defined loader that nobody gets to `WaitDefinition`
  late rests on the monitor of the Java `ClassLoader`, held as often as its owner is in
  `loadClass` (`MonitorInv`, a cardinality). This gives `DefinedOnce`, and that
  nobody is told of a class defined meanwhile.
* `OrderInv`, if `Undisturbed`: the definer in an entry defines the class, or has failed in a
  user-defined loader and does not come back (`Gone`). So a thread that finds itself the
  definer is an ancestor of itself by its own stack, which makes the class files circular.
  This gives `NoFalseError`, and with the lists of `RequestInv` `WaiterKeepsEntry`.

A step changes the top of one stack and the entry of one name. `ClassLoadingLemmas` proves
`RequestInv` and says what a step does to the stacks, to the entry it is about and to the
monitor of the loader, for the thread that moves and for the others. `ClassLoadingProofs`
keeps `LoadInv` and `OrderInv`, one lemma per action, and draws the conclusions.

### Thin monitors

`ThinMonitorProofs` proves, for any threads and any bounds (`BoundsAssumption`):

| theorem | property |
|---|---|
| `Invariance` | `IInv`, the inductive invariant |
| `OneThreadInside` | `MutualExclusion` |
| `StoresAreTheOwners` | `OwnerLosesNothing` |
| `UnreservingIsSafe` | `UsesSafeRegion`: the steps are steps of `SafeRegion` as its clients may take them |
| `PairExitsMatch` | `ExitsMatchEntries`, for at most two threads (`TwoThreads`) |
| `PairTypeCorrect` | `TypeOK`, for at most two threads |

**The argument.** `MutualExclusion` speaks of entries, the code of a word that is read and
stored in separate steps. `IInv` says that every entry of a thread is counted where the
thread will look for it, in the word, in the fat monitor or in the locals of `Object.wait`
(`HoldOf`); that these are never two places at once (`WordInv`); that a copy the owner is
about to store is still the word (`CopyOf`); and that a thread whose reservation is being
taken away stays in a safe place until that is done (`VictimOf`). The count may exceed the
entries. With three threads it does: that is the stale reservation of the run
`stale_reservation`, so `depth >= 0` and `ExitsMatchEntries` are theorems about two threads
only, with the equality in place of the inequality (`CountOf`) and the reason why a
reservation that a spinning thread saw cannot have gone (`FreshOf`). Each action has a
lemma; a step of one thread reaches the invariants of the others only through what
`Framed` allows.

### Fat lock table

`LockTableProofs` proves, for any finite sets of inflating threads, collecting threads and
monitors, any objects, any table and any number of spurious wake-ups (`TableAssumption`,
`FiniteAssumption`, `MonitorsAssumption`, `NamesAssumption`):

| theorem | property |
|---|---|
| `Invariance` | `IInv`, the inductive invariant |
| `TypeCorrect` | `TypeOK` |
| `WritersExclude` | `WriteExclusive`, conditional on `spurious = 0` |
| `MonitorsStay` | `MonitorStays`, conditional on `spurious = 0` |
| `SweepExact` | `SweepIsExact`, unconditional |

**The argument.** A writer that leaves hands the lock to a sleeping one without passing
through `IDLE`, so the lock belongs to the threads in a write section *and* to those woken
and not yet back (`Holds`); `LockInv` says there is at most one of them, and that
`writers_waiting` is the number of threads at the wait. What is in an entry rests on
this exclusion (`InflateInv`, `EntryInv`), and therefore holds while no wait has returned
for no reason; that an entry in use is not *emptied* does not rest on it. `MarkInv` follows
the marks from the reports through the sweep, and `WorldInv` says who can be where in each
phase of a collection.

### Waiting

`WaitingProofs` proves, for any finite set of threads, any objects and any scenarios
(`BoundsAssumption`, `NamesAssumption`):

| theorem | property |
|---|---|
| `Invariance` | `IInv`, the inductive invariant |
| `OwnersHold` | `OwnerHoldsMutex` |
| `NotificationsCounted` | `NotificationsBounded` |
| `RequestsCounted` | `RequestAgrees`, modulo any `RequestModulus` |

**The argument.** The three properties are inductive together once it is known where a
thread in a wait can be (`PlaceInv`), that the set of a condition is exactly the threads
asleep there (`SleepInv`), that nobody notifies the monitor in which a thread parks or sleeps
(`OwnUnnotified`), and that a thread which stops itself keeps its slot until its callback has
run (`OwnSlot`). The counts are cardinalities, so the lemmas before the actions say what
adding and removing one thread does to them.

### Only model-checked

* Liveness: fairness and `ENABLED` are out of the prover's reach.
* `TypeOK` and `ExitsMatchEntries` of `ThinMonitor` for three threads and more are false;
  see above.

## Not modelled

The project covers the protocols between threads, a small part of the source by lines:
most of the repository is a compiler, a verifier, an interpreter and collectors.

* Sequential parts (verifier, interpreter, Jitrino, class file parsing, JNI conversions)
  have no protocol that a small instance would exercise.
* Thread registry: groups, identifiers, attachment and exit, the non-daemon count.
* The handshake of `port_thread_yield_other` with its timeout, which `SafeSuspend` replaces
  by its effect.
* gc_gen: the handshakes of collector threads, the lock-free pools, the states of a
  concurrent collection.
* Windows variants; the model follows the Linux build with lock reservation
  (`LOCK_RESERVATION` in `hythread_ext.h`).
