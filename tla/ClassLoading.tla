---------------------------- MODULE ClassLoading ----------------------------
(***************************************************************************)
(* How the threads of the VM load classes through one ClassLoader          *)
(* (vmcore/src/class_support/classloader.cpp): the table m_loadingClasses  *)
(* of loads in progress, through which concurrent loaders of a name find   *)
(* each other, and the tables of loaded and initiated classes.  The loader *)
(* is the bootstrap loader, or a user-defined one whose loadClass is the   *)
(* synchronized method of java.lang.ClassLoader.                           *)
(*                                                                         *)
(* Every section under m_lock is one step.  The lock is visible only where *)
(* StartLoadingClass, called by WaitDefinition with m_lock held, gives     *)
(* back its own hold and spins: the outer hold stays ("heldspin").         *)
(*                                                                         *)
(* Class files are abstracted to what becomes of a name (its fate):        *)
(*   "missing"    the loader does not find it,                             *)
(*   "malformed"  DefineClass fails on it (parsing, or memory),            *)
(*   "fine"       it is defined once its superclass is loaded,             *)
(*   "delegated"  the parent of a user-defined loader has it,              *)
(*   "array"      it is an array class: no file, but a base class.         *)
(* Past that a class may still be refused: registerLoadedClass throws, or  *)
(* the loader of the base class cannot make the array.                     *)
(* A superinterface is one more ancestor and is loaded as the superclass   *)
(* is.  Linking the ancestors is in module ClassInit.                      *)
(***************************************************************************)
EXTENDS Integers, Sequences, FiniteSets

CONSTANTS
    Threads,
    Names,
    Scenarios,    \* a loader, its class files, and what every thread asks for
    NoThread, NoName, NoEntry

VARIABLES
    scenario,          \* the member of Scenarios this behaviour plays
    loadedClasses,     \* ClassLoader::m_loadedClasses, by name
    initiatedClasses,  \* ClassLoader::m_initiatedClasses, by name
    loading,           \* ClassLoader::m_loadingClasses, by name
    monitor,           \* the monitor of the java.lang.ClassLoader: owner, depth
    pc,                \* where the thread's innermost load is
    stack,             \* names the thread is loading, the innermost first
    exn,               \* the exception raised in the thread
    broken             \* assertions that failed and DIEs

tables == <<loadedClasses, initiatedClasses>>
vars == <<scenario, tables, loading, monitor, pc, stack, exn, broken>>

Top(t) == Head(stack[t])

\* The superclass of a class, the base class of an array class.
Ancestor(n) == scenario.super[n]
Fate(n) == scenario.fate[n]
IsArray(n) == Fate(n) = "array"
Refused(n) == n \in scenario.refused

\* Another loader defines the class, or the base class of the array and so the array.
Delegated(n) == Fate(n) = "delegated" \/ (IsArray(n) /\ Fate(Ancestor(n)) = "delegated")
Foreign(n) == Delegated(n) /\ ~Refused(n)

\* The load is a call of JNI DefineClass, not of LoadClass.
Direct(t) == Len(stack[t]) = 1 /\ scenario.job[t].entry = "define"

\* The load runs inside loadClass of a user-defined loader.
InJava(t) == scenario.user /\ ~IsArray(Top(t)) /\ ~Direct(t)

Init ==
    /\ scenario \in Scenarios
    /\ loadedClasses = {}
    /\ initiatedClasses = {}
    /\ loading = [n \in Names |-> NoEntry]
    /\ monitor = [owner |-> NoThread, depth |-> 0]
    /\ pc = [t \in Threads |-> scenario.job[t].entry]
    /\ stack = [t \in Threads |-> <<scenario.job[t].name>>]
    /\ exn = [t \in Threads |-> "none"]
    /\ broken = {}

Goto(t, label) == pc' = [pc EXCEPT ![t] = label]

Raise(t, what) == exn' = [exn EXCEPT ![t] = what]

\* A failed assertion of the code is remembered; the code goes on.
Expect(condition, name) == broken' = broken \cup IF condition THEN {} ELSE {name}

\* m_lock is free: nobody spins inside WaitDefinition's hold.
LockFree == \A u \in Threads : pc[u] # "heldspin"

-----------------------------------------------------------------------------
(* Entries of m_loadingClasses. *)

NewEntry(t) == [initiator |-> t, definer |-> NoThread, waiting |-> {}, signalled |-> FALSE]

AlreadyWaiting(e, t) == t \in e.waiting

AddWaitingThread(e, t) == [e EXCEPT !.waiting = @ \cup {t}]

RemoveWaitingThread(e, t) == [e EXCEPT !.waiting = @ \ {t}]

EnqueueInitiator(e, t) ==
    IF e.initiator = t
    THEN e
    ELSE LET replaced == IF e.initiator = NoThread
                         THEN e
                         ELSE [AddWaitingThread(e, e.initiator) EXCEPT !.initiator = t]
         IN  RemoveWaitingThread(replaced, t)

ChangeDefinerAndInitiator(e, t) == EnqueueInitiator([e EXCEPT !.definer = t], t)

\* A plausible bug: the entry goes although threads wait on it.
Kept_never(e) == NoEntry

\* An entry threads still wait on stays in the table.
Kept(e) == IF e.waiting = {} THEN NoEntry ELSE e

RemoveLoadingClass(e, t) == Kept([EnqueueInitiator(e, t) EXCEPT !.initiator = NoThread])

\* A plausible bug: the waiters are not signalled.
Signalled_silent(e, t) == IF e = NoEntry THEN e ELSE RemoveLoadingClass(e, t)

\* SuccessLoadingClass and FailedLoadingClass on the entry they find.
Signalled(e, t) ==
    IF e = NoEntry THEN e ELSE RemoveLoadingClass([e EXCEPT !.signalled = TRUE], t)

-----------------------------------------------------------------------------
(* Returning from a load. *)

\* The load of t gives no class: the load of the subclass or array that asked
\* for it fails too, or the request of the thread does.
ReturnNull(t) ==
    /\ stack' = [stack EXCEPT ![t] = IF Len(@) = 1 THEN @ ELSE Tail(@)]
    /\ Goto(t, IF Len(stack[t]) = 1 THEN "done" ELSE "fail")

\* DefineClass or SetupAsArray gives no class: loadClass throws, or the load ends.
DefineNull(t) == IF InJava(t) THEN Goto(t, "throw") /\ UNCHANGED stack ELSE ReturnNull(t)

\* DefineClass or SetupAsArray gives the class.
DefineClassOf(t) ==
    Goto(t, IF InJava(t) THEN "leave" ELSE IF Direct(t) THEN "done" ELSE "record")

-----------------------------------------------------------------------------
(* StartLoadingClass: what one pass under m_lock finds, and what it leaves in *)
(* the entry of the name.                                                     *)

Found(n) == n \in initiatedClasses \cup loadedClasses

Collides(n) == ~Found(n) /\ loading[n] # NoEntry

\* The thread is the initiator or the definer of the load in progress.
Recurs(t, n) == Collides(n) /\ t \in {loading[n].initiator, loading[n].definer}

\* The thread is registered already: it has waited for a load that failed.
Retries(t, n) == Collides(n) /\ ~Recurs(t, n) /\ AlreadyWaiting(loading[n], t)

Registers(t, n) == Collides(n) /\ ~Recurs(t, n) /\ ~AlreadyWaiting(loading[n], t)

\* Only the bootstrap loader waits; a thread of a user loader goes on to loadClass.
Waits(t, n) == Registers(t, n) /\ ~scenario.user

StartEntry(t, n) ==
    CASE Found(n)        -> loading[n]
      [] Recurs(t, n)    -> Signalled(loading[n], t)
      [] Retries(t, n)   -> IF scenario.user
                            THEN loading[n]
                            ELSE RemoveWaitingThread([loading[n] EXCEPT !.initiator = t], t)
      [] Registers(t, n) -> AddWaitingThread(loading[n], t)
      [] OTHER           -> NewEntry(t)

\* DoLoadClass of either kind of loader, up to the search for the class.
StartLoadingClass(t) ==
    LET n == Top(t) IN
    /\ pc[t] = "start"
    /\ LockFree
    /\ loading' = [loading EXCEPT ![n] = StartEntry(t, n)]
    /\ Expect(~(scenario.user /\ Retries(t, n)), "recursive")
    /\ \/ /\ Found(n)
          /\ Goto(t, "record")
          /\ UNCHANGED <<stack, exn>>
       \/ /\ Recurs(t, n)
          /\ Raise(t, "circularity")
          /\ ReturnNull(t)
       \/ /\ Waits(t, n)
          /\ Goto(t, "spin")
          /\ UNCHANGED <<stack, exn>>
       \/ /\ ~Found(n) /\ ~Recurs(t, n) /\ ~Waits(t, n)
          /\ Goto(t, IF IsArray(n) THEN "array" ELSE IF scenario.user THEN "java" ELSE "read")
          /\ UNCHANGED <<stack, exn>>
    /\ UNCHANGED <<scenario, tables, monitor>>

\* A plausible bug: the waiter takes it that the other thread has loaded the class.
WaitLoading_trusting(t) ==
    /\ \/ pc[t] = "spin"     /\ Goto(t, "record")
       \/ pc[t] = "heldspin" /\ Goto(t, "wdspin")
    /\ loading[Top(t)] # NoEntry => loading[Top(t)].signalled
    /\ UNCHANGED <<scenario, tables, loading, monitor, stack, exn, broken>>

\* WaitLoading: spins until the entry is signalled, then the caller looks again.
WaitLoading(t) ==
    /\ \/ pc[t] = "spin"     /\ Goto(t, "start")
       \/ pc[t] = "heldspin" /\ Goto(t, "wdspin")
    /\ loading[Top(t)] # NoEntry => loading[Top(t)].signalled
    /\ UNCHANGED <<scenario, tables, loading, monitor, stack, exn, broken>>

\* BootstrapClassLoader::LoadFromFile: the class path has the file or not.
LoadFromFile(t) ==
    /\ pc[t] = "read"
    /\ IF Fate(Top(t)) = "missing"
       THEN Raise(t, "notfound") /\ Goto(t, "fail")
       ELSE UNCHANGED exn /\ Goto(t, "define")
    /\ UNCHANGED <<scenario, tables, loading, monitor, stack, broken>>

\* The base class of an array is loaded first.
SetupAsArray(t) ==
    /\ pc[t] = "array"
    /\ stack' = [stack EXCEPT ![t] = <<Ancestor(Top(t))>> \o @]
    /\ Goto(t, "start")
    /\ UNCHANGED <<scenario, tables, loading, monitor, exn, broken>>

-----------------------------------------------------------------------------
(* java.lang.ClassLoader.loadClass, called by UserDefinedClassLoader. *)

EnterLoadClass(t) ==
    /\ pc[t] = "java"
    /\ monitor.owner \in {NoThread, t}
    /\ monitor' = [owner |-> t, depth |-> monitor.depth + 1]
    /\ Goto(t, "lookup")
    /\ UNCHANGED <<scenario, tables, loading, stack, exn, broken>>

\* findLoadedClass, the parent, findClass.
SearchClass(t) ==
    /\ pc[t] = "lookup"
    /\ LockFree
    /\ \/ /\ Found(Top(t)) \/ Fate(Top(t)) = "delegated"
          /\ Goto(t, "leave")
          /\ UNCHANGED exn
       \/ /\ ~Found(Top(t)) /\ Fate(Top(t)) = "missing"
          /\ Raise(t, "notfound")
          /\ Goto(t, "throw")
       \/ /\ ~Found(Top(t)) /\ Fate(Top(t)) \notin {"missing", "delegated"}
          /\ Goto(t, "define")
          /\ UNCHANGED exn
    /\ UNCHANGED <<scenario, tables, loading, monitor, stack, broken>>

\* loadClass returns or throws.
LeaveLoadClass(t) ==
    /\ monitor' = [owner |-> IF monitor.depth = 1 THEN NoThread ELSE t,
                   depth |-> monitor.depth - 1]
    /\ \/ /\ pc[t] = "leave"
          /\ Goto(t, IF Fate(Top(t)) = "delegated" THEN "delegated" ELSE "record")
       \/ /\ pc[t] = "throw"
          /\ Goto(t, "refail")
    /\ UNCHANGED <<scenario, tables, loading, stack, exn, broken>>

-----------------------------------------------------------------------------
(* DefineClass, and the same steps in SetupAsArray. *)

\* DefineClass refuses a name that LookupClass finds.
LookupClass(t) ==
    /\ pc[t] = "define"
    /\ LockFree
    /\ IF Found(Top(t))
       THEN Raise(t, "linkage") /\ DefineNull(t)
       ELSE Goto(t, "waitdef") /\ UNCHANGED <<stack, exn>>
    /\ UNCHANGED <<scenario, tables, loading, monitor, broken>>

\* The end of WaitDefinition: the thread makes itself the definer of entry e.
\* DefineClass gives up if an exception was raised on the way.
BecomeDefiner(t, e, raised) ==
    IF e = NoEntry
    THEN /\ Expect(FALSE, "loading")
         /\ loading' = [loading EXCEPT ![Top(t)] = e]
         /\ Goto(t, "crash")
         /\ UNCHANGED stack
    ELSE /\ Expect(e.definer = NoThread, "owner")
         /\ loading' = [loading EXCEPT ![Top(t)] = ChangeDefinerAndInitiator(e, t)]
         /\ IF raised /\ ~IsArray(Top(t))
            THEN DefineNull(t)
            ELSE Goto(t, "new") /\ UNCHANGED stack

\* A plausible bug: a thread that waited gets the error of one that did not.
StartUnderLock_error(t) ==
    LET n == Top(t) IN
       \/ /\ Found(n)
          /\ Raise(t, "linkage")
          /\ IF IsArray(n) THEN Goto(t, "new") /\ UNCHANGED stack ELSE DefineNull(t)
          /\ UNCHANGED <<loading, broken>>
       \/ /\ Waits(t, n)
          /\ loading' = [loading EXCEPT ![n] = StartEntry(t, n)]
          /\ Goto(t, "heldspin")
          /\ UNCHANGED <<stack, exn, broken>>
       \/ /\ ~Found(n) /\ ~Waits(t, n)
          /\ BecomeDefiner(t, StartEntry(t, n), Recurs(t, n))
          /\ IF Recurs(t, n) THEN Raise(t, "circularity") ELSE UNCHANGED exn

\* The call of StartLoadingClass under WaitDefinition's hold of m_lock, and what
\* follows: a class that is found is returned to a thread registered with the
\* entry and is an error for any other.  SetupAsArray goes on after the error.
StartUnderLock(t) ==
    LET n == Top(t)
        registered == loading[n] # NoEntry /\ AlreadyWaiting(loading[n], t)
    IN \/ /\ Found(n) /\ registered
          /\ loading' = [loading EXCEPT ![n] = Kept(RemoveWaitingThread(@, t))]
          /\ DefineClassOf(t)
          /\ UNCHANGED <<stack, exn, broken>>
       \/ /\ Found(n) /\ ~registered
          /\ Raise(t, "linkage")
          /\ IF IsArray(n) THEN Goto(t, "new") /\ UNCHANGED stack ELSE DefineNull(t)
          /\ UNCHANGED <<loading, broken>>
       \/ /\ Waits(t, n)
          /\ loading' = [loading EXCEPT ![n] = StartEntry(t, n)]
          /\ Goto(t, "heldspin")
          /\ UNCHANGED <<stack, exn, broken>>
       \/ /\ ~Found(n) /\ ~Waits(t, n)
          /\ BecomeDefiner(t, StartEntry(t, n), Recurs(t, n))
          /\ IF Recurs(t, n) THEN Raise(t, "circularity") ELSE UNCHANGED exn

\* A plausible bug: a thread that finds another definer does not wait for it.
WaitDefinition_nowait(t) ==
    LET e == loading[Top(t)]
        entered == e # NoEntry /\ Top(t) \notin loadedClasses
    IN
    /\ pc[t] = "waitdef"
    /\ LockFree
    /\ \/ entered /\ BecomeDefiner(t, e, FALSE) /\ UNCHANGED exn
       \/ ~entered /\ StartUnderLock(t)
    /\ UNCHANGED <<scenario, tables, monitor>>

WaitDefinition(t) ==
    LET e == loading[Top(t)]
        entered == e # NoEntry /\ Top(t) \notin loadedClasses
    IN
    /\ pc[t] = "waitdef"
    /\ LockFree
    /\ \/ /\ entered /\ e.definer = NoThread
          /\ BecomeDefiner(t, e, FALSE)
          /\ UNCHANGED exn
       \/ /\ entered /\ e.definer # NoThread
          /\ Expect(e.definer # t /\ AlreadyWaiting(e, t), "waiter")
          /\ Goto(t, "wdspin")
          /\ UNCHANGED <<loading, stack, exn>>
       \/ /\ ~entered
          /\ StartUnderLock(t)
    /\ UNCHANGED <<scenario, tables, monitor>>

\* The definer this thread waited for is done: WaitDefinition looks again.
WaitedDefinition(t) ==
    /\ pc[t] = "wdspin"
    /\ loading[Top(t)] # NoEntry => loading[Top(t)].signalled
    /\ LockFree
    /\ StartUnderLock(t)
    /\ UNCHANGED <<scenario, tables, monitor>>

\* NewClass and parse, and load_ancestors, which loads the superclass with the
\* same loader.  The ancestors of an array class are loaded long since.
NewClass(t) ==
    /\ pc[t] = "new"
    /\ \/ /\ Fate(Top(t)) = "malformed"
          /\ Raise(t, "format")
          /\ Goto(t, "fail")
          /\ UNCHANGED stack
       \/ /\ IsArray(Top(t)) \/ (Fate(Top(t)) # "malformed" /\ Ancestor(Top(t)) = NoName)
          /\ Goto(t, "insert")
          /\ UNCHANGED <<stack, exn>>
       \/ /\ Fate(Top(t)) \notin {"malformed", "array"} /\ Ancestor(Top(t)) # NoName
          /\ stack' = [stack EXCEPT ![t] = <<Ancestor(Top(t))>> \o @]
          /\ Goto(t, "start")
          /\ UNCHANGED exn
    /\ UNCHANGED <<scenario, tables, loading, monitor, broken>>

\* InsertClass: a user-defined loader registers the class first.  The maps DIE on an
\* element inserted twice.
InsertClass(t) ==
    /\ pc[t] = "insert"
    /\ \/ /\ Refused(Top(t))
          /\ Raise(t, "refused")
          /\ Goto(t, "fail")
          /\ UNCHANGED <<tables, broken>>
       \/ /\ ~Refused(Top(t))
          /\ LockFree
          /\ loadedClasses' = loadedClasses \cup {Top(t)}
          /\ initiatedClasses' = initiatedClasses \cup {Top(t)}
          /\ Expect(~Found(Top(t)), "inserted")
          /\ Goto(t, IF Found(Top(t)) THEN "crash" ELSE "success")
          /\ UNCHANGED exn
    /\ UNCHANGED <<scenario, loading, monitor, stack>>

SuccessLoadingClass(t) ==
    /\ LockFree
    /\ \/ pc[t] = "success" /\ DefineClassOf(t)
       \/ pc[t] = "delegated" /\ Goto(t, "record")
    /\ loading' = [loading EXCEPT ![Top(t)] = Signalled(@, t)]
    /\ UNCHANGED <<scenario, tables, monitor, stack, exn, broken>>

\* Called where a load fails, and again when loadClass has thrown.
FailedLoadingClass(t) ==
    /\ LockFree
    /\ \/ pc[t] = "fail" /\ DefineNull(t)
       \/ pc[t] = "refail" /\ ReturnNull(t)
    /\ loading' = [loading EXCEPT ![Top(t)] = Signalled(@, t)]
    /\ UNCHANGED <<scenario, tables, monitor, exn, broken>>

\* SetupAsArray, when the base class of array n is loaded: if another loader has
\* defined it, that loader makes the array class too.
BaseLoaded(t, n) ==
    IF Delegated(n) /\ Refused(n)
    THEN Raise(t, "refused") /\ Goto(t, "fail")
    ELSE UNCHANGED exn /\ Goto(t, IF Delegated(n) THEN "delegated" ELSE "waitdef")

\* LoadClass records the class as initiated; the load of the subclass or of the
\* array goes on.
LoadClass(t) ==
    LET rest == Tail(stack[t]) IN
    /\ pc[t] = "record"
    /\ LockFree
    /\ initiatedClasses' = initiatedClasses \cup {Top(t)}
    /\ \/ rest = <<>> /\ Goto(t, "done") /\ UNCHANGED <<stack, exn>>
       \/ /\ rest # <<>>
          /\ stack' = [stack EXCEPT ![t] = rest]
          /\ IF IsArray(Head(rest))
             THEN BaseLoaded(t, Head(rest))
             ELSE Goto(t, "insert") /\ UNCHANGED exn
    /\ UNCHANGED <<scenario, loadedClasses, loading, monitor, broken>>

Step(t) ==
    \/ StartLoadingClass(t) \/ WaitLoading(t) \/ LoadFromFile(t) \/ SetupAsArray(t)
    \/ EnterLoadClass(t) \/ SearchClass(t) \/ LeaveLoadClass(t)
    \/ LookupClass(t) \/ WaitDefinition(t) \/ WaitedDefinition(t)
    \/ NewClass(t) \/ InsertClass(t)
    \/ SuccessLoadingClass(t) \/ FailedLoadingClass(t) \/ LoadClass(t)

\* A thread whose request failed asks again.
Again(t) ==
    /\ pc[t] = "done"
    /\ exn[t] # "none"
    /\ scenario.again
    /\ Goto(t, scenario.job[t].entry)
    /\ Raise(t, "none")
    /\ UNCHANGED <<scenario, tables, loading, monitor, stack, broken>>

Next == \E t \in Threads : Step(t) \/ Again(t)

Spec == Init /\ [][Next]_vars

\* Threads keep running, and a monitor that is free again and again is got in the end.
FairSpec == Spec /\ \A t \in Threads : WF_vars(Step(t)) /\ SF_vars(EnterLoadClass(t))

-----------------------------------------------------------------------------

\* Nobody calls JNI DefineClass.
Unforced == \A t \in Threads : scenario.job[t].entry # "define"

\* However many threads load a name at once, InsertClass is called for it once, also if
\* loads fail and are tried again, as long as nobody calls JNI DefineClass: the maps of the
\* loader DIE on a second insertion.
DefinedOnce == Unforced => "inserted" \notin broken

\* Some names of the scenario are ancestors of each other.
Circular == \E S \in (SUBSET Names) \ {{}} : \A n \in S : Ancestor(n) \in S

\* A class found is not lost again for want of its superclass.
Definable(n) ==
    Fate(n) = "fine" => Ancestor(n) = NoName \/ Fate(Ancestor(n)) \in {"fine", "delegated"}

\* Every class that a loader finds can be defined: FailedLoadingClass then leaves no entry
\* whose definer is gone.
WellFormed ==
    ~Circular /\ \A n \in Names : Fate(n) # "malformed" /\ Definable(n) /\ ~Refused(n)

\* A definer that is gone does not matter in a user-defined loader, unless it comes back.
Undisturbed == Unforced /\ (WellFormed \/ (scenario.user /\ ~scenario.again))

\* A thread spins on the LoadingClass of its name only while the table has one, so
\* that RemoveLoadingClass never takes away the entry somebody waits on.
WaiterKeepsEntry ==
    Undisturbed => \A t \in Threads :
        pc[t] \in {"spin", "wdspin", "heldspin"} => loading[Top(t)] # NoEntry

\* No thread gets an error of other threads' making: ClassCircularityError only if the
\* class files are circular, not because threads that load related classes meet in
\* m_loadingClasses; and one that loads a class by name is never told that it is defined
\* already, though others define it at the same time.
NoFalseError ==
    Undisturbed => \A t \in Threads :
        exn[t] # "linkage" /\ (exn[t] = "circularity" => Circular)

\* A load that ends without an exception has a class to return, recorded as initiated
\* and defined here or by the parent, also if another thread did the work or failed in it.
LoadedOnReturn ==
    \A t \in Threads : pc[t] = "done" /\ exn[t] = "none" /\ scenario.job[t].entry # "done" =>
        LET n == scenario.job[t].name IN
        n \in initiatedClasses /\ (n \in loadedClasses \/ Foreign(n))

\* Every load ends, as long as nobody calls JNI DefineClass and the bootstrap loader meets
\* no circle of classes: the threads that wait for the definer of a class are released when
\* it succeeds and when it fails, and nobody spins for ever, with m_lock held or without.
\* Where a failed definer stays entered the VM may stop instead, as the run of
\* WaiterRegistered shows.
LoadEnds ==
    \A t \in Threads :
        Unforced /\ (scenario.user \/ ~Circular) /\ pc[t] # "done" ~>
            (pc[t] = "done" \/ (~Undisturbed /\ \E u \in Threads : pc[u] = "crash"))

\* What WaitDefinition asserts of the thread that finds a definer in the entry of its
\* class: it is not that definer, and it is registered as waiting.
WaiterRegistered == "waiter" \notin broken

-----------------------------------------------------------------------------
(* The inductive invariants from which ClassLoadingProofs derives the safety  *)
(* properties, for every scenario in which class files say what they can say: *)
(* an array class has a base class and is nobody's ancestor, and only a       *)
(* user-defined loader has a parent and the method registerLoadedClass.       *)

Fates == {"missing", "malformed", "fine", "delegated", "array"}

ASSUME ScenarioAssumption ==
    \A s \in Scenarios :
        /\ s.user \in BOOLEAN
        /\ s.super \in [Names -> Names \cup {NoName}]
        /\ s.fate \in [Names -> Fates]
        /\ s.refused \subseteq {n \in Names : s.user /\ s.fate[n] \in {"fine", "array"}}
        /\ s.job \in [Threads -> [entry : {"start", "define", "done"}, name : Names]]
        /\ \A n \in Names : s.fate[n] = "array" => s.super[n] # NoName
        /\ \A n \in Names : s.super[n] # NoName => s.fate[s.super[n]] # "array"
        /\ \A n \in Names : s.fate[n] = "delegated" => s.user

Entries ==
    [initiator : Threads \cup {NoThread}, definer : Threads \cup {NoThread},
     waiting : SUBSET Threads, signalled : BOOLEAN]

ASSUME NothingAssumption ==
    NoThread \notin Threads /\ NoName \notin Names /\ NoEntry \notin Entries

EngagedLabels == {"array", "java", "lookup", "read", "define", "waitdef", "wdspin", "heldspin"}
DefineLabels == {"new", "insert"}
Failing == {"fail", "throw", "refail"}
PursueLabels == EngagedLabels \cup DefineLabels \cup Failing \cup {"leave", "delegated"}
Labels ==
    EngagedLabels \cup DefineLabels \cup Failing \cup
    {"start", "spin", "leave", "delegated", "success", "record", "done", "crash"}

TypeInv ==
    /\ scenario \in Scenarios
    /\ loadedClasses \subseteq Names
    /\ initiatedClasses \subseteq Names
    /\ loading \in [Names -> Entries \cup {NoEntry}]
    /\ monitor \in [owner : Threads \cup {NoThread}, depth : Int]
    /\ pc \in [Threads -> Labels]
    /\ stack \in [Threads -> Seq(Names)]
    /\ exn \in [Threads ->
                   {"none", "notfound", "circularity", "linkage", "format", "refused"}]

\* A class is recorded as initiated once it is loaded here, or by the parent.
TablesInv ==
    /\ loadedClasses \subseteq initiatedClasses
    /\ \A n \in initiatedClasses : n \in loadedClasses \/ Foreign(n)

\* Nobody is twice in the list of an entry, the initiator included.
ListOf(n) == loading[n] # NoEntry => loading[n].initiator \notin loading[n].waiting

\* t is in the list of the entry of n.
Listed(t, n) == loading[n] # NoEntry /\ t \in loading[n].waiting

\* What t has done so far of its request.
RequestOf(t) ==
    /\ stack[t] # <<>>
    /\ stack[t][Len(stack[t])] = scenario.job[t].name
    /\ pc[t] = "done" => Len(stack[t]) = 1
    /\ pc[t] = "array" => IsArray(Top(t))
    /\ pc[t] \in {"leave", "record"} => Found(Top(t)) \/ Foreign(Top(t))
    /\ pc[t] = "delegated" => Foreign(Top(t))
    /\ pc[t] = "success" => Top(t) \in loadedClasses
    /\ pc[t] \in Failing => exn[t] # "none"
    /\ pc[t] = "done" /\ exn[t] = "none" /\ scenario.job[t].entry # "done" =>
           scenario.job[t].name \in initiatedClasses
    /\ pc[t] \in {"spin", "heldspin"} => Listed(t, Top(t))

RequestInv ==
    TypeInv /\ TablesInv /\ (\A n \in Names : ListOf(n)) /\ (\A t \in Threads : RequestOf(t))

-----------------------------------------------------------------------------
(* Without JNI DefineClass. *)

\* The names no load can succeed with: the file is missing or malformed or the class
\* refused, or the one of an ancestor, or the class is its own ancestor.
Doomed ==
    UNION {S \in SUBSET Names : \A n \in S :
              \/ Fate(n) \in {"missing", "malformed"} \/ Refused(n)
              \/ Fate(n) \in {"fine", "array"} /\ Ancestor(n) \in S}

\* The names of the stack below the innermost one: their loads wait for an ancestor.
Below(t) == {stack[t][i] : i \in 2..Len(stack[t])}

\* t loads n and has not begun to define it.
Engaged(t, n) ==
    \/ n = Top(t) /\ pc[t] \in EngagedLabels
    \/ n \in Below(t) /\ IsArray(n)

\* t is between WaitDefinition and InsertClass of n.
Defining(t, n) ==
    \/ n = Top(t) /\ pc[t] \in DefineLabels
    \/ n \in Below(t) /\ ~IsArray(n)

\* t has not given up the load of n, or not yet said so.
Pursues(t, n) ==
    \/ n = Top(t) /\ pc[t] \in PursueLabels
    \/ n \in Below(t)

\* Every name of a stack is the ancestor of the one below it.
ChainOf(t) ==
    \A i \in 1..(Len(stack[t]) - 1) :
        stack[t][i] = Ancestor(stack[t][i + 1]) /\ Fate(stack[t][i + 1]) \in {"fine", "array"}

\* What is known of the file of n where its load is.
FilesAt(label, n) ==
    /\ label \in {"java", "lookup", "leave", "throw", "refail"} =>
           scenario.user /\ ~IsArray(n)
    /\ label \in {"waitdef", "wdspin", "heldspin", "new", "insert"} => ~Delegated(n)
    /\ label = "read" => ~scenario.user /\ ~IsArray(n)
    /\ label = "define" => Fate(n) \in {"fine", "malformed"}
    /\ label \in {"waitdef", "wdspin", "heldspin", "new"} =>
           /\ Fate(n) \in {"fine", "malformed", "array"}
           /\ IsArray(n) => Ancestor(n) \in initiatedClasses
    /\ label \in {"insert", "success"} => Fate(n) \in {"fine", "array"}
    /\ label = "insert" => Ancestor(n) \in initiatedClasses \cup {NoName}
    /\ label \in Failing => n \in Doomed

FilesOf(t) == ChainOf(t) /\ FilesAt(pc[t], Top(t))

\* Nobody finds that the class it has been looking for in vain is defined meanwhile.
AloneOf(t) == exn[t] # "linkage" /\ (pc[t] = "define" => ~Found(Top(t)))

\* t is the initiator, or the definer, in the entry of n.
Initiator(t, n) == loading[n] # NoEntry /\ loading[n].initiator = t
DefineOwner(t, n) == loading[n] # NoEntry /\ loading[n].definer = t

\* The entry of a class that is not loaded and can be: it has an initiator, and the definer
\* is the initiator and the one thread that defines the class.  The bootstrap loader lets
\* only the initiator load it.
OpenEntry(n) ==
    n \notin Doomed /\ ~Found(n) /\ ~Delegated(n) =>
        /\ loading[n] # NoEntry => ~loading[n].signalled /\ loading[n].initiator # NoThread
        /\ \A t \in Threads :
              /\ Defining(t, n) => DefineOwner(t, n)
              /\ DefineOwner(t, n) => Defining(t, n) /\ Initiator(t, n)
              /\ Engaged(t, n) /\ ~scenario.user => Initiator(t, n)
              /\ Listed(t, n) /\ ~scenario.user => n = Top(t) /\ pc[t] = "spin"

\* A loaded class: nobody defines it, and who still loads it is in the list of the entry.
LoadedEntry(n) ==
    n \in loadedClasses =>
        /\ n \notin Doomed
        /\ \A t \in Threads : ~Defining(t, n) /\ (Engaged(t, n) => scenario.user /\ Listed(t, n))

\* Any entry: who loads the class is in it, and its initiator loads the class.
AnyEntry(n) ==
    \A t \in Threads :
        /\ Engaged(t, n) /\ (n \notin Doomed \/ scenario.user) =>
               Listed(t, n) \/ Initiator(t, n)
        /\ Engaged(t, n) => ~DefineOwner(t, n)
        /\ Initiator(t, n) /\ ~Found(n) => Pursues(t, n)
        /\ DefineOwner(t, n) => ~Delegated(n)
        /\ DefineOwner(t, n) /\ scenario.user => loading[n].initiator \in {NoThread, t}

EntryOf(n) == OpenEntry(n) /\ LoadedEntry(n) /\ AnyEntry(n)

HeldLabels ==
    {"lookup", "define", "waitdef", "wdspin", "heldspin", "new", "insert", "success", "fail",
     "leave", "throw", "crash"}

\* The calls of loadClass that t is in, numbered from the bottom of its stack.
Calls(t) ==
    {k \in 1..Len(stack[t]) :
        /\ ~IsArray(stack[t][Len(stack[t]) + 1 - k])
        /\ k = Len(stack[t]) => pc[t] \in HeldLabels}

\* A user-defined loader is locked as often as the owner is in loadClass.
MonitorInv ==
    scenario.user =>
        /\ monitor.owner = NoThread => monitor.depth = 0
        /\ monitor.owner # NoThread => monitor.depth > 0
        /\ \A t \in Threads :
              Cardinality(Calls(t)) = IF monitor.owner = t THEN monitor.depth ELSE 0

LoadInv ==
    /\ \A t \in Threads : FilesOf(t) /\ AloneOf(t)
    /\ \A n \in Names : EntryOf(n)
    /\ MonitorInv
    /\ "inserted" \notin broken

-----------------------------------------------------------------------------
(* Without disturbance: no definer is gone, or it does not come back. *)

Gone(t) == scenario.user /\ ~scenario.again
           /\ (pc[t] \in Failing \/ (pc[t] = "done" /\ exn[t] # "none"))

OrderInv ==
    /\ \A t \in Threads : pc[t] = "wdspin" => Listed(t, Top(t))
    /\ \A t \in Threads : exn[t] = "circularity" => Circular
    /\ \A t \in Threads, n \in Names :
           DefineOwner(t, n) /\ ~Found(n) => Defining(t, n) \/ Gone(t)

IInv == RequestInv /\ (Unforced => LoadInv) /\ (Undisturbed => OrderInv)
=============================================================================
