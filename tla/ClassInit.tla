----------------------------- MODULE ClassInit -----------------------------
(***************************************************************************)
(* How the threads of the VM link and initialize classes: Class::verify    *)
(* and Class::verify_constraints (Verifier_stub.cpp), Class::prepare       *)
(* (Prepare.cpp) and Class::initialize (Initialize.cpp), which all move    *)
(* the one field m_state of a class.  verify and prepare run under the     *)
(* lock m_lock of the class; verify_constraints releases it around the     *)
(* verifier; initialize uses the monitor of the java.lang.Class and takes  *)
(* m_lock only to store m_state.                                           *)
(*                                                                         *)
(* A section of initialize under the monitor is one step, and so is a      *)
(* section under m_lock that calls nothing; m_lock is visible where it is  *)
(* held across steps.  The verifier, the layout of fields and methods and  *)
(* Java code are abstracted to whether they succeed.                       *)
(***************************************************************************)
EXTENDS Naturals, Sequences, FiniteSets

CONSTANTS
    Threads,
    Classes,
    Worlds,     \* class hierarchies, their initializers, and what threads ask for
    NoThread, NoClass

VARIABLES
    world,              \* the member of Worlds this behaviour plays
    m_state,            \* Class::m_state
    initializingThread, \* Class::m_initializing_thread
    m_lock,             \* Class::m_lock: the thread that holds it
    stack,              \* the activations of each thread, the innermost last
    exn,                \* threads with an exception raised
    notified,           \* threads in monitor_wait that a notify_all has reached
    requests,           \* classes a thread is still going to use
    runs                \* how often the static initializer of a class was started

shared == <<m_state, initializingThread, m_lock, notified, runs>>
vars == <<world, shared, stack, exn, requests>>

States == {"Start", "Loaded", "BytecodesVerified", "InstanceSizeComputed", "Prepared",
           "ConstraintsVerified", "Initializing", "Initialized", "Error"}

Super(c) == world.super[c]
HasSuper(c) == Super(c) # NoClass

\* Labels of an activation: where it stands in load_ancestors, verify, prepare, class_initialize,
\* verify_constraints and initialize.
LinkLabels == {"load", "ancestors", "verify", "verifying", "prepare", "layout", "statics"}
ConstraintLabels == {"init", "jni", "constraints", "checking"}
InitLabels == {"enter", "wait", "super", "clinit", "running"}
Labels == LinkLabels \cup ConstraintLabels \cup InitLabels

\* An activation.  then: what follows linking; uses: classes its initializer,
\* if it runs one, has yet to use.
Frames == [cls : Classes, at : Labels, then : {"init", "jni", "return"}, uses : SUBSET Classes]

ASSUME WorldsAssumption ==
    Worlds \subseteq [super : [Classes -> Classes \cup {NoClass}],
                      clinit : SUBSET Classes,
                      uses : [Classes -> SUBSET Classes],
                      faults : SUBSET Classes,
                      requests : [Threads -> SUBSET Classes],
                      interrupts : BOOLEAN]

\* A class is not its own superclass: loading refuses a circular hierarchy.
ASSUME HierarchyAssumption == \A w \in Worlds : \A c \in Classes : w.super[c] # c

ASSUME NoThreadAssumption == NoThread \notin Threads
ASSUME NoClassAssumption == NoClass \notin Classes

Init ==
    /\ world \in Worlds
    /\ m_state = [c \in Classes |-> "Start"]
    /\ initializingThread = [c \in Classes |-> NoThread]
    /\ m_lock = [c \in Classes |-> NoThread]
    /\ stack = [t \in Threads |-> << >>]
    /\ exn = {}
    /\ notified = {}
    /\ requests = world.requests
    /\ runs = [c \in Classes |-> 0]

-----------------------------------------------------------------------------
(* The call stack of a thread. *)

Depth(t) == Len(stack[t])
Top(t) == stack[t][Depth(t)]
At(t, label) == Depth(t) > 0 /\ Top(t).at = label

Goto(t, label) == stack' = [stack EXCEPT ![t][Depth(t)].at = label]

Activation(c, label, then) ==
    [cls |-> c, at |-> label, then |-> then, uses |-> world.uses[c]]

\* The innermost activation becomes f and calls g.
Push(t, f, g) == stack' = [stack EXCEPT ![t] = Append([@ EXCEPT ![Len(@)] = f], g)]

\* The innermost activation calls another and will go on at label resume.
Call(t, resume, frame) == Push(t, [Top(t) EXCEPT !.at = resume], frame)

Return(t) == stack' = [stack EXCEPT ![t] = SubSeq(@, 1, Len(@) - 1)]

Raise(t) == exn' = exn \cup {t}

MayFail(c) == c \in world.faults

SetState(c, s) == m_state' = [m_state EXCEPT ![c] = s]

Lock(t, c) == m_lock[c] = NoThread /\ m_lock' = [m_lock EXCEPT ![c] = t]
Unlock(c) == m_lock' = [m_lock EXCEPT ![c] = NoThread]

-----------------------------------------------------------------------------
(* LoadVerifyAndPrepareClass, as far as linking goes: load_ancestors links the *)
(* superclass before the class counts as loaded.                               *)

LoadClass(t) ==
    LET c == Top(t).cls IN
    /\ At(t, "load")
    /\ IF m_state[c] = "Start" /\ HasSuper(c)
       THEN Call(t, "ancestors", Activation(Super(c), "load", "return"))
       ELSE Goto(t, "ancestors")
    /\ UNCHANGED <<world, shared, exn, requests>>

\* A superclass that is final or an interface, and superinterfaces that cannot be loaded
\* (they are not played themselves), fail the class, which stays unloaded.
LoadedAncestors(t) ==
    LET c == Top(t).cls IN
    /\ At(t, "ancestors")
    /\ \/ /\ t \in exn
          /\ Return(t)
          /\ UNCHANGED <<m_state, exn>>
       \/ /\ t \notin exn
          /\ m_state[c] = "Start"
          /\ MayFail(c)
          /\ Raise(t)
          /\ Return(t)
          /\ UNCHANGED m_state
       \/ /\ t \notin exn
          /\ IF m_state[c] = "Start" THEN SetState(c, "Loaded") ELSE UNCHANGED m_state
          /\ Goto(t, "verify")
          /\ UNCHANGED exn
    /\ UNCHANGED <<world, initializingThread, m_lock, notified, runs, requests>>

-----------------------------------------------------------------------------
(* Class::verify. *)

AtLeastVerified(c) == m_state[c] # "Loaded"

\* The unlocked test, and the test again under the lock.
Verify(t) ==
    LET c == Top(t).cls IN
    /\ At(t, "verify")
    /\ \/ /\ AtLeastVerified(c)
          /\ Goto(t, "prepare")
          /\ UNCHANGED m_lock
       \/ /\ ~AtLeastVerified(c)
          /\ Lock(t, c)
          /\ Goto(t, "verifying")
    /\ UNCHANGED <<world, m_state, initializingThread, notified, runs, exn, requests>>

VerifyBytecodes(t) ==
    LET c == Top(t).cls IN
    /\ At(t, "verifying")
    /\ Unlock(c)
    /\ \/ /\ SetState(c, "BytecodesVerified")
          /\ Goto(t, "prepare")
          /\ UNCHANGED exn
       \/ /\ MayFail(c)
          /\ Raise(t)
          /\ Return(t)
          /\ UNCHANGED m_state
    /\ UNCHANGED <<world, initializingThread, notified, runs, requests>>

-----------------------------------------------------------------------------
(* Class::prepare. *)

AtLeastPrepared(c) == m_state[c] \in {"Prepared", "ConstraintsVerified", "Initializing",
                                      "Initialized"}

\* What the activation does once the class is linked.
Linked(t) == IF Top(t).then = "return" THEN Return(t) ELSE Goto(t, Top(t).then)

Prepare(t) ==
    LET c == Top(t).cls
        done == AtLeastPrepared(c) \/ m_state[c] = "Error"
    IN
    /\ At(t, "prepare")
    /\ \/ done /\ Linked(t) /\ UNCHANGED m_lock
       \/ ~done /\ Lock(t, c) /\ Goto(t, "layout")
    /\ UNCHANGED <<world, m_state, initializingThread, notified, runs, exn, requests>>

\* Offsets of fields, then of methods, which fails on a final method overridden.  An
\* interface is done after its static fields and an array is Initialized here; the
\* classes played are neither.
AssignOffsets(t) ==
    LET c == Top(t).cls IN
    /\ At(t, "layout")
    /\ \/ /\ m_state[c] = "BytecodesVerified"
          /\ SetState(c, "InstanceSizeComputed")
          /\ UNCHANGED <<stack, exn, m_lock>>
       \/ /\ m_state[c] = "InstanceSizeComputed"
          /\ SetState(c, "Prepared")
          /\ Goto(t, "statics")
          /\ UNCHANGED <<exn, m_lock>>
       \/ /\ m_state[c] = "InstanceSizeComputed"
          /\ MayFail(c)
          /\ SetState(c, "Error")
          /\ Raise(t)
          /\ Unlock(c)
          /\ Return(t)
    /\ UNCHANGED <<world, initializingThread, notified, runs, requests>>

\* Values of static final fields, for which memory may be short.
AssignStatics(t) ==
    LET c == Top(t).cls IN
    /\ At(t, "statics")
    /\ Unlock(c)
    /\ \/ Linked(t) /\ UNCHANGED exn
       \/ MayFail(c) /\ Raise(t) /\ Return(t)
    /\ UNCHANGED <<world, m_state, initializingThread, notified, runs, requests>>

-----------------------------------------------------------------------------
(* class_initialize, class_initialize_from_jni and Class::verify_constraints. *)

PastConstraints(c) == m_state[c] \in {"ConstraintsVerified", "Initializing", "Initialized",
                                      "Error"}

ClassInitialize(t) ==
    /\ \/ /\ At(t, "init")
          /\ IF m_state[Top(t).cls] = "Initialized" THEN Return(t) ELSE Goto(t, "constraints")
       \/ /\ At(t, "jni")
          /\ Goto(t, "constraints")
    /\ UNCHANGED <<world, shared, exn, requests>>

\* The tests before the verifier is called, without and with the lock.
VerifyConstraints(t) ==
    LET c == Top(t).cls IN
    /\ At(t, "constraints")
    /\ \/ PastConstraints(c) /\ Goto(t, "enter")
       \/ ~PastConstraints(c) /\ m_lock[c] = NoThread /\ Goto(t, "checking")
    /\ UNCHANGED <<world, shared, exn, requests>>

\* A plausible bug: m_state is not looked at again after the verifier.
ConstraintsResult_blind(t) ==
    LET c == Top(t).cls IN
    /\ At(t, "checking")
    /\ m_lock[c] = NoThread
    /\ \/ /\ MayFail(c)
          /\ Raise(t)
          /\ Return(t)
          /\ UNCHANGED m_state
       \/ /\ SetState(c, "ConstraintsVerified")
          /\ Goto(t, "enter")
          /\ UNCHANGED exn
    /\ UNCHANGED <<world, initializingThread, m_lock, notified, runs, requests>>

\* The verifier, called without the lock, and the test of m_state after it.
ConstraintsResult(t) ==
    LET c == Top(t).cls IN
    /\ At(t, "checking")
    /\ m_lock[c] = NoThread
    /\ \/ /\ PastConstraints(c)
          /\ Goto(t, "enter")
          /\ UNCHANGED <<m_state, exn>>
       \/ /\ ~PastConstraints(c)
          /\ MayFail(c)
          /\ Raise(t)
          /\ Return(t)
          /\ UNCHANGED m_state
       \/ /\ ~PastConstraints(c)
          /\ SetState(c, "ConstraintsVerified")
          /\ Goto(t, "enter")
          /\ UNCHANGED exn
    /\ UNCHANGED <<world, initializingThread, m_lock, notified, runs, requests>>

-----------------------------------------------------------------------------
(* Class::initialize. *)

\* A plausible bug: step 5 is missing, so an erroneous class is initialized again.
InitializeEnter_retry(t) ==
    LET c == Top(t).cls IN
    /\ At(t, "enter")
    /\ \/ /\ m_state[c] = "Initializing" /\ initializingThread[c] # t
          /\ Goto(t, "wait")
          /\ notified' = notified \ {t}
          /\ UNCHANGED <<m_state, initializingThread>>
       \/ /\ initializingThread[c] = t \/ m_state[c] = "Initialized"
          /\ Return(t)
          /\ UNCHANGED <<m_state, initializingThread, notified>>
       \/ /\ m_state[c] \notin {"Initializing", "Initialized"}
          /\ initializingThread[c] # t
          /\ m_lock[c] = NoThread
          /\ SetState(c, "Initializing")
          /\ initializingThread' = [initializingThread EXCEPT ![c] = t]
          /\ Goto(t, "super")
          /\ UNCHANGED notified
    /\ UNCHANGED <<world, m_lock, runs, exn, requests>>

\* Steps 1 to 6, under the monitor: entered anew, or again after a wait.
InitializeEnter(t) ==
    LET c == Top(t).cls IN
    /\ At(t, "enter")
    /\ \/ /\ m_state[c] = "Initializing" /\ initializingThread[c] # t
          /\ Goto(t, "wait")
          /\ notified' = notified \ {t}
          /\ UNCHANGED <<m_state, initializingThread, exn>>
       \/ /\ initializingThread[c] = t \/ m_state[c] = "Initialized"
          /\ Return(t)
          /\ UNCHANGED <<m_state, initializingThread, notified, exn>>
       \/ /\ m_state[c] = "Error" /\ initializingThread[c] # t
          /\ Raise(t)
          /\ Return(t)
          /\ UNCHANGED <<m_state, initializingThread, notified>>
       \/ /\ m_state[c] \notin {"Initializing", "Initialized", "Error"}
          /\ initializingThread[c] # t
          /\ m_lock[c] = NoThread
          /\ SetState(c, "Initializing")
          /\ initializingThread' = [initializingThread EXCEPT ![c] = t]
          /\ Goto(t, "super")
          /\ UNCHANGED <<notified, exn>>
    /\ UNCHANGED <<world, m_lock, runs, requests>>

\* A plausible bug: the wait is not in a loop, and the call returns after it.
InitializeWait_once(t) ==
    /\ At(t, "wait")
    /\ \/ /\ t \in notified
          /\ UNCHANGED exn
       \/ /\ world.interrupts
          /\ Raise(t)
    /\ Return(t)
    /\ UNCHANGED <<world, shared, requests>>

\* monitor_wait of step 2 ends: notified, or with an exception when interrupted.
InitializeWait(t) ==
    /\ At(t, "wait")
    /\ \/ /\ t \in notified
          /\ Goto(t, "enter")
          /\ UNCHANGED exn
       \/ /\ world.interrupts
          /\ Raise(t)
          /\ Return(t)
    /\ UNCHANGED <<world, shared, requests>>

WaitersOf(c) == {u \in Threads : At(u, "wait") /\ Top(u).cls = c}

\* A plausible bug: notify_all is missing.
Complete_silent(t, c, s) ==
    /\ m_lock[c] = NoThread
    /\ SetState(c, s)
    /\ initializingThread' = [initializingThread EXCEPT ![c] = NoThread]
    /\ Return(t)
    /\ UNCHANGED <<m_lock, notified>>

\* The section that ends an initialization: the new state, no initializing thread,
\* notify_all.
Complete(t, c, s) ==
    /\ m_lock[c] = NoThread
    /\ SetState(c, s)
    /\ initializingThread' = [initializingThread EXCEPT ![c] = NoThread]
    /\ notified' = notified \cup WaitersOf(c)
    /\ Return(t)
    /\ UNCHANGED m_lock

\* A plausible bug: a superclass another thread is initializing is not waited for.
InitializeSuper_nowait(t) ==
    LET c == Top(t).cls IN
    /\ At(t, "super")
    /\ IF HasSuper(c) /\ m_state[Super(c)] # "Initializing"
       THEN Call(t, "clinit", Activation(Super(c), "init", "return"))
       ELSE Goto(t, "clinit")
    /\ UNCHANGED <<world, shared, exn, requests>>

\* Step 7: the superclass first.
InitializeSuper(t) ==
    LET c == Top(t).cls IN
    /\ At(t, "super")
    /\ IF HasSuper(c)
       THEN Call(t, "clinit", Activation(Super(c), "init", "return"))
       ELSE Goto(t, "clinit")
    /\ UNCHANGED <<world, shared, exn, requests>>

\* A plausible bug: the error exit of step 7 does not wake the waiters.
InitializeClass_silent(t) ==
    LET c == Top(t).cls IN
    /\ At(t, "clinit")
    /\ \/ /\ t \in exn
          /\ Complete_silent(t, c, "Error")
          /\ UNCHANGED runs
       \/ /\ t \notin exn /\ c \notin world.clinit
          /\ Complete(t, c, "Initialized")
          /\ UNCHANGED runs
       \/ /\ t \notin exn /\ c \in world.clinit
          /\ runs' = [runs EXCEPT ![c] = @ + 1]
          /\ Goto(t, "running")
          /\ UNCHANGED <<m_state, initializingThread, m_lock, notified>>
    /\ UNCHANGED <<world, exn, requests>>

\* The end of step 7, and step 8: the superclass failed, there is no static
\* initializer, or it is started.
InitializeClass(t) ==
    LET c == Top(t).cls IN
    /\ At(t, "clinit")
    /\ \/ /\ t \in exn
          /\ Complete(t, c, "Error")
          /\ UNCHANGED runs
       \/ /\ t \notin exn /\ c \notin world.clinit
          /\ Complete(t, c, "Initialized")
          /\ UNCHANGED runs
       \/ /\ t \notin exn /\ c \in world.clinit
          /\ runs' = [runs EXCEPT ![c] = @ + 1]
          /\ Goto(t, "running")
          /\ UNCHANGED <<m_state, initializingThread, m_lock, notified>>
    /\ UNCHANGED <<world, exn, requests>>

\* The static initializer uses another class.
InitializerUses(t) ==
    /\ At(t, "running")
    /\ t \notin exn
    /\ \E c \in Top(t).uses, then \in {"init", "jni"} :
          Push(t, [Top(t) EXCEPT !.uses = @ \ {c}], Activation(c, "load", then))
    /\ UNCHANGED <<world, shared, exn, requests>>

\* What a used class raised is caught by the static initializer.
InitializerCatches(t) ==
    /\ At(t, "running")
    /\ t \in exn
    /\ exn' = exn \ {t}
    /\ UNCHANGED <<world, shared, stack, requests>>

\* The static initializer returns, or an exception leaves it: steps 9 to 11.
InitializerReturns(t) ==
    LET c == Top(t).cls IN
    /\ At(t, "running")
    /\ \/ /\ t \notin exn /\ Top(t).uses = {}
          /\ Complete(t, c, "Initialized")
          /\ UNCHANGED exn
       \/ /\ t \in exn \/ MayFail(c)
          /\ Complete(t, c, "Error")
          /\ Raise(t)
    /\ UNCHANGED <<world, runs, requests>>

-----------------------------------------------------------------------------

\* Java code of the thread uses a class; what an earlier use raised is handled.
Request(t) ==
    /\ Depth(t) = 0
    /\ \E c \in requests[t], then \in {"init", "jni"} :
          /\ requests' = [requests EXCEPT ![t] = @ \ {c}]
          /\ stack' = [stack EXCEPT ![t] = <<Activation(c, "load", then)>>]
    /\ exn' = exn \ {t}
    /\ UNCHANGED <<world, shared>>

Step(t) ==
    \/ LoadClass(t) \/ LoadedAncestors(t)
    \/ Verify(t) \/ VerifyBytecodes(t)
    \/ Prepare(t) \/ AssignOffsets(t) \/ AssignStatics(t)
    \/ ClassInitialize(t) \/ VerifyConstraints(t) \/ ConstraintsResult(t)
    \/ InitializeEnter(t) \/ InitializeWait(t) \/ InitializeSuper(t)
    \/ InitializeClass(t) \/ InitializerUses(t)
    \/ InitializerCatches(t) \/ InitializerReturns(t)

Next == \E t \in Threads : Step(t) \/ Request(t)

Spec == Init /\ [][Next]_vars

FairSpec == Spec /\ \A t \in Threads : WF_vars(Step(t))

-----------------------------------------------------------------------------

\* Every variable has its type.
TypeOK ==
    /\ world \in Worlds
    /\ m_state \in [Classes -> States]
    /\ initializingThread \in [Classes -> Threads \cup {NoThread}]
    /\ m_lock \in [Classes -> Threads \cup {NoThread}]
    /\ stack \in [Threads -> Seq(Frames)]
    /\ exn \subseteq Threads
    /\ notified \subseteq Threads
    /\ requests \in [Threads -> SUBSET Classes]
    /\ runs \in [Classes -> Nat]

\* However the threads that use a class overlap, its static initializer is started
\* at most once: also when the first initialization fails, when a thread asks for a
\* class it is itself initializing, and when waiters come back at the same time.
InitializedOnce == \A c \in Classes : runs[c] <= 1

\* While the static initializer of a class runs, the superclass is initialized, or
\* is being initialized by the same thread further down its stack.
SuperFirst ==
    \A t \in Threads : \A i \in 1..Depth(t) :
        LET c == stack[t][i].cls IN
        stack[t][i].at = "running" /\ HasSuper(c) =>
            m_state[Super(c)] = "Initialized" \/ initializingThread[Super(c)] = t

\* No lost wakeup: a thread waits in step 2, not notified, only while another thread
\* is initializing the class, so the notify_all that ends that initialization is
\* still to come.
NoLostWaiter ==
    \A t \in Threads : At(t, "wait") /\ t \notin notified =>
        m_state[Top(t).cls] = "Initializing" /\ initializingThread[Top(t).cls] # t

\* The innermost activation of t returns from class_initialize without an exception.
ReturnsNormally(t) ==
    /\ Depth(t) > 0
    /\ Top(t).at \in ConstraintLabels \cup InitLabels
    /\ Len(stack'[t]) < Depth(t)
    /\ t \notin exn'

\* A call of class_initialize or class_initialize_from_jni that returns without an
\* exception leaves the class usable for its thread: initialized, or being
\* initialized by the thread itself.
InitializedOnReturn ==
    [][\A t \in Threads : ReturnsNormally(t) =>
          \/ m_state'[Top(t).cls] = "Initialized"
          \/ initializingThread'[Top(t).cls] = t]_vars

Rank == [s \in States |->
            CASE s = "Start" -> 0                [] s = "Loaded" -> 1
              [] s = "BytecodesVerified" -> 2    [] s = "InstanceSizeComputed" -> 3
              [] s = "Prepared" -> 4             [] s = "ConstraintsVerified" -> 5
              [] s = "Initializing" -> 6         [] s = "Initialized" -> 7
              [] s = "Error" -> 8]

\* m_state moves up the order of enum Class_State only, though five functions store
\* it under two different locks; initialized and erroneous are final.
StateMovesForward ==
    [][\A c \in Classes :
          /\ Rank[m_state[c]] <= Rank[m_state'[c]]
          /\ m_state[c] = "Initialized" => m_state'[c] = "Initialized"]_vars

Needs(c) == world.uses[c] \cup IF HasSuper(c) THEN {Super(c)} ELSE {}

\* No class needs itself, through superclasses and initializers.
Ordered ==
    \E rank \in [Classes -> 0..Cardinality(Classes)] :
        \A c \in Classes : \A d \in Needs(c) : rank[d] < rank[c]

\* A thread that uses a class gets to the end of it, whoever else initializes the
\* class: every wait of step 2 ends.  (Initializers that need each other may block
\* two threads for good; the Java language says so.)
InitializationEnds == \A t \in Threads : (Ordered /\ Depth(t) > 0) ~> Depth(t) = 0

-----------------------------------------------------------------------------
(* The inductive invariant of the proofs. *)

Running == {"super", "clinit", "running"}
Holding == {"verifying", "layout", "statics"}
Resting == {"ancestors", "clinit", "running"}

\* A class is being initialized exactly while a thread is named as doing it, and its
\* initializer has not run before.
ClassInv(c) ==
    /\ m_state[c] = "Initializing" <=> initializingThread[c] # NoThread
    /\ m_state[c] \notin {"Initializing", "Initialized", "Error"} => runs[c] = 0

\* What an activation f of thread t has reached for its class and holds of it.
FrameInv(t, f) ==
    /\ f.at \in Running => initializingThread[f.cls] = t
    /\ f.at \in {"super", "clinit"} => runs[f.cls] = 0
    /\ f.at \in Holding => m_lock[f.cls] = t
    /\ f.at = "verifying" => m_state[f.cls] = "Loaded"
    /\ f.at = "layout" => m_state[f.cls] \in {"BytecodesVerified", "InstanceSizeComputed"}
    /\ f.at = "statics" => m_state[f.cls] = "Prepared"
    /\ f.at \in {"verify", "prepare"} => m_state[f.cls] # "Start"
    /\ f.at = "prepare" => m_state[f.cls] # "Loaded"
    /\ f.at \in {"enter", "wait"} => PastConstraints(f.cls)
FramesInv == \A t \in Threads : \A i \in 1..Depth(t) : FrameInv(t, stack[t][i])

\* Activations below the innermost one are in a call.
Calling == \A t \in Threads : \A i \in 1..(Depth(t) - 1) : stack[t][i].at \in Resting

\* A thread initializes a class in one activation.
Single ==
    \A t \in Threads : \A i, j \in 1..Depth(t) :
        /\ stack[t][i].at \in Running /\ stack[t][j].at \in Running
        /\ stack[t][i].cls = stack[t][j].cls
        => i = j

\* The thread in m_initializing_thread has an activation that will clear it.
RunnerExists ==
    \A t \in Threads, c \in Classes : initializingThread[c] = t =>
        \E i \in 1..Depth(t) : stack[t][i].at \in Running /\ stack[t][i].cls = c

\* Class s is initialized, or being initialized below level i of the stack of t.
UsableBelow(t, i, s) ==
    \/ m_state[s] = "Initialized"
    \/ \E j \in 1..(i - 1) : stack[t][j].at \in Running /\ stack[t][j].cls = s

\* Step 7, for activation i of t of a class with superclass s: the activation above is
\* that of s; when it has returned without an exception, and while the initializer runs,
\* s is usable.
SuperCall(t, i, s) ==
    /\ stack[t][i].at = "clinit" =>
          IF i = Depth(t)
          THEN t \in exn \/ UsableBelow(t, i, s)
          ELSE stack[t][i + 1].cls = s /\ stack[t][i + 1].at \notin LinkLabels
    /\ stack[t][i].at = "running" => UsableBelow(t, i, s)

SuperCalls ==
    \A t \in Threads : \A i \in 1..Depth(t) : \A s \in Classes :
        s = Super(stack[t][i].cls) => SuperCall(t, i, s)

IInv ==
    /\ TypeOK
    /\ \A c \in Classes : ClassInv(c)
    /\ InitializedOnce
    /\ FramesInv
    /\ Calling
    /\ Single
    /\ RunnerExists
    /\ NoLostWaiter
    /\ SuperCalls
=============================================================================
