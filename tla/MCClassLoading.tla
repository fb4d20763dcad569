--------------------------- MODULE MCClassLoading ---------------------------
(***************************************************************************)
(* Small instances of ClassLoading: a is a class with superclass b, c the  *)
(* array of a; every thread asks for one of them, or for nothing.          *)
(***************************************************************************)
EXTENDS ClassLoading, TLC

CONSTANTS t1, t2, t3, a, b, c

Of(x, y, z) == a :> x @@ b :> y @@ c :> z
Loads(n) == [entry |-> "start", name |-> n]
Defines(n) == [entry |-> "define", name |-> n]
Idle == [entry |-> "done", name |-> a]

\* The threads are alike: one order of their requests stands for all.
Level(n) == Of(1, 2, 3)[n]
AllAsk ==
    {j \in [Threads -> {Loads(a), Loads(b), Loads(c)}] :
        Level(j[t1].name) <= Level(j[t2].name) /\ Level(j[t2].name) <= Level(j[t3].name)}
TwoAsk == {[j EXCEPT ![t3] = Idle] : j \in AllAsk}
MixedAsk == {[j EXCEPT ![t1] = Defines(a), ![t2] = d] : j \in AllAsk, d \in {Loads(a), Defines(b)}}

Extends == Of(b, NoName, a)
Circle == Of(b, a, a)
Fine == Of("fine", "fine", "array")

Play(user, again, super, fate, jobs) ==
    {[user |-> user, again |-> again, super |-> super, fate |-> fate, refused |-> {}, job |-> j] :
        j \in jobs}

\* The same scenarios, in which name n is refused.
Refusing(scenarios, n) == {[s EXCEPT !.refused = {n}] : s \in scenarios}

Bootstrap ==
    Play(FALSE, FALSE, Extends, Fine, AllAsk)
    \cup Play(FALSE, TRUE, Extends, Of("missing", "missing", "array"), AllAsk)

UserDefined ==
    Play(TRUE, FALSE, Extends, Fine, AllAsk)
    \cup Play(TRUE, TRUE, Extends, Of("missing", "missing", "array"), TwoAsk)
    \cup Play(TRUE, FALSE, Extends, Of("fine", "malformed", "array"), TwoAsk)
    \cup Play(TRUE, FALSE, Extends, Of("fine", "delegated", "array"), TwoAsk)
    \cup Play(TRUE, FALSE, Circle, Fine, TwoAsk)

\* Classes that are there and do not get registered, and arrays of another loader's class.
Unregistered ==
    LET foreign == Play(TRUE, FALSE, Extends, Of("delegated", "fine", "array"), TwoAsk) IN
    foreign \cup Refusing(foreign, c)
    \cup UNION {Refusing(Play(TRUE, FALSE, Extends, Fine, TwoAsk), n) : n \in {b, c}}
    \cup Refusing(Play(TRUE, TRUE, Extends, Fine, TwoAsk), a)

\* The bootstrap loader finds a class that cannot be defined.
Undefinable ==
    Play(FALSE, FALSE, Extends, Of("fine", "malformed", "array"), AllAsk)
    \cup Play(FALSE, TRUE, Extends, Of("fine", "missing", "array"), TwoAsk)
    \cup Play(FALSE, FALSE, Circle, Fine, TwoAsk)

\* JNI DefineClass and LoadClass meet.
Defined ==
    UNION {Play(u, FALSE, Extends, Fine, MixedAsk) : u \in BOOLEAN}

AllScenarios == Bootstrap \cup UserDefined \cup Unregistered \cup Undefinable \cup Defined

SuperclassMissing == Play(FALSE, FALSE, Extends, Of("fine", "missing", "array"), TwoAsk)
=============================================================================
