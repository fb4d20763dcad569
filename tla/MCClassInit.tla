---------------------------- MODULE MCClassInit ----------------------------
(***************************************************************************)
(* Small instances of ClassInit: two classes and up to three threads.      *)
(***************************************************************************)
EXTENDS ClassInit, TLC

CONSTANTS t1, t2, t3, a, b

Of(x, y) == a :> x @@ b :> y
Asks(x, y, z) == t1 :> x @@ t2 :> y @@ t3 :> z

\* a extends b, and the initializer of b uses its subclass a.
UsesSubclass ==
    {[super |-> Of(b, NoClass), clinit |-> i, uses |-> Of({}, {a}), faults |-> {},
      requests |-> Asks({a, b}, {a}, {}), interrupts |-> r] :
        i \in SUBSET {a, b}, r \in BOOLEAN}

\* a extends b, and what can fail fails.
Faulty ==
    {[super |-> Of(b, NoClass), clinit |-> {a, b}, uses |-> Of({}, {}), faults |-> f,
      requests |-> Asks({a, b}, {a}, {}), interrupts |-> r] :
        f \in SUBSET {a, b}, r \in BOOLEAN}

\* The initializer of a uses an unrelated class b.
UsesOther ==
    {[super |-> Of(NoClass, NoClass), clinit |-> {a, b}, uses |-> Of({b}, {}), faults |-> f,
      requests |-> Asks({a}, {a, b}, {}), interrupts |-> r] :
        f \in {{}, {b}}, r \in BOOLEAN}

\* Three threads use one class.
Crowd ==
    {[super |-> Of(NoClass, NoClass), clinit |-> {a}, uses |-> Of({}, {}), faults |-> f,
      requests |-> Asks({a}, {a}, {a}), interrupts |-> FALSE] :
        f \in SUBSET {a}}

SmallWorlds == UsesSubclass \cup Faulty \cup UsesOther \cup Crowd
=============================================================================
