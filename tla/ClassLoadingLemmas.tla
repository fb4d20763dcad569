------------------------- MODULE ClassLoadingLemmas -------------------------
(***************************************************************************)
(* Lemmas about ClassLoading: every step keeps RequestInv, and what a step *)
(* does to the stacks, to the entry it is about and to the lock of the     *)
(* loader.                                                                 *)
(***************************************************************************)
EXTENDS ClassLoading, SequenceTheorems, FiniteSetTheorems, TLAPS

\* What the class files of the scenario can say.
LEMMA FileTypes ==
    ASSUME TypeInv
    PROVE  /\ scenario.user \in BOOLEAN
           /\ \A n \in Names : /\ Fate(n) \in Fates
                               /\ Ancestor(n) \in Names \cup {NoName}
                               /\ IsArray(n) => Ancestor(n) \in Names
                               /\ Ancestor(n) \in Names => ~IsArray(Ancestor(n))
                               /\ Delegated(n) => scenario.user
                               /\ Refused(n) => scenario.user /\ Fate(n) \in {"fine", "array"}
                               /\ Fate(n) = "delegated" => Foreign(n)
           /\ \A t \in Threads : /\ scenario.job[t].entry \in {"start", "define", "done"}
                                 /\ scenario.job[t].name \in Names
<1>1. PICK s \in Scenarios : s = scenario
  BY Zenon DEF TypeInv
<1>2. /\ s.user \in BOOLEAN
      /\ s.super \in [Names -> Names \cup {NoName}]
      /\ s.fate \in [Names -> Fates]
      /\ s.refused \subseteq {n \in Names : s.user /\ s.fate[n] \in {"fine", "array"}}
      /\ s.job \in [Threads -> [entry : {"start", "define", "done"}, name : Names]]
      /\ \A n \in Names : s.fate[n] = "array" => s.super[n] # NoName
      /\ \A n \in Names : s.super[n] # NoName => s.fate[s.super[n]] # "array"
      /\ \A n \in Names : s.fate[n] = "delegated" => s.user
  BY Zenon, ScenarioAssumption
<1>3. ASSUME NEW n \in Names
      PROVE  /\ Fate(n) \in Fates /\ Ancestor(n) \in Names \cup {NoName}
             /\ IsArray(n) => Ancestor(n) \in Names
             /\ Ancestor(n) \in Names => ~IsArray(Ancestor(n))
             /\ Refused(n) => scenario.user /\ Fate(n) \in {"fine", "array"}
  BY <1>1, <1>2, NothingAssumption DEF Fate, Ancestor, IsArray, Refused
<1>4. ASSUME NEW n \in Names PROVE Delegated(n) => scenario.user
  BY <1>1, <1>2, <1>3 DEF Delegated, Fate
<1>5. ASSUME NEW n \in Names, Fate(n) = "delegated" PROVE Foreign(n)
  <2>1. "delegated" \notin {"fine", "array"}
    OBVIOUS
  <2> QED
    BY Zenon, <1>3, <1>5, <2>1 DEF Foreign, Delegated
<1>6. ASSUME NEW t \in Threads
      PROVE  /\ scenario.job[t].entry \in {"start", "define", "done"}
             /\ scenario.job[t].name \in Names
  BY <1>1, <1>2
<1> QED
  BY Zenon, <1>1, <1>2, <1>3, <1>4, <1>5, <1>6

\* The innermost name of a stack.
LEMMA TopType ==
    ASSUME TypeInv, NEW t \in Threads, stack[t] # <<>>
    PROVE  /\ stack[t] \in Seq(Names) /\ Len(stack[t]) \in Nat /\ Len(stack[t]) >= 1
           /\ Top(t) = stack[t][1] /\ Top(t) \in Names
           /\ \A i \in 1..Len(stack[t]) : stack[t][i] \in Names
BY DEF TypeInv, Top

-----------------------------------------------------------------------------
(* Entries. *)

\* EnqueueInitiator puts the initiator it replaces into the list, and takes t out of it.
LEMMA EnqueueShape ==
    ASSUME NEW e \in Entries, NEW t \in Threads
    PROVE  /\ EnqueueInitiator(e, t) \in Entries
           /\ EnqueueInitiator(e, t).definer = e.definer
           /\ EnqueueInitiator(e, t).signalled = e.signalled
           /\ EnqueueInitiator(e, t).initiator = IF e.initiator = NoThread THEN NoThread ELSE t
           /\ EnqueueInitiator(e, t).waiting =
                  IF e.initiator \in {NoThread, t}
                  THEN e.waiting \ (IF e.initiator = t THEN {} ELSE {t})
                  ELSE (e.waiting \cup {e.initiator}) \ {t}
BY Zenon, NothingAssumption DEF EnqueueInitiator, AddWaitingThread, RemoveWaitingThread, Entries

\* SuccessLoadingClass and FailedLoadingClass leave an entry that somebody else is in.
LEMMA SignalledShape ==
    ASSUME NEW e \in Entries, NEW t \in Threads, e.initiator \notin e.waiting
    PROVE  /\ Signalled(e, t) \in Entries \cup {NoEntry}
           /\ \A u \in Threads \ {t} : u \in e.waiting \cup {e.initiator} =>
                  Signalled(e, t) # NoEntry /\ u \in Signalled(e, t).waiting
           /\ Signalled(e, t) # NoEntry =>
                  /\ Signalled(e, t).initiator = NoThread
                  /\ Signalled(e, t).definer = e.definer
                  /\ Signalled(e, t).signalled
                  /\ Signalled(e, t).waiting \subseteq (e.waiting \cup {e.initiator}) \ {t, NoThread}
<1> DEFINE s == [e EXCEPT !.signalled = TRUE]
           q == EnqueueInitiator(s, t)
           r == [q EXCEPT !.initiator = NoThread]
<1>1. /\ s \in Entries /\ s.initiator = e.initiator /\ s.waiting = e.waiting
      /\ s.definer = e.definer /\ s.signalled
  BY Zenon DEF Entries
<1> HIDE DEF s
<1>2. /\ q \in Entries /\ q.definer = e.definer /\ q.signalled
      /\ q.waiting = IF e.initiator \in {NoThread, t}
                     THEN e.waiting \ (IF e.initiator = t THEN {} ELSE {t})
                     ELSE (e.waiting \cup {e.initiator}) \ {t}
  BY <1>1, EnqueueShape
<1> HIDE DEF q
<1>3. /\ r \in Entries /\ r.initiator = NoThread /\ r.definer = e.definer /\ r.signalled
      /\ r.waiting = q.waiting
  BY <1>2 DEF Entries
<1> HIDE DEF r
<1>4. Signalled(e, t) = IF r.waiting = {} THEN NoEntry ELSE r
  BY Zenon, NothingAssumption DEF Signalled, RemoveLoadingClass, Kept, s, q, r
<1>5. /\ r.waiting \subseteq (e.waiting \cup {e.initiator}) \ {t, NoThread}
      /\ \A u \in Threads \ {t} : u \in e.waiting \cup {e.initiator} => u \in r.waiting
  BY <1>2, <1>3, NothingAssumption DEF Entries
<1> QED
  BY <1>3, <1>4, <1>5, NothingAssumption

\* A thread that makes itself the definer is the initiator too, if there was one.
LEMMA ChangeShape ==
    ASSUME NEW e \in Entries, NEW t \in Threads, e.initiator \notin e.waiting
    PROVE  LET x == ChangeDefinerAndInitiator(e, t) IN
           /\ x \in Entries /\ x.definer = t /\ x.signalled = e.signalled
           /\ x.initiator = IF e.initiator = NoThread THEN NoThread ELSE t
           /\ x.initiator \notin x.waiting
           /\ t \notin x.waiting
           /\ \A u \in Threads \ {t} : u \in e.waiting \cup {e.initiator} <=> u \in x.waiting
<1> DEFINE s == [e EXCEPT !.definer = t]
           x == ChangeDefinerAndInitiator(e, t)
<1>1. /\ s \in Entries /\ s.initiator = e.initiator /\ s.waiting = e.waiting
      /\ s.definer = t /\ s.signalled = e.signalled
  BY DEF Entries
<1>2. x = EnqueueInitiator(s, t)
  BY DEF ChangeDefinerAndInitiator
<1> HIDE DEF s, x
<1>3. /\ x \in Entries /\ x.definer = t /\ x.signalled = e.signalled
      /\ x.initiator = IF e.initiator = NoThread THEN NoThread ELSE t
      /\ x.waiting = IF e.initiator \in {NoThread, t}
                     THEN e.waiting \ (IF e.initiator = t THEN {} ELSE {t})
                     ELSE (e.waiting \cup {e.initiator}) \ {t}
  BY <1>1, <1>2, EnqueueShape
<1>4. NoThread \notin e.waiting
  BY NothingAssumption DEF Entries
<1>5. /\ t \notin x.waiting /\ x.initiator \notin x.waiting
      /\ \A u \in Threads \ {t} : u \in e.waiting \cup {e.initiator} <=> u \in x.waiting
  BY <1>3, <1>4, NothingAssumption
<1> QED
  BY <1>3, <1>5 DEF x

\* What an operation of t on the entry e may do: whoever else is in the list stays there.
Passes(e, x, t) ==
    /\ x \in Entries \cup {NoEntry}
    /\ x # NoEntry => x.initiator \notin x.waiting
    /\ e # NoEntry => \A u \in e.waiting \ {t} : x # NoEntry /\ u \in x.waiting

\* StartLoadingClass, case by case.
LEMMA StartCases ==
    ASSUME NEW t, NEW n
    PROVE  /\ Found(n) => StartEntry(t, n) = loading[n]
           /\ Recurs(t, n) => StartEntry(t, n) = Signalled(loading[n], t)
           /\ Retries(t, n) /\ scenario.user => StartEntry(t, n) = loading[n]
           /\ Retries(t, n) /\ ~scenario.user =>
                  StartEntry(t, n) = RemoveWaitingThread([loading[n] EXCEPT !.initiator = t], t)
           /\ Registers(t, n) => StartEntry(t, n) = AddWaitingThread(loading[n], t)
           /\ ~Found(n) /\ loading[n] = NoEntry => StartEntry(t, n) = NewEntry(t)
           /\ ~Found(n) => \/ loading[n] = NoEntry
                           \/ Collides(n) /\ (Recurs(t, n) \/ Retries(t, n) \/ Registers(t, n))
<1> DEFINE F == Found(n)
           R == Recurs(t, n)
           A == Retries(t, n)
           G == Registers(t, n)
<1>1. /\ F => ~R /\ ~A /\ ~G
      /\ R => ~F /\ ~A /\ ~G
      /\ A => ~F /\ ~R /\ ~G
      /\ G => ~F /\ ~R /\ ~A
      /\ loading[n] = NoEntry => ~R /\ ~A /\ ~G
  BY Zenon DEF Collides, Recurs, Retries, Registers
<1>2. ~F => \/ loading[n] = NoEntry
            \/ Collides(n) /\ (R \/ A \/ G)
  BY Zenon DEF Collides, Recurs, Retries, Registers
<1>3. StartEntry(t, n) =
          CASE F -> loading[n]
            [] R -> Signalled(loading[n], t)
            [] A -> IF scenario.user
                    THEN loading[n]
                    ELSE RemoveWaitingThread([loading[n] EXCEPT !.initiator = t], t)
            [] G -> AddWaitingThread(loading[n], t)
            [] OTHER -> NewEntry(t)
  BY Zenon DEF StartEntry
<1> HIDE DEF F, R, A, G
<1>4. /\ F => StartEntry(t, n) = loading[n]
      /\ R => StartEntry(t, n) = Signalled(loading[n], t)
      /\ A /\ scenario.user => StartEntry(t, n) = loading[n]
      /\ A /\ ~scenario.user =>
             StartEntry(t, n) = RemoveWaitingThread([loading[n] EXCEPT !.initiator = t], t)
      /\ G => StartEntry(t, n) = AddWaitingThread(loading[n], t)
      /\ ~F /\ loading[n] = NoEntry => StartEntry(t, n) = NewEntry(t)
  BY <1>1, <1>3
<1> QED
  BY Zenon, <1>2, <1>4 DEF F, R, A, G

\* The operations on entries keep the others in the list.
LEMMA SignalledPasses ==
    ASSUME NEW e \in Entries \cup {NoEntry}, NEW t \in Threads, e # NoEntry => e.initiator \notin e.waiting
    PROVE  Passes(e, Signalled(e, t), t)
<1>1. CASE e = NoEntry
  BY Zenon, <1>1 DEF Passes, Signalled
<1>2. CASE e # NoEntry
  <2>1. e \in Entries
    BY Zenon, <1>2
  <2>2. e.waiting \subseteq Threads
    BY <2>1 DEF Entries
  <2>3. NoThread \notin Signalled(e, t).waiting \/ Signalled(e, t) = NoEntry
    BY Zenon, <1>2, <2>1, SignalledShape
  <2> QED
    BY Zenon, <1>2, <2>1, <2>2, <2>3, SignalledShape DEF Passes
<1> QED
  BY Zenon, <1>1, <1>2

\* AddWaitingThread puts a thread other than the initiator into the list.
LEMMA AddPasses ==
    ASSUME NEW e \in Entries, NEW t \in Threads, e.initiator \notin e.waiting, t # e.initiator
    PROVE  LET x == AddWaitingThread(e, t) IN
           /\ Passes(e, x, t) /\ x \in Entries /\ x.waiting = e.waiting \cup {t}
           /\ x.initiator = e.initiator /\ x.definer = e.definer /\ x.signalled = e.signalled
<1> DEFINE x == AddWaitingThread(e, t)
<1>1. /\ x \in Entries /\ x.waiting = e.waiting \cup {t}
      /\ x.initiator = e.initiator /\ x.definer = e.definer /\ x.signalled = e.signalled
  BY DEF Entries, AddWaitingThread
<1> HIDE DEF x
<1>2. Passes(e, x, t)
  BY Zenon, <1>1, NothingAssumption DEF Passes
<1> QED
  BY Zenon, <1>1, <1>2 DEF x

\* RemoveWaitingThread takes a thread out of the list, when it leaves the entry (which is
\* then removed if nobody is left) or becomes the initiator.
LEMMA RemovePasses ==
    ASSUME NEW e \in Entries, NEW t \in Threads, e.initiator \notin e.waiting
    PROVE  LET x == RemoveWaitingThread(e, t)
               y == RemoveWaitingThread([e EXCEPT !.initiator = t], t)
           IN
           /\ Passes(e, Kept(x), t) /\ x \in Entries /\ x.waiting = e.waiting \ {t}
           /\ x.initiator = e.initiator /\ x.definer = e.definer /\ x.signalled = e.signalled
           /\ Passes(e, y, t) /\ y \in Entries /\ y.waiting = e.waiting \ {t}
           /\ y.initiator = t /\ y.definer = e.definer /\ y.signalled = e.signalled
<1> DEFINE x == RemoveWaitingThread(e, t)
           y == RemoveWaitingThread([e EXCEPT !.initiator = t], t)
<1>1. /\ x \in Entries /\ x.waiting = e.waiting \ {t}
      /\ x.initiator = e.initiator /\ x.definer = e.definer /\ x.signalled = e.signalled
  BY DEF Entries, RemoveWaitingThread
<1>2. /\ y \in Entries /\ y.waiting = e.waiting \ {t}
      /\ y.initiator = t /\ y.definer = e.definer /\ y.signalled = e.signalled
  BY Zenon DEF Entries, RemoveWaitingThread
<1> HIDE DEF x, y
<1>3. Passes(e, Kept(x), t)
  BY Zenon, <1>1, NothingAssumption DEF Passes, Kept
<1>4. Passes(e, y, t)
  BY Zenon, <1>2, NothingAssumption DEF Passes
<1> QED
  BY Zenon, <1>1, <1>2, <1>3, <1>4 DEF x, y

\* ChangeDefinerAndInitiator takes the new definer out of the list and puts the initiator it
\* replaces into it.
LEMMA ChangePasses ==
    ASSUME NEW e \in Entries, NEW t \in Threads, e.initiator \notin e.waiting
    PROVE  Passes(e, ChangeDefinerAndInitiator(e, t), t)
<1>1. e.waiting \subseteq Threads
  BY DEF Entries
<1> DEFINE x == ChangeDefinerAndInitiator(e, t)
<1>2. /\ x \in Entries /\ x.initiator \notin x.waiting
      /\ \A u \in Threads \ {t} : u \in e.waiting \cup {e.initiator} <=> u \in x.waiting
  BY Zenon, ChangeShape
<1> HIDE DEF x
<1>3. x # NoEntry
  BY Zenon, <1>2, NothingAssumption
<1>4. ASSUME NEW u \in e.waiting \ {t} PROVE u \in x.waiting
  BY Zenon, <1>1, <1>2
<1>5. Passes(e, x, t)
  BY Zenon, <1>2, <1>3, <1>4 DEF Passes
<1> QED
  BY Zenon, <1>5 DEF x

\* A new LoadingClass has the thread that made it as initiator and nobody waiting.
LEMMA NewPasses ==
    ASSUME NEW t \in Threads
    PROVE  LET x == NewEntry(t) IN
           /\ Passes(NoEntry, x, t) /\ x \in Entries /\ x.initiator = t /\ x.definer = NoThread
           /\ x.waiting = {} /\ ~x.signalled
<1> DEFINE x == NewEntry(t)
<1>1. /\ x \in Entries /\ x.initiator = t /\ x.definer = NoThread
      /\ x.waiting = {} /\ ~x.signalled
  BY DEF NewEntry, Entries
<1> HIDE DEF x
<1>2. Passes(NoEntry, x, t)
  BY Zenon, <1>1 DEF Passes
<1> QED
  BY Zenon, <1>1, <1>2 DEF x

-----------------------------------------------------------------------------
(* Steps. *)

\* The stack of a thread that begins the load of an ancestor.
LEMMA PushShape ==
    ASSUME NEW s \in Seq(Names), s # <<>>, NEW n \in Names
    PROVE  LET r == <<n>> \o s IN
           /\ r \in Seq(Names) /\ r # <<>> /\ Len(r) = Len(s) + 1 /\ Head(r) = n /\ r[1] = n
           /\ \A i \in 1..Len(s) : i + 1 \in 2..Len(r) /\ r[i + 1] = s[i]
           /\ \A i \in 2..Len(r) : i - 1 \in 1..Len(s) /\ r[i] = s[i - 1]
           /\ r[Len(r)] = s[Len(s)]
<1> DEFINE r == <<n>> \o s
<1>1. /\ r \in Seq(Names) /\ r # <<>> /\ Len(r) = Len(s) + 1 /\ Head(r) = n /\ r[1] = n
  BY SMT
<1>2. Len(s) \in Nat /\ Len(s) >= 1
  BY SMT
<1>3. \A i \in 2..Len(r) : i - 1 \in 1..Len(s) /\ r[i] = s[i - 1]
  BY SMT
<1> HIDE DEF r
<1>4. \A i \in 1..Len(s) : i + 1 \in 2..Len(r) /\ r[i + 1] = s[i]
  <2>1. ASSUME NEW i \in 1..Len(s) PROVE i + 1 \in 2..Len(r) /\ (i + 1) - 1 = i
    BY SMT, <1>1, <1>2
  <2> QED
    BY Zenon, <1>3, <2>1
<1>5. r[Len(r)] = s[Len(s)]
  <2>1. Len(r) \in 2..Len(r) /\ Len(r) - 1 = Len(s)
    BY SMT, <1>1, <1>2
  <2> QED
    BY Zenon, <1>3, <2>1
<1> QED
  BY Zenon, <1>1, <1>3, <1>4, <1>5 DEF r

\* The stack of a thread that comes back from the load of an ancestor.
LEMMA PopShape ==
    ASSUME NEW s \in Seq(Names), Len(s) > 1
    PROVE  LET r == Tail(s) IN
           /\ r \in Seq(Names) /\ r # <<>> /\ Len(r) = Len(s) - 1 /\ Head(r) = s[2]
           /\ \A i \in 1..Len(r) : i + 1 \in 2..Len(s) /\ r[i] = s[i + 1]
           /\ \A i \in 2..Len(s) : i - 1 \in 1..Len(r) /\ r[i - 1] = s[i]
           /\ r[Len(r)] = s[Len(s)]
<1> DEFINE r == Tail(s)
<1>1. s # <<>> /\ Len(s) \in Nat
  BY SMT
<1>2. r \in Seq(Names) /\ Len(r) = Len(s) - 1
  BY Zenon, <1>1, HeadTailProperties
<1>3. \A i \in 1..Len(r) : i + 1 \in 2..Len(s) /\ r[i] = s[i + 1]
  <2>1. \A i \in 1..Len(r) : r[i] = s[i + 1]
    BY Zenon, <1>1, HeadTailProperties
  <2>2. \A i \in 1..Len(r) : i + 1 \in 2..Len(s)
    BY SMT, <1>1, <1>2
  <2> QED
    BY Zenon, <2>1, <2>2
<1> HIDE DEF r
<1>6. r # <<>> /\ Head(r) = s[2]
  BY SMT, <1>1, <1>2, <1>3
<1>4. \A i \in 2..Len(s) : i - 1 \in 1..Len(r) /\ r[i - 1] = s[i]
  <2>1. ASSUME NEW i \in 2..Len(s) PROVE i - 1 \in 1..Len(r) /\ (i - 1) + 1 = i
    BY SMT, <1>1, <1>2
  <2> QED
    BY Zenon, <1>3, <2>1
<1>5. r[Len(r)] = s[Len(s)]
  <2>1. Len(r) \in 1..Len(r) /\ Len(r) + 1 = Len(s)
    BY SMT, <1>1, <1>2
  <2> QED
    BY Zenon, <1>3, <2>1
<1> QED
  BY Zenon, <1>2, <1>3, <1>4, <1>5, <1>6 DEF r

\* A stack is empty after a pop if it had one name.
LEMMA TailEmpty ==
    ASSUME NEW s \in Seq(Names), s # <<>>
    PROVE  IF Tail(s) = <<>> THEN Len(s) = 1 ELSE Len(s) > 1
<1> DEFINE r == Tail(s)
<1>1. r \in Seq(Names) /\ Len(r) = Len(s) - 1
  BY Zenon, HeadTailProperties
<1> HIDE DEF r
<1>2. Len(r) \in Nat /\ (r = <<>> <=> Len(r) = 0) /\ Len(s) \in Nat
  BY Zenon, <1>1, EmptySeq, LenProperties
<1>3. IF r = <<>> THEN Len(s) = 1 ELSE Len(s) > 1
  BY SMT, <1>1, <1>2
<1> QED
  BY Zenon, <1>3 DEF r

\* The load of the ancestor begins, or ends.
Pushes(t) ==
    /\ Ancestor(Top(t)) \in Names
    /\ stack'[t] = <<Ancestor(Top(t))>> \o stack[t]
    /\ pc'[t] = "start"
    /\ \/ pc[t] = "array"
       \/ pc[t] = "new" /\ Fate(Top(t)) \notin {"array", "malformed"}
Pops(t) ==
    /\ Len(stack[t]) > 1
    /\ stack'[t] = Tail(stack[t])
    /\ \/ pc'[t] = "fail"
       \/ pc'[t] \in {"waitdef", "delegated"} /\ IsArray(Top(t))'
       \/ pc'[t] = "insert" /\ ~IsArray(Top(t))'
Moves(t) == stack'[t] = stack[t] \/ Pushes(t) \/ Pops(t)

\* A step of t leaves the other threads where they are and in the lists they are in, and
\* touches the entry and the tables for one name only.
Framed(t) ==
    /\ scenario' = scenario
    /\ \A u \in Threads \ {t} : pc'[u] = pc[u] /\ stack'[u] = stack[u] /\ exn'[u] = exn[u]
    /\ \A n \in Names \ {Top(t)} : loading'[n] = loading[n]
    /\ Passes(loading[Top(t)], loading'[Top(t)], t)
    /\ loadedClasses \subseteq loadedClasses'
    /\ initiatedClasses \subseteq initiatedClasses'
    /\ loadedClasses' \subseteq loadedClasses \cup {Top(t)}
    /\ initiatedClasses' \subseteq initiatedClasses \cup {Top(t)}
    /\ Moves(t)

\* What the class files say does not change.
LEMMA FilesStay ==
    ASSUME scenario' = scenario
    PROVE  /\ \A n : /\ Fate(n)' = Fate(n) /\ Ancestor(n)' = Ancestor(n)
                     /\ IsArray(n)' = IsArray(n) /\ Refused(n)' = Refused(n)
                     /\ Delegated(n)' = Delegated(n) /\ Foreign(n)' = Foreign(n)
           /\ Doomed' = Doomed /\ Circular' = Circular
           /\ Unforced' = Unforced /\ Undisturbed' = Undisturbed /\ WellFormed' = WellFormed
<1>1. \A n : /\ Fate(n)' = Fate(n) /\ Ancestor(n)' = Ancestor(n) /\ IsArray(n)' = IsArray(n)
            /\ Refused(n)' = Refused(n) /\ Delegated(n)' = Delegated(n)
            /\ Foreign(n)' = Foreign(n)
  BY Zenon DEF Fate, Ancestor, IsArray, Refused, Delegated, Foreign
<1>2. Doomed' = Doomed /\ Circular' = Circular
  BY Zenon DEF Doomed, Circular, Fate, Ancestor, Refused
<1>3. Unforced' = Unforced /\ WellFormed' = WellFormed
  BY Zenon DEF Unforced, WellFormed, Definable, Fate, Ancestor, Circular, Refused
<1> QED
  BY Zenon, <1>1, <1>2, <1>3 DEF Undisturbed

\* The request of the thread that moves: its stack ends with the name it asked for.
LEMMA MovedStack ==
    ASSUME TypeInv, NEW t \in Threads, RequestOf(t), scenario' = scenario, Moves(t)
    PROVE  /\ stack'[t] \in Seq(Names) /\ stack'[t] # <<>>
           /\ stack'[t][Len(stack'[t])] = scenario'.job[t].name
<1>1. /\ stack[t] \in Seq(Names) /\ stack[t] # <<>>
      /\ stack[t][Len(stack[t])] = scenario'.job[t].name
  BY Zenon DEF TypeInv, RequestOf
<1>2. CASE stack'[t] = stack[t]
  BY Zenon, <1>1, <1>2
<1>3. CASE Pushes(t)
  <2>1. PICK a \in Names : a = Ancestor(Top(t))
    BY Zenon, <1>3 DEF Pushes
  <2>2. stack'[t] = <<a>> \o stack[t]
    BY Zenon, <1>3, <2>1 DEF Pushes
  <2> QED
    BY <1>1, <2>2, PushShape
<1>4. CASE Pops(t)
  BY Zenon, <1>1, <1>4, PopShape DEF Pops
<1> QED
  BY Zenon, <1>2, <1>3, <1>4 DEF Moves

\* Whoever is in a list stays there while others act.
LEMMA ListedStays ==
    ASSUME TypeInv, NEW t \in Threads, Framed(t), NEW u \in Threads \ {t}, NEW n \in Names, Listed(u, n)
    PROVE  Listed(u, n)'
<1>1. CASE n = Top(t)
  BY Zenon, <1>1 DEF Framed, Passes, Listed
<1>2. CASE n # Top(t)
  BY Zenon, <1>2 DEF Framed, Listed
<1> QED
  BY Zenon, <1>1, <1>2

\* Steps that leave the tables alone.
LEMMA TablesKept ==
    ASSUME TablesInv, scenario' = scenario, loadedClasses' = loadedClasses,
           initiatedClasses' = initiatedClasses
    PROVE  TablesInv'
BY Zenon, FilesStay DEF TablesInv

\* What a framed step has to keep, besides.
LEMMA RequestKept ==
    ASSUME RequestInv, NEW t \in Threads, Framed(t), TypeInv', TablesInv', RequestOf(t)'
    PROVE  RequestInv'
<1>1. TypeInv /\ \A u \in Threads : RequestOf(u)
  BY Zenon DEF RequestInv
<1>2. ASSUME NEW n \in Names PROVE ListOf(n)'
  <2>1. CASE n = Top(t)
    BY Zenon, <2>1 DEF Framed, Passes, ListOf
  <2>2. CASE n # Top(t)
    BY Zenon, <2>2 DEF Framed, ListOf, RequestInv
  <2> QED
    BY Zenon, <2>1, <2>2
<1>3. ASSUME NEW u \in Threads \ {t} PROVE RequestOf(u)'
  <2>1. /\ pc'[u] = pc[u] /\ stack'[u] = stack[u] /\ exn'[u] = exn[u] /\ scenario' = scenario
        /\ Top(u)' = Top(u)
        /\ loadedClasses \subseteq loadedClasses' /\ initiatedClasses \subseteq initiatedClasses'
    BY Zenon DEF Framed, Top
  <2>2. RequestOf(u) /\ Top(u) \in Names
    BY Zenon, <1>1, TopType DEF RequestOf
  <2>3. Listed(u, Top(u)) => Listed(u, Top(u))'
    <3>1. PICK n \in Names : n = Top(u)
      BY Zenon, <2>2
    <3>2. Listed(u, n) => Listed(u, n)'
      BY Zenon, <1>1, ListedStays
    <3> QED
      BY Zenon, <2>1, <3>1, <3>2 DEF Listed
  <2>4. Found(Top(u)) => Found(Top(u))'
    BY Zenon, <2>1 DEF Found
  <2>5. Foreign(Top(u))' = Foreign(Top(u)) /\ IsArray(Top(u))' = IsArray(Top(u))
    BY Zenon, <2>1 DEF Foreign, Delegated, Refused, Ancestor, Fate, IsArray
  <2> QED
    BY Zenon, <2>1, <2>2, <2>3, <2>4, <2>5 DEF RequestOf
<1> QED
  BY Zenon, <1>2, <1>3 DEF RequestInv

\* A step of t concerns its own control, and the entry and the tables for one name.
Controls(t) ==
    /\ pc' \in [Threads -> Labels] /\ stack' \in [Threads -> Seq(Names)]
    /\ \A u \in Threads \ {t} : pc'[u] = pc[u] /\ stack'[u] = stack[u]
    /\ Moves(t)
Excepts(t) ==
    /\ exn' \in [Threads -> {"none", "notfound", "circularity", "linkage", "format", "refused"}]
    /\ \A u \in Threads \ {t} : exn'[u] = exn[u]
Enters(t) ==
    /\ loading' \in [Names -> Entries \cup {NoEntry}]
    /\ \A n \in Names \ {Top(t)} : loading'[n] = loading[n]
    /\ Passes(loading[Top(t)], loading'[Top(t)], t)

\* Goto changes the label of one thread.
LEMMA GotoShape ==
    ASSUME TypeInv, NEW t \in Threads, NEW l \in Labels, Goto(t, l)
    PROVE  pc' \in [Threads -> Labels] /\ pc'[t] = l /\ \A u \in Threads \ {t} : pc'[u] = pc[u]
BY Zenon DEF Goto, TypeInv

\* Goto with the stack left alone.
LEMMA GotoControls ==
    ASSUME TypeInv, NEW t \in Threads, NEW l \in Labels, Goto(t, l), stack' = stack
    PROVE  Controls(t) /\ pc'[t] = l /\ stack'[t] = stack[t] /\ Top(t)' = Top(t)
BY Zenon, GotoShape DEF Controls, Moves, TypeInv, Top

\* Raise changes the exception of one thread.
LEMMA RaiseExcepts ==
    ASSUME TypeInv, NEW t \in Threads,
           NEW x \in {"none", "notfound", "circularity", "linkage", "format", "refused"}, Raise(t, x)
    PROVE  Excepts(t) /\ exn'[t] = x
BY Zenon DEF Raise, Excepts, TypeInv

\* A step that raises nothing.
LEMMA KeepsExn ==
    ASSUME TypeInv, NEW t \in Threads, exn' = exn
    PROVE  Excepts(t) /\ exn'[t] = exn[t]
BY Zenon DEF Excepts, TypeInv

\* A step that leaves m_loadingClasses alone.
LEMMA KeepsEntries ==
    ASSUME RequestInv, NEW t \in Threads, loading' = loading
    PROVE  Enters(t)
<1>1. TypeInv /\ Top(t) \in Names /\ ListOf(Top(t))
  BY Zenon, TopType DEF RequestInv, RequestOf
<1>2. loading[Top(t)] \in Entries \cup {NoEntry}
  BY Zenon, <1>1 DEF TypeInv
<1> QED
  BY Zenon, <1>1, <1>2 DEF Enters, Passes, ListOf, TypeInv

\* A step that changes the entry of the innermost name of its thread.
LEMMA ChangesEntry ==
    ASSUME RequestInv, NEW t \in Threads, NEW x, Passes(loading[Top(t)], x, t),
           loading' = [loading EXCEPT ![Top(t)] = x]
    PROVE  Enters(t) /\ loading'[Top(t)] = x
<1>1. TypeInv /\ Top(t) \in Names
  BY Zenon, TopType DEF RequestInv, RequestOf
<1>2. x \in Entries \cup {NoEntry}
  BY Zenon DEF Passes
<1> QED
  BY Zenon, <1>1, <1>2 DEF Enters, TypeInv

\* A load that gives no class ends the request, or makes the load below fail.
LEMMA ReturnShape ==
    ASSUME TypeInv, NEW t \in Threads, RequestOf(t), scenario' = scenario, ReturnNull(t)
    PROVE  /\ Controls(t)
           /\ \/ Len(stack[t]) = 1 /\ stack'[t] = stack[t] /\ pc'[t] = "done"
              \/ Pops(t) /\ pc'[t] = "fail"
<1>1. stack[t] # <<>>
  BY Zenon DEF RequestOf
<1>2. stack[t] \in Seq(Names) /\ Len(stack[t]) \in Nat /\ Len(stack[t]) >= 1
  BY Zenon, <1>1, TopType
<1>3. CASE Len(stack[t]) = 1
  <2>1. stack' = stack /\ Goto(t, "done")
    BY Zenon, <1>2, <1>3 DEF ReturnNull, TypeInv
  <2> QED
    BY Zenon, <1>3, <2>1, GotoControls DEF Labels
<1>4. CASE Len(stack[t]) # 1
  <2>5. Len(stack[t]) > 1
    <3>1. \A k \in Nat : k >= 1 /\ k # 1 => k > 1
      OBVIOUS
    <3> QED
      BY Zenon, <1>2, <1>4, <3>1
  <2>1. Len(stack[t]) > 1 /\ Tail(stack[t]) \in Seq(Names)
    BY Zenon, <1>2, <2>5, PopShape
  <2>2. stack' = [stack EXCEPT ![t] = Tail(stack[t])] /\ Goto(t, "fail")
    BY Zenon, <1>4 DEF ReturnNull, TypeInv
  <2>3. pc' \in [Threads -> Labels] /\ pc'[t] = "fail" /\ \A u \in Threads \ {t} : pc'[u] = pc[u]
    BY Zenon, <2>2, GotoShape DEF Labels, Failing
  <2>4. /\ stack' \in [Threads -> Seq(Names)] /\ stack'[t] = Tail(stack[t])
        /\ \A u \in Threads \ {t} : stack'[u] = stack[u]
    BY Zenon, <2>1, <2>2 DEF TypeInv
  <2> QED
    BY Zenon, <2>1, <2>3, <2>4 DEF Pops, Moves, Controls
<1> QED
  BY Zenon, <1>3, <1>4

\* DefineClass fails: into the handler of loadClass, back to the caller, or on to the subclass.
LEMMA DefineNullShape ==
    ASSUME TypeInv, NEW t \in Threads, RequestOf(t), scenario' = scenario, DefineNull(t)
    PROVE  /\ Controls(t)
           /\ \/ InJava(t) /\ stack'[t] = stack[t] /\ pc'[t] = "throw"
              \/ ~InJava(t) /\ Len(stack[t]) = 1 /\ stack'[t] = stack[t] /\ pc'[t] = "done"
              \/ ~InJava(t) /\ Pops(t) /\ pc'[t] = "fail"
<1>1. CASE InJava(t)
  <2>1. stack' = stack /\ Goto(t, "throw")
    BY Zenon, <1>1 DEF DefineNull
  <2> QED
    BY Zenon, <1>1, <2>1, GotoControls DEF Labels, Failing
<1>2. CASE ~InJava(t)
  BY Zenon, <1>2, ReturnShape DEF DefineNull
<1> QED
  BY Zenon, <1>1, <1>2

\* The load of an ancestor begins.
LEMMA PushControls ==
    ASSUME TypeInv, NEW t \in Threads, stack[t] # <<>>, Ancestor(Top(t)) \in Names,
           stack' = [stack EXCEPT ![t] = <<Ancestor(Top(t))>> \o @], Goto(t, "start"),
           pc[t] = "array" \/ (pc[t] = "new" /\ Fate(Top(t)) \notin {"array", "malformed"})
    PROVE  Controls(t) /\ Pushes(t)
<1>1. PICK a \in Names : a = Ancestor(Top(t))
  BY Zenon
<1>2. <<a>> \o stack[t] \in Seq(Names)
  BY DEF TypeInv
<1>3. /\ stack' \in [Threads -> Seq(Names)] /\ stack'[t] = <<Ancestor(Top(t))>> \o stack[t]
      /\ \A u \in Threads \ {t} : stack'[u] = stack[u]
  BY Zenon, <1>1, <1>2 DEF TypeInv
<1>4. pc' \in [Threads -> Labels] /\ pc'[t] = "start" /\ \A u \in Threads \ {t} : pc'[u] = pc[u]
  BY Zenon, GotoShape DEF Labels
<1> QED
  BY Zenon, <1>3, <1>4 DEF Pushes, Moves, Controls

\* A step of t that touches nothing else keeps the requests of the others.
LEMMA StepRequest ==
    ASSUME RequestInv, NEW t \in Threads, scenario' = scenario, Controls(t), Excepts(t), Enters(t),
           monitor' \in [owner : Threads \cup {NoThread}, depth : Int],
           loadedClasses' \in {loadedClasses, loadedClasses \cup {Top(t)}},
           initiatedClasses' \in {initiatedClasses, initiatedClasses \cup {Top(t)}},
           TablesInv', RequestOf(t)'
    PROVE  RequestInv' /\ Framed(t)
<1>1. TypeInv /\ Top(t) \in Names
  BY Zenon, TopType DEF RequestInv, RequestOf
<1>2. loadedClasses' \subseteq Names /\ initiatedClasses' \subseteq Names /\ scenario' \in Scenarios
  BY Zenon, <1>1 DEF TypeInv
<1>3. TypeInv'
  BY Zenon, <1>2 DEF TypeInv, Controls, Excepts, Enters
<1>4. Framed(t)
  BY Zenon DEF Framed, Controls, Excepts, Enters
<1> QED
  BY Zenon, <1>3, <1>4, RequestKept

\* Labels of which RequestOf says nothing.
LEMMA PlainRequest ==
    ASSUME TypeInv, NEW t \in Threads, RequestOf(t), scenario' = scenario, Controls(t),
           pc'[t] \notin {"done", "array", "leave", "record", "delegated", "success", "spin",
                          "heldspin"},
           pc'[t] \in Failing => exn'[t] # "none"
    PROVE  RequestOf(t)'
BY Zenon, MovedStack DEF RequestOf, Controls

\* The request fails, or is about to.
LEMMA FailedRequest ==
    ASSUME TypeInv, NEW t \in Threads, RequestOf(t), scenario' = scenario, Controls(t),
           exn'[t] # "none",
           \/ pc'[t] \in Failing
           \/ pc'[t] = "done" /\ Len(stack[t]) = 1 /\ stack'[t] = stack[t]
    PROVE  RequestOf(t)'
<1>1. CASE pc'[t] \in Failing
  BY Zenon, <1>1, PlainRequest DEF Failing
<1>2. CASE pc'[t] = "done" /\ Len(stack[t]) = 1 /\ stack'[t] = stack[t]
  BY Zenon, <1>2, MovedStack DEF RequestOf, Controls, Failing
<1> QED
  BY Zenon, <1>1, <1>2

\* What RequestInv says of a thread and its innermost name.
LEMMA Basics ==
    ASSUME RequestInv, NEW t \in Threads
    PROVE  /\ TypeInv /\ TablesInv /\ RequestOf(t) /\ stack[t] # <<>> /\ Top(t) \in Names
           /\ ListOf(Top(t)) /\ loading[Top(t)] \in Entries \cup {NoEntry}
           /\ monitor \in [owner : Threads \cup {NoThread}, depth : Int]
<1>1. TypeInv /\ TablesInv /\ RequestOf(t) /\ stack[t] # <<>>
  BY Zenon DEF RequestInv, RequestOf
<1>2. Top(t) \in Names
  BY Zenon, <1>1, TopType
<1> QED
  BY Zenon, <1>1, <1>2 DEF RequestInv, TypeInv

\* A step that leaves the tables and the entries alone.
LEMMA QuietRequest ==
    ASSUME RequestInv, NEW t \in Threads, scenario' = scenario, tables' = tables,
           loading' = loading, monitor' = monitor, Controls(t), Excepts(t), RequestOf(t)'
    PROVE  RequestInv' /\ Framed(t)
<1>1. TablesInv /\ monitor \in [owner : Threads \cup {NoThread}, depth : Int]
  BY Zenon, Basics
<1>2. TablesInv'
  BY Zenon, <1>1, TablesKept DEF tables
<1> QED
  BY Zenon, <1>1, <1>2, KeepsEntries, StepRequest DEF tables

\* WaitLoading keeps RequestInv: who leaves with the class found has it in the tables.
LEMMA WaitLoadingRequest ==
    ASSUME RequestInv, NEW t \in Threads, WaitLoading(t)
    PROVE  RequestInv' /\ Framed(t)
<1>1. PICK l \in {"start", "wdspin"} : Goto(t, l)
  BY Zenon DEF WaitLoading
<1>2. TypeInv /\ RequestOf(t)
  BY Zenon, Basics
<1>3. Controls(t) /\ pc'[t] = l
  BY Zenon, <1>1, <1>2, GotoControls DEF WaitLoading, Labels, EngagedLabels
<1>4. RequestOf(t)'
  BY Zenon, <1>1, <1>2, <1>3, PlainRequest DEF WaitLoading, Failing
<1> QED
  BY Zenon, <1>2, <1>3, <1>4, KeepsExn, QuietRequest DEF WaitLoading

\* LoadFromFile keeps RequestInv.
LEMMA LoadFromFileRequest ==
    ASSUME RequestInv, NEW t \in Threads, LoadFromFile(t)
    PROVE  RequestInv' /\ Framed(t)
<1>1. PICK l \in {"fail", "define"} : Goto(t, l)
  BY Zenon DEF LoadFromFile
<1>2. TypeInv /\ RequestOf(t)
  BY Zenon, Basics
<1>3. Controls(t) /\ pc'[t] = l
  BY Zenon, <1>1, <1>2, GotoControls DEF LoadFromFile, Labels, EngagedLabels, Failing
<1>4. Excepts(t) /\ (pc'[t] = "fail" => exn'[t] # "none")
  <2>1. CASE Fate(Top(t)) = "missing"
    BY Zenon, <1>2, <2>1, RaiseExcepts DEF LoadFromFile
  <2>2. CASE Fate(Top(t)) # "missing"
    <3>1. Goto(t, "define") /\ exn' = exn
      BY Zenon, <2>2 DEF LoadFromFile
    <3>2. pc'[t] = "define"
      BY Zenon, <1>2, <3>1, GotoShape DEF Labels, EngagedLabels
    <3> QED
      BY Zenon, <1>2, <3>1, <3>2, KeepsExn
  <2> QED
    BY Zenon, <2>1, <2>2
<1>5. RequestOf(t)'
  BY Zenon, <1>1, <1>2, <1>3, <1>4, PlainRequest DEF LoadFromFile, Failing
<1> QED
  BY Zenon, <1>2, <1>3, <1>4, <1>5, QuietRequest DEF LoadFromFile

\* SetupAsArray keeps RequestInv and pushes the base class.
LEMMA SetupAsArrayRequest ==
    ASSUME RequestInv, NEW t \in Threads, SetupAsArray(t)
    PROVE  RequestInv' /\ Framed(t) /\ Pushes(t)
<1>1. TypeInv /\ RequestOf(t) /\ stack[t] # <<>> /\ Top(t) \in Names
  BY Zenon, Basics
<1>2. Ancestor(Top(t)) \in Names
  BY Zenon, <1>1, FileTypes DEF SetupAsArray, RequestOf
<1>3. Controls(t) /\ Pushes(t)
  BY Zenon, <1>1, <1>2, PushControls DEF SetupAsArray
<1>4. RequestOf(t)'
  BY Zenon, <1>1, <1>3, PlainRequest DEF Pushes, SetupAsArray, Failing
<1> QED
  BY Zenon, <1>1, <1>3, <1>4, KeepsExn, QuietRequest DEF SetupAsArray

\* Entering and leaving loadClass changes the monitor.
LEMMA MonitorRequest ==
    ASSUME RequestInv, NEW t \in Threads, EnterLoadClass(t) \/ LeaveLoadClass(t)
    PROVE  RequestInv' /\ Framed(t)
<1>1. TypeInv /\ TablesInv /\ RequestOf(t) /\ Top(t) \in Names
      /\ monitor \in [owner : Threads \cup {NoThread}, depth : Int]
  BY Zenon, Basics
<1>2. monitor' \in [owner : Threads \cup {NoThread}, depth : Int]
  BY <1>1 DEF EnterLoadClass, LeaveLoadClass
<1>3. TablesInv'
  BY Zenon, <1>1, TablesKept DEF tables, EnterLoadClass, LeaveLoadClass
<1>4. PICK l \in {"lookup", "delegated", "record", "refail"} : Goto(t, l)
  BY Zenon DEF EnterLoadClass, LeaveLoadClass
<1>5. Controls(t) /\ pc'[t] = l /\ Top(t)' = Top(t)
  BY Zenon, <1>1, <1>4, GotoControls
     DEF EnterLoadClass, LeaveLoadClass, Labels, EngagedLabels, Failing
<1>6. RequestOf(t)'
  <2>1. exn' = exn /\ scenario' = scenario /\ Foreign(Top(t))' = Foreign(Top(t))
        /\ (Found(Top(t)) <=> Found(Top(t))')
    BY Zenon, <1>5, FilesStay DEF EnterLoadClass, LeaveLoadClass, Foreign, Delegated, Refused, Fate,
       Ancestor, IsArray, Found, tables
  <2>2. CASE EnterLoadClass(t)
    <3>1. pc'[t] = "lookup"
      BY Zenon, <1>1, <2>2, GotoShape DEF EnterLoadClass, Labels, EngagedLabels
    <3> QED
      BY Zenon, <1>1, <1>5, <2>1, <3>1, PlainRequest DEF Failing
  <2>3. CASE pc[t] = "leave" /\ Goto(t, IF Fate(Top(t)) = "delegated" THEN "delegated" ELSE "record")
    <3>1. pc'[t] = IF Fate(Top(t)) = "delegated" THEN "delegated" ELSE "record"
      BY Zenon, <1>1, <2>3, GotoShape DEF Labels
    <3>2. Fate(Top(t)) = "delegated" => Foreign(Top(t))
      BY Zenon, <1>1, FileTypes
    <3> QED
      BY Zenon, <1>1, <1>5, <2>1, <2>3, <3>1, <3>2, MovedStack DEF RequestOf, Failing, Controls
  <2>4. CASE pc[t] = "throw" /\ Goto(t, "refail")
    <3>1. pc'[t] = "refail"
      BY Zenon, <1>1, <2>4, GotoShape DEF Labels, Failing
    <3> QED
      BY Zenon, <1>1, <1>5, <2>1, <2>4, <3>1, PlainRequest DEF RequestOf, Failing
  <2> QED
    BY Zenon, <2>2, <2>3, <2>4 DEF LeaveLoadClass
<1> QED
  BY Zenon, <1>1, <1>2, <1>3, <1>5, <1>6, KeepsExn, KeepsEntries, StepRequest
     DEF EnterLoadClass, LeaveLoadClass, tables

\* SearchClass, the body of loadClass, keeps RequestInv.
LEMMA SearchClassRequest ==
    ASSUME RequestInv, NEW t \in Threads, SearchClass(t)
    PROVE  RequestInv' /\ Framed(t)
<1>1. TypeInv /\ RequestOf(t) /\ Top(t) \in Names
  BY Zenon, Basics
<1>2. PICK l \in {"leave", "throw", "define"} : Goto(t, l)
  BY Zenon DEF SearchClass
<1>3. Controls(t) /\ pc'[t] = l /\ Top(t)' = Top(t)
  BY Zenon, <1>1, <1>2, GotoControls DEF SearchClass, Labels, EngagedLabels, Failing
<1>4. /\ Foreign(Top(t))' = Foreign(Top(t)) /\ (Found(Top(t)) <=> Found(Top(t))')
      /\ scenario' = scenario /\ (Fate(Top(t)) = "delegated" => Foreign(Top(t)))
  BY Zenon, <1>1, <1>3, FileTypes
     DEF SearchClass, Foreign, Delegated, Refused, Fate, Ancestor, IsArray, Found, tables
<1>5. CASE Goto(t, "leave") /\ (Found(Top(t)) \/ Fate(Top(t)) = "delegated") /\ exn' = exn
  <2>1. pc'[t] = "leave"
    BY Zenon, <1>1, <1>5, GotoShape DEF Labels
  <2>2. RequestOf(t)'
    BY Zenon, <1>1, <1>3, <1>4, <1>5, <2>1, MovedStack DEF RequestOf, Failing, Controls
  <2> QED
    BY Zenon, <1>1, <1>3, <1>5, <2>2, KeepsExn, QuietRequest DEF SearchClass
<1>6. CASE Goto(t, "throw") /\ Raise(t, "notfound")
  <2>1. pc'[t] = "throw" /\ exn'[t] = "notfound" /\ Excepts(t)
    BY Zenon, <1>1, <1>6, GotoShape, RaiseExcepts DEF Labels, Failing
  <2>2. RequestOf(t)'
    BY Zenon, <1>1, <1>3, <1>4, <2>1, PlainRequest DEF Failing
  <2> QED
    BY Zenon, <1>1, <1>3, <2>1, <2>2, QuietRequest DEF SearchClass
<1>7. CASE Goto(t, "define") /\ exn' = exn
  <2>1. pc'[t] = "define"
    BY Zenon, <1>1, <1>7, GotoShape DEF Labels, EngagedLabels
  <2>2. RequestOf(t)'
    BY Zenon, <1>1, <1>3, <1>4, <2>1, PlainRequest DEF Failing
  <2> QED
    BY Zenon, <1>1, <1>3, <1>7, <2>2, KeepsExn, QuietRequest DEF SearchClass
<1> QED
  BY Zenon, <1>5, <1>6, <1>7 DEF SearchClass

\* The lookup at the start of DefineClass keeps RequestInv.
LEMMA LookupClassRequest ==
    ASSUME RequestInv, NEW t \in Threads, LookupClass(t)
    PROVE  RequestInv' /\ Framed(t)
<1>1. TypeInv /\ RequestOf(t) /\ scenario' = scenario
  BY Zenon, Basics DEF LookupClass
<1>2. CASE Raise(t, "linkage") /\ DefineNull(t)
  <2>1. Excepts(t) /\ exn'[t] = "linkage"
    BY Zenon, <1>1, <1>2, RaiseExcepts
  <2>2. Controls(t) /\ RequestOf(t)'
    BY Zenon, <1>1, <1>2, <2>1, DefineNullShape, FailedRequest DEF Failing
  <2> QED
    BY Zenon, <1>1, <2>1, <2>2, QuietRequest DEF LookupClass
<1>3. CASE Goto(t, "waitdef") /\ stack' = stack /\ exn' = exn
  <2>1. Controls(t) /\ pc'[t] = "waitdef"
    BY Zenon, <1>1, <1>3, GotoControls DEF Labels, EngagedLabels
  <2>2. RequestOf(t)'
    BY Zenon, <1>1, <2>1, PlainRequest DEF Failing
  <2> QED
    BY Zenon, <1>1, <1>3, <2>1, <2>2, KeepsExn, QuietRequest DEF LookupClass
<1> QED
  BY Zenon, <1>2, <1>3 DEF LookupClass

\* NewClass keeps RequestInv, whether it fails, goes on or loads the superclass.
LEMMA NewClassRequest ==
    ASSUME RequestInv, NEW t \in Threads, NewClass(t)
    PROVE  RequestInv' /\ Framed(t)
<1>1. TypeInv /\ RequestOf(t) /\ scenario' = scenario /\ stack[t] # <<>> /\ Top(t) \in Names
  BY Zenon, Basics DEF NewClass
<1>2. CASE Raise(t, "format") /\ Goto(t, "fail") /\ stack' = stack
  <2>1. Excepts(t) /\ exn'[t] = "format"
    BY Zenon, <1>1, <1>2, RaiseExcepts
  <2>2. Controls(t) /\ pc'[t] = "fail"
    BY Zenon, <1>1, <1>2, GotoControls DEF Labels, Failing
  <2>3. RequestOf(t)'
    BY Zenon, <1>1, <2>1, <2>2, PlainRequest DEF Failing
  <2> QED
    BY Zenon, <1>1, <2>1, <2>2, <2>3, QuietRequest DEF NewClass
<1>3. CASE Goto(t, "insert") /\ stack' = stack /\ exn' = exn
  <2>1. Controls(t) /\ pc'[t] = "insert"
    BY Zenon, <1>1, <1>3, GotoControls DEF Labels, DefineLabels
  <2>2. RequestOf(t)'
    BY Zenon, <1>1, <2>1, PlainRequest DEF Failing
  <2> QED
    BY Zenon, <1>1, <1>3, <2>1, <2>2, KeepsExn, QuietRequest DEF NewClass
<1>4. CASE /\ Fate(Top(t)) \notin {"malformed", "array"} /\ Ancestor(Top(t)) # NoName
           /\ stack' = [stack EXCEPT ![t] = <<Ancestor(Top(t))>> \o @] /\ Goto(t, "start")
           /\ exn' = exn
  <2>1. Ancestor(Top(t)) \in Names
    BY Zenon, <1>1, <1>4, FileTypes
  <2>2. Controls(t) /\ Pushes(t)
    BY Zenon, <1>1, <1>4, <2>1, PushControls DEF NewClass
  <2>3. RequestOf(t)'
    BY Zenon, <1>1, <2>2, PlainRequest DEF Pushes, Failing
  <2> QED
    BY Zenon, <1>1, <1>4, <2>2, <2>3, KeepsExn, QuietRequest DEF NewClass
<1> QED
  BY Zenon, <1>2, <1>3, <1>4 DEF NewClass

\* InsertClass keeps RequestInv: the class is in both tables from here on.
LEMMA InsertClassRequest ==
    ASSUME RequestInv, NEW t \in Threads, InsertClass(t)
    PROVE  RequestInv' /\ Framed(t)
<1>1. /\ TypeInv /\ TablesInv /\ RequestOf(t) /\ scenario' = scenario /\ Top(t) \in Names
      /\ monitor \in [owner : Threads \cup {NoThread}, depth : Int]
  BY Zenon, Basics DEF InsertClass
<1>2. CASE Refused(Top(t))
  <2>1. Raise(t, "refused") /\ Goto(t, "fail") /\ stack' = stack /\ tables' = tables
        /\ loading' = loading /\ monitor' = monitor
    BY Zenon, <1>2 DEF InsertClass
  <2>2. Excepts(t) /\ exn'[t] = "refused" /\ Controls(t) /\ pc'[t] = "fail"
    BY Zenon, <1>1, <2>1, RaiseExcepts, GotoControls DEF Labels, Failing
  <2>3. RequestOf(t)'
    BY Zenon, <1>1, <2>2, PlainRequest DEF Failing
  <2> QED
    BY Zenon, <1>1, <2>1, <2>2, <2>3, QuietRequest
<1>3. CASE ~Refused(Top(t))
  <2>1. PICK l \in {"crash", "success"} : Goto(t, l)
    BY Zenon, <1>3 DEF InsertClass
  <2>2. Controls(t) /\ pc'[t] = l /\ Top(t)' = Top(t)
    BY Zenon, <1>1, <2>1, GotoControls DEF InsertClass, Labels
  <2>3. /\ loadedClasses' = loadedClasses \cup {Top(t)}
        /\ initiatedClasses' = initiatedClasses \cup {Top(t)} /\ exn' = exn
    BY Zenon, <1>3 DEF InsertClass
  <2>4. TablesInv'
    BY Zenon, <1>1, <2>3, FilesStay DEF TablesInv
  <2>5. RequestOf(t)'
    BY Zenon, <1>1, <2>1, <2>2, <2>3, MovedStack DEF RequestOf, Failing, Controls
  <2> QED
    BY Zenon, <1>1, <2>2, <2>3, <2>4, <2>5, KeepsExn, KeepsEntries, StepRequest DEF InsertClass
<1> QED
  BY Zenon, <1>2, <1>3

\* How the load of m, a subclass or an array, goes on after that of its ancestor.
Resumes(t, m) ==
    \/ IsArray(m) /\ Refused(m) /\ pc'[t] = "fail" /\ exn'[t] = "refused"
    \/ IsArray(m) /\ pc'[t] = "delegated" /\ exn' = exn
    \/ IsArray(m) /\ ~Delegated(m) /\ pc'[t] = "waitdef" /\ exn' = exn
    \/ ~IsArray(m) /\ pc'[t] = "insert" /\ exn' = exn

\* LoadClass keeps RequestInv: it records the class as initiated and returns or pops.
LEMMA LoadClassRequest ==
    ASSUME RequestInv, NEW t \in Threads, LoadClass(t)
    PROVE  /\ RequestInv' /\ Framed(t)
           /\ \/ stack'[t] = stack[t] /\ pc'[t] = "done" /\ exn' = exn
              \/ Pops(t) /\ Resumes(t, Top(t)')
<1>1. /\ TypeInv /\ TablesInv /\ RequestOf(t) /\ scenario' = scenario /\ Top(t) \in Names
      /\ monitor \in [owner : Threads \cup {NoThread}, depth : Int] /\ stack[t] # <<>>
      /\ stack[t] \in Seq(Names) /\ Len(stack[t]) \in Nat
  BY Zenon, Basics, TopType DEF LoadClass
<1>2. TablesInv'
  <2>1. Found(Top(t)) \/ Foreign(Top(t))
    BY Zenon, <1>1 DEF LoadClass, RequestOf
  <2> QED
    BY Zenon, <1>1, <2>1, FilesStay DEF LoadClass, TablesInv, Found
<1>3. CASE Tail(stack[t]) = <<>>
  <2>1. Goto(t, "done") /\ stack' = stack /\ exn' = exn
    BY Zenon, <1>3 DEF LoadClass
  <2>2. Len(stack[t]) = 1 /\ Top(t) = stack[t][Len(stack[t])]
    <3>1. Len(stack[t]) = 1
      BY Zenon, <1>1, <1>3, TailEmpty
    <3> QED
      BY Zenon, <1>1, <3>1, TopType
  <2>3. Controls(t) /\ pc'[t] = "done" /\ stack'[t] = stack[t] /\ Top(t)' = Top(t)
    BY Zenon, <1>1, <2>1, GotoControls DEF Labels
  <2>4. RequestOf(t)'
    BY Zenon, <1>1, <2>2, <2>3, MovedStack DEF LoadClass, RequestOf, Failing, Controls
  <2> QED
    BY Zenon, <1>1, <1>2, <2>1, <2>3, <2>4, KeepsExn, KeepsEntries, StepRequest DEF LoadClass
<1>4. CASE Tail(stack[t]) # <<>>
  <2> DEFINE m == Head(Tail(stack[t]))
  <2>1. /\ stack' = [stack EXCEPT ![t] = Tail(stack[t])]
        /\ \/ IsArray(m) /\ Delegated(m) /\ Refused(m) /\ Raise(t, "refused") /\ Goto(t, "fail")
           \/ IsArray(m) /\ Foreign(m) /\ exn' = exn /\ Goto(t, "delegated")
           \/ IsArray(m) /\ ~Delegated(m) /\ exn' = exn /\ Goto(t, "waitdef")
           \/ ~IsArray(m) /\ exn' = exn /\ Goto(t, "insert")
    BY Zenon, <1>4 DEF LoadClass, BaseLoaded, Foreign
  <2>2. Len(stack[t]) > 1
    BY Zenon, <1>1, <1>4, TailEmpty
  <2>3. Tail(stack[t]) \in Seq(Names)
    BY Zenon, <1>1, <2>2, PopShape
  <2>4. /\ stack' \in [Threads -> Seq(Names)] /\ stack'[t] = Tail(stack[t]) /\ Top(t)' = m
        /\ \A u \in Threads \ {t} : stack'[u] = stack[u]
    BY Zenon, <1>1, <2>1, <2>3 DEF TypeInv, Top
  <2> HIDE DEF m
  <2>5. PICK l \in {"fail", "delegated", "waitdef", "insert"} :
            /\ Goto(t, l) /\ Excepts(t)
            /\ \/ l = "fail" /\ IsArray(m) /\ Refused(m) /\ exn'[t] = "refused"
               \/ l = "delegated" /\ IsArray(m) /\ Foreign(m) /\ exn' = exn
               \/ l = "waitdef" /\ IsArray(m) /\ ~Delegated(m) /\ exn' = exn
               \/ l = "insert" /\ ~IsArray(m) /\ exn' = exn
    BY Zenon, <1>1, <2>1, RaiseExcepts, KeepsExn
  <2>6. /\ pc' \in [Threads -> Labels] /\ pc'[t] = l /\ \A u \in Threads \ {t} : pc'[u] = pc[u]
    BY Zenon, <1>1, <2>5, GotoShape DEF Labels, EngagedLabels, DefineLabels, Failing
  <2>7. IsArray(Top(t))' = IsArray(m) /\ Foreign(Top(t))' = Foreign(m)
    BY Zenon, <1>1, <2>4 DEF IsArray, Foreign, Delegated, Refused, Ancestor, Fate
  <2>8. Pops(t) /\ Controls(t)
    BY Zenon, <2>2, <2>4, <2>5, <2>6, <2>7 DEF Pops, Controls, Moves
  <2>9. RequestOf(t)'
    <3>1. CASE l = "delegated"
      BY Zenon, <1>1, <2>5, <2>6, <2>7, <2>8, <3>1, MovedStack DEF RequestOf, Failing, Controls
    <3>2. CASE l # "delegated"
      BY Zenon, <1>1, <2>5, <2>6, <2>8, <3>2, PlainRequest DEF Failing
    <3> QED
      BY Zenon, <3>1, <3>2
  <2>10. Resumes(t, Top(t)')
    BY Zenon, <2>4, <2>5, <2>6 DEF Resumes
  <2> QED
    BY Zenon, <1>1, <1>2, <2>5, <2>8, <2>9, <2>10, KeepsEntries, StepRequest DEF LoadClass
<1> QED
  BY Zenon, <1>3, <1>4

\* A new request after a failure keeps RequestInv.
LEMMA AgainRequest ==
    ASSUME RequestInv, NEW t \in Threads, Again(t)
    PROVE  RequestInv' /\ Framed(t)
<1>1. TypeInv /\ RequestOf(t) /\ scenario' = scenario
  BY Zenon, Basics DEF Again
<1>2. scenario.job[t].entry \in {"start", "define", "done"}
  BY Zenon, <1>1, FileTypes
<1>3. Controls(t) /\ pc'[t] = scenario.job[t].entry /\ stack'[t] = stack[t]
  BY Zenon, <1>1, <1>2, GotoControls DEF Again, Labels, EngagedLabels
<1>4. Excepts(t)
  BY Zenon, <1>1, RaiseExcepts DEF Again
<1>5. RequestOf(t)'
  <2>1. CASE scenario.job[t].entry = "done"
    BY Zenon, <1>1, <1>3, <2>1, MovedStack DEF Again, RequestOf, Failing, Controls
  <2>2. CASE scenario.job[t].entry # "done"
    BY Zenon, <1>1, <1>2, <1>3, <2>2, PlainRequest DEF Failing
  <2> QED
    BY Zenon, <2>1, <2>2
<1> QED
  BY Zenon, <1>1, <1>3, <1>4, <1>5, QuietRequest DEF Again

\* DefineClass and SetupAsArray return a class that is in the tables.
LEMMA DefineClassShape ==
    ASSUME RequestInv, NEW t \in Threads, scenario' = scenario, tables' = tables, stack' = stack,
           Found(Top(t)), DefineClassOf(t)
    PROVE  /\ Controls(t) /\ RequestOf(t)' /\ Top(t)' = Top(t)
           /\ pc'[t] = IF InJava(t) THEN "leave" ELSE IF Direct(t) THEN "done" ELSE "record"
<1>1. TypeInv /\ TablesInv /\ RequestOf(t) /\ stack[t] # <<>>
  BY Zenon, Basics
<1>2. /\ Controls(t) /\ Top(t)' = Top(t) /\ stack'[t] = stack[t]
      /\ pc'[t] = IF InJava(t) THEN "leave" ELSE IF Direct(t) THEN "done" ELSE "record"
  BY Zenon, <1>1, GotoControls DEF DefineClassOf, Labels
<1>3. Found(Top(t))' /\ Top(t) \in initiatedClasses'
  BY Zenon, <1>1, <1>2 DEF Found, TablesInv, tables
<1>4. pc'[t] = "done" => Len(stack[t]) = 1 /\ Top(t) = scenario.job[t].name
  BY Zenon, <1>1, <1>2, TopType DEF Direct, RequestOf
<1>5. RequestOf(t)'
  BY Zenon, <1>1, <1>2, <1>3, <1>4, MovedStack DEF RequestOf, Failing, Controls
<1> QED
  BY Zenon, <1>2, <1>5

\* SuccessLoadingClass keeps RequestInv and signals the entry.
LEMMA SuccessRequest ==
    ASSUME RequestInv, NEW t \in Threads, SuccessLoadingClass(t)
    PROVE  /\ RequestInv' /\ Framed(t) /\ stack'[t] = stack[t] /\ Top(t)' = Top(t)
           /\ loading'[Top(t)] = Signalled(loading[Top(t)], t)
<1>1. /\ TypeInv /\ TablesInv /\ RequestOf(t) /\ ListOf(Top(t)) /\ Top(t) \in Names
      /\ loading[Top(t)] \in Entries \cup {NoEntry} /\ scenario' = scenario
      /\ monitor \in [owner : Threads \cup {NoThread}, depth : Int]
  BY Zenon, Basics DEF SuccessLoadingClass
<1>2. Enters(t) /\ loading'[Top(t)] = Signalled(loading[Top(t)], t)
  BY Zenon, <1>1, SignalledPasses, ChangesEntry DEF SuccessLoadingClass, ListOf
<1>3. TablesInv'
  BY Zenon, <1>1, TablesKept DEF SuccessLoadingClass, tables
<1>4. Controls(t) /\ RequestOf(t)' /\ Top(t)' = Top(t)
  <2>1. CASE pc[t] = "success" /\ DefineClassOf(t)
    <3>1. Found(Top(t))
      BY Zenon, <1>1, <2>1 DEF RequestOf, Found
    <3> QED
      BY Zenon, <2>1, <3>1, DefineClassShape DEF SuccessLoadingClass
  <2>2. CASE pc[t] = "delegated" /\ Goto(t, "record")
    <3>1. Controls(t) /\ pc'[t] = "record" /\ Top(t)' = Top(t)
      BY Zenon, <1>1, <2>2, GotoControls DEF SuccessLoadingClass, Labels
    <3>2. Foreign(Top(t))'
      BY Zenon, <1>1, <2>2, <3>1
         DEF RequestOf, Foreign, Delegated, Refused, Fate, Ancestor, IsArray
    <3> QED
      BY Zenon, <1>1, <3>1, <3>2, MovedStack DEF RequestOf, Failing, Controls
  <2> QED
    BY Zenon, <2>1, <2>2 DEF SuccessLoadingClass
<1> QED
  BY Zenon, <1>1, <1>2, <1>3, <1>4, KeepsExn, StepRequest DEF SuccessLoadingClass, tables

\* FailedLoadingClass keeps RequestInv and signals the entry; the exception goes to the
\* handler of loadClass, to the caller, or to the load of the subclass.
LEMMA FailedRequestStep ==
    ASSUME RequestInv, NEW t \in Threads, FailedLoadingClass(t)
    PROVE  /\ RequestInv' /\ Framed(t) /\ loading'[Top(t)] = Signalled(loading[Top(t)], t)
           /\ \/ /\ pc[t] = "fail" /\ InJava(t) /\ stack'[t] = stack[t] /\ pc'[t] = "throw"
              \/ /\ pc[t] = "refail" \/ (pc[t] = "fail" /\ ~InJava(t))
                 /\ \/ Len(stack[t]) = 1 /\ stack'[t] = stack[t] /\ pc'[t] = "done"
                    \/ Pops(t) /\ pc'[t] = "fail"
<1>1. /\ TypeInv /\ TablesInv /\ RequestOf(t) /\ ListOf(Top(t)) /\ Top(t) \in Names
      /\ loading[Top(t)] \in Entries \cup {NoEntry} /\ scenario' = scenario
      /\ monitor \in [owner : Threads \cup {NoThread}, depth : Int] /\ exn' = exn
  BY Zenon, Basics DEF FailedLoadingClass
<1>2. Enters(t) /\ loading'[Top(t)] = Signalled(loading[Top(t)], t)
  BY Zenon, <1>1, SignalledPasses, ChangesEntry DEF FailedLoadingClass, ListOf
<1>3. TablesInv'
  BY Zenon, <1>1, TablesKept DEF FailedLoadingClass, tables
<1>4. /\ Controls(t)
      /\ \/ /\ pc[t] = "fail" /\ InJava(t) /\ stack'[t] = stack[t] /\ pc'[t] = "throw"
         \/ /\ pc[t] = "refail" \/ (pc[t] = "fail" /\ ~InJava(t))
            /\ \/ Len(stack[t]) = 1 /\ stack'[t] = stack[t] /\ pc'[t] = "done"
               \/ Pops(t) /\ pc'[t] = "fail"
  BY Zenon, <1>1, ReturnShape, DefineNullShape DEF FailedLoadingClass
<1>5. exn'[t] # "none"
  BY Zenon, <1>1, <1>4 DEF RequestOf, Failing
<1>6. RequestOf(t)'
  BY Zenon, <1>1, <1>4, <1>5, FailedRequest DEF Failing
<1> QED
  BY Zenon, <1>1, <1>2, <1>3, <1>4, <1>6, KeepsExn, StepRequest DEF FailedLoadingClass, tables

\* StartLoadingClass keeps the others in the list.
LEMMA StartPasses ==
    ASSUME RequestInv, NEW t \in Threads
    PROVE  Passes(loading[Top(t)], StartEntry(t, Top(t)), t)
<1> DEFINE n == Top(t)
           e == loading[n]
<1>1. ListOf(n) /\ e \in Entries \cup {NoEntry}
  BY Zenon, Basics
<1>2. e # NoEntry => e.initiator \notin e.waiting
  BY Zenon, <1>1 DEF ListOf
<1>3. CASE Found(n) \/ (Retries(t, n) /\ scenario.user)
  BY Zenon, <1>1, <1>2, <1>3, StartCases DEF Passes
<1>4. CASE Recurs(t, n)
  BY Zenon, <1>1, <1>2, <1>4, StartCases, SignalledPasses
<1>5. CASE Retries(t, n) /\ ~scenario.user
  <2>1. e \in Entries /\ e.initiator \notin e.waiting
    BY Zenon, <1>1, <1>2, <1>5 DEF Retries, Collides
  <2>2. StartEntry(t, n) = RemoveWaitingThread([e EXCEPT !.initiator = t], t)
    BY Zenon, <1>5, StartCases
  <2> HIDE DEF e
  <2>3. Passes(e, RemoveWaitingThread([e EXCEPT !.initiator = t], t), t)
    BY Zenon, <2>1, RemovePasses
  <2> QED
    BY Zenon, <2>2, <2>3 DEF e
<1>6. CASE Registers(t, n)
  <2>1. e \in Entries /\ e.initiator \notin e.waiting /\ t # e.initiator
    BY Zenon, <1>1, <1>2, <1>6 DEF Registers, Recurs, Collides
  <2>2. StartEntry(t, n) = AddWaitingThread(e, t)
    BY Zenon, <1>6, StartCases
  <2> QED
    BY Zenon, <2>1, <2>2, AddPasses
<1>7. CASE ~Found(n) /\ loading[n] = NoEntry
  BY Zenon, <1>7, StartCases, NewPasses
<1> QED
  BY Zenon, <1>3, <1>4, <1>5, <1>6, <1>7, StartCases

\* StartLoadingClass keeps RequestInv; it finds the class, waits, begins to load or raises
\* ClassCircularityError.
LEMMA StartRequest ==
    ASSUME RequestInv, NEW t \in Threads, StartLoadingClass(t)
    PROVE  /\ RequestInv' /\ Framed(t) /\ loading'[Top(t)] = StartEntry(t, Top(t))
           /\ \/ /\ ~Recurs(t, Top(t)) /\ stack'[t] = stack[t] /\ Top(t)' = Top(t) /\ exn' = exn
                 /\ \/ Found(Top(t)) /\ pc'[t] = "record"
                    \/ Waits(t, Top(t)) /\ pc'[t] = "spin"
                    \/ /\ ~Found(Top(t)) /\ ~Waits(t, Top(t))
                       /\ pc'[t] = IF IsArray(Top(t)) THEN "array"
                                   ELSE IF scenario.user THEN "java" ELSE "read"
              \/ /\ Recurs(t, Top(t)) /\ exn'[t] = "circularity"
                 /\ \/ Len(stack[t]) = 1 /\ stack'[t] = stack[t] /\ pc'[t] = "done"
                    \/ Pops(t) /\ pc'[t] = "fail"
<1> DEFINE n == Top(t)
<1>1. /\ TypeInv /\ TablesInv /\ RequestOf(t) /\ n \in Names /\ scenario' = scenario
      /\ monitor \in [owner : Threads \cup {NoThread}, depth : Int]
      /\ loading[n] \in Entries \cup {NoEntry}
  BY Zenon, Basics DEF StartLoadingClass
<1>2. Enters(t) /\ loading'[n] = StartEntry(t, n)
  BY Zenon, <1>1, StartPasses, ChangesEntry DEF StartLoadingClass
<1>3. TablesInv'
  BY Zenon, <1>1, TablesKept DEF StartLoadingClass, tables
<1>4. CASE Found(n) /\ Goto(t, "record") /\ stack' = stack /\ exn' = exn
  <2>1. Controls(t) /\ pc'[t] = "record" /\ stack'[t] = stack[t] /\ Top(t)' = n
    BY Zenon, <1>1, <1>4, GotoControls DEF Labels
  <2>2. Found(Top(t))'
    BY Zenon, <1>4, <2>1 DEF StartLoadingClass, Found, tables
  <2>3. RequestOf(t)'
    BY Zenon, <1>1, <2>1, <2>2, MovedStack DEF RequestOf, Failing, Controls
  <2> QED
    BY Zenon, <1>1, <1>2, <1>3, <1>4, <2>1, <2>3, KeepsExn, StepRequest
       DEF StartLoadingClass, tables, Recurs, Collides
<1>5. CASE Recurs(t, n) /\ Raise(t, "circularity") /\ ReturnNull(t)
  <2>1. Excepts(t) /\ exn'[t] = "circularity"
    BY Zenon, <1>1, <1>5, RaiseExcepts
  <2>2. /\ Controls(t)
        /\ \/ Len(stack[t]) = 1 /\ stack'[t] = stack[t] /\ pc'[t] = "done"
           \/ Pops(t) /\ pc'[t] = "fail"
    BY Zenon, <1>1, <1>5, ReturnShape
  <2>3. RequestOf(t)'
    BY Zenon, <1>1, <2>1, <2>2, FailedRequest DEF Failing
  <2> QED
    BY Zenon, <1>1, <1>2, <1>3, <1>5, <2>1, <2>2, <2>3, StepRequest DEF StartLoadingClass, tables
<1>6. CASE Waits(t, n) /\ Goto(t, "spin") /\ stack' = stack /\ exn' = exn
  <2>1. Controls(t) /\ pc'[t] = "spin" /\ stack'[t] = stack[t] /\ Top(t)' = n
    BY Zenon, <1>1, <1>6, GotoControls DEF Labels
  <2>2. ~Recurs(t, n) /\ StartEntry(t, n) = AddWaitingThread(loading[n], t) /\ loading[n] \in Entries
    BY Zenon, <1>1, <1>6, StartCases DEF Waits, Registers, Collides
  <2>3. StartEntry(t, n) # NoEntry /\ t \in StartEntry(t, n).waiting
    BY <2>2, NothingAssumption DEF AddWaitingThread, Entries
  <2>4. Listed(t, Top(t))'
    BY Zenon, <1>2, <2>1, <2>3 DEF Listed
  <2>5. RequestOf(t)'
    BY Zenon, <1>1, <2>1, <2>4, MovedStack DEF RequestOf, Failing, Controls
  <2> QED
    BY Zenon, <1>1, <1>2, <1>3, <1>6, <2>1, <2>2, <2>5, KeepsExn, StepRequest
       DEF StartLoadingClass, tables
<1>7. CASE /\ ~Found(n) /\ ~Recurs(t, n) /\ ~Waits(t, n) /\ stack' = stack /\ exn' = exn
           /\ Goto(t, IF IsArray(n) THEN "array" ELSE IF scenario.user THEN "java" ELSE "read")
  <2>1. /\ Controls(t) /\ stack'[t] = stack[t] /\ Top(t)' = n
        /\ pc'[t] = IF IsArray(n) THEN "array" ELSE IF scenario.user THEN "java" ELSE "read"
    BY Zenon, <1>1, <1>7, GotoControls DEF Labels, EngagedLabels
  <2>2. IsArray(Top(t))' = IsArray(n)
    BY Zenon, <1>1, <2>1 DEF IsArray, Fate
  <2>3. RequestOf(t)'
    BY Zenon, <1>1, <2>1, <2>2, MovedStack DEF RequestOf, Failing, Controls
  <2> QED
    BY Zenon, <1>1, <1>2, <1>3, <1>7, <2>1, <2>3, KeepsExn, StepRequest
       DEF StartLoadingClass, tables
<1> QED
  BY Zenon, <1>4, <1>5, <1>6, <1>7 DEF StartLoadingClass

\* WaitDefinition ends: t is the definer, unless the entry is gone.
Becomes(t, e, raised) ==
    /\ e = NoEntry => loading'[Top(t)] = NoEntry /\ pc'[t] = "crash" /\ stack'[t] = stack[t]
    /\ e # NoEntry =>
           /\ e \in Entries /\ e.initiator \notin e.waiting
           /\ loading'[Top(t)] = ChangeDefinerAndInitiator(e, t)
           /\ ~raised \/ IsArray(Top(t)) => pc'[t] = "new" /\ stack'[t] = stack[t]
           /\ raised /\ ~IsArray(Top(t)) =>
                  \/ InJava(t) /\ stack'[t] = stack[t] /\ pc'[t] = "throw"
                  \/ ~InJava(t) /\ Len(stack[t]) = 1 /\ stack'[t] = stack[t] /\ pc'[t] = "done"
                  \/ ~InJava(t) /\ Pops(t) /\ pc'[t] = "fail"

\* BecomeDefiner keeps RequestInv, from whichever entry WaitDefinition comes.
LEMMA BecomeRequest ==
    ASSUME RequestInv, NEW t \in Threads, NEW e, NEW raised \in BOOLEAN,
           scenario' = scenario, tables' = tables, monitor' = monitor, Excepts(t),
           Passes(loading[Top(t)], e, t), BecomeDefiner(t, e, raised), raised => exn'[t] # "none"
    PROVE  RequestInv' /\ Framed(t) /\ Becomes(t, e, raised)
<1>1. /\ TypeInv /\ TablesInv /\ RequestOf(t) /\ Top(t) \in Names
      /\ monitor \in [owner : Threads \cup {NoThread}, depth : Int]
  BY Zenon, Basics
<1>2. TablesInv'
  BY Zenon, <1>1, TablesKept DEF tables
<1>3. CASE e = NoEntry
  <2>1. loading' = [loading EXCEPT ![Top(t)] = e] /\ Goto(t, "crash") /\ stack' = stack
    BY Zenon, <1>3 DEF BecomeDefiner
  <2>2. Enters(t) /\ loading'[Top(t)] = e
    BY Zenon, <2>1, ChangesEntry
  <2>3. Controls(t) /\ pc'[t] = "crash" /\ stack'[t] = stack[t]
    BY Zenon, <1>1, <2>1, GotoControls DEF Labels
  <2>4. RequestOf(t)'
    BY Zenon, <1>1, <2>3, PlainRequest DEF Failing
  <2> QED
    BY Zenon, <1>1, <1>2, <1>3, <2>2, <2>3, <2>4, StepRequest DEF Becomes, tables
<1>4. CASE e # NoEntry
  <2> DEFINE x == ChangeDefinerAndInitiator(e, t)
  <2>1. e \in Entries /\ e.initiator \notin e.waiting
    BY Zenon, <1>4 DEF Passes
  <2>2. Passes(e, x, t)
    BY Zenon, <2>1, ChangePasses
  <2>3. loading' = [loading EXCEPT ![Top(t)] = x]
    BY Zenon, <1>4 DEF BecomeDefiner
  <2> HIDE DEF x
  <2>4. Passes(loading[Top(t)], x, t)
    BY Zenon, <1>4, <2>2 DEF Passes
  <2>5. Enters(t) /\ loading'[Top(t)] = x
    BY Zenon, <2>3, <2>4, ChangesEntry
  <2>6. CASE raised /\ ~IsArray(Top(t))
    <3>1. /\ Controls(t)
          /\ \/ InJava(t) /\ stack'[t] = stack[t] /\ pc'[t] = "throw"
             \/ ~InJava(t) /\ Len(stack[t]) = 1 /\ stack'[t] = stack[t] /\ pc'[t] = "done"
             \/ ~InJava(t) /\ Pops(t) /\ pc'[t] = "fail"
      BY Zenon, <1>1, <1>4, <2>6, DefineNullShape DEF BecomeDefiner
    <3>2. RequestOf(t)'
      BY Zenon, <1>1, <2>6, <3>1, FailedRequest DEF Failing
    <3>3. Becomes(t, e, raised)
      BY Zenon, <1>4, <2>1, <2>5, <2>6, <3>1 DEF Becomes, x
    <3> QED
      BY Zenon, <1>1, <1>2, <2>5, <3>1, <3>2, <3>3, StepRequest DEF tables
  <2>7. CASE ~(raised /\ ~IsArray(Top(t)))
    <3>1. Goto(t, "new") /\ stack' = stack
      BY Zenon, <1>4, <2>7 DEF BecomeDefiner
    <3>2. Controls(t) /\ pc'[t] = "new" /\ stack'[t] = stack[t]
      BY Zenon, <1>1, <3>1, GotoControls DEF Labels, DefineLabels
    <3>3. RequestOf(t)'
      BY Zenon, <1>1, <3>2, PlainRequest DEF Failing
    <3>4. Becomes(t, e, raised)
      BY Zenon, <1>4, <2>1, <2>5, <2>7, <3>2 DEF Becomes, x
    <3> QED
      BY Zenon, <1>1, <1>2, <2>5, <3>2, <3>3, <3>4, StepRequest DEF tables
  <2> QED
    BY Zenon, <2>6, <2>7
<1> QED
  BY Zenon, <1>3, <1>4

\* What StartUnderLock comes to.
StartedUnderLock(t) ==
    \/ /\ Found(Top(t)) /\ Listed(t, Top(t))
       /\ loading'[Top(t)] = Kept(RemoveWaitingThread(loading[Top(t)], t))
       /\ stack'[t] = stack[t] /\ Top(t)' = Top(t) /\ exn' = exn
       /\ pc'[t] = IF InJava(t) THEN "leave" ELSE IF Direct(t) THEN "done" ELSE "record"
    \/ /\ Found(Top(t)) /\ ~Listed(t, Top(t))
    \/ /\ Waits(t, Top(t)) /\ loading'[Top(t)] = AddWaitingThread(loading[Top(t)], t)
       /\ stack'[t] = stack[t] /\ Top(t)' = Top(t) /\ exn' = exn /\ pc'[t] = "heldspin"
    \/ /\ ~Found(Top(t)) /\ ~Waits(t, Top(t))
       /\ Becomes(t, StartEntry(t, Top(t)), Recurs(t, Top(t)))
       /\ IF Recurs(t, Top(t)) THEN exn'[t] = "circularity" ELSE exn' = exn

\* The StartLoadingClass that WaitDefinition calls with m_lock held keeps RequestInv.
LEMMA UnderLockRequest ==
    ASSUME RequestInv, NEW t \in Threads, StartUnderLock(t),
           scenario' = scenario, tables' = tables, monitor' = monitor
    PROVE  RequestInv' /\ Framed(t) /\ StartedUnderLock(t)
<1> DEFINE n == Top(t)
           e == loading[n]
<1>1. /\ TypeInv /\ TablesInv /\ RequestOf(t) /\ n \in Names
      /\ monitor \in [owner : Threads \cup {NoThread}, depth : Int]
      /\ ListOf(n) /\ e \in Entries \cup {NoEntry}
  BY Zenon, Basics
<1>2. TablesInv'
  BY Zenon, <1>1, TablesKept DEF tables
<1>3. CASE /\ Found(n) /\ e # NoEntry /\ AlreadyWaiting(e, t)
           /\ loading' = [loading EXCEPT ![n] = Kept(RemoveWaitingThread(e, t))]
           /\ DefineClassOf(t) /\ stack' = stack /\ exn' = exn
  <2>1. e \in Entries /\ e.initiator \notin e.waiting /\ Listed(t, n)
    BY Zenon, <1>1, <1>3 DEF ListOf, Listed, AlreadyWaiting
  <2>2. Passes(e, Kept(RemoveWaitingThread(e, t)), t)
    BY Zenon, <2>1, RemovePasses
  <2>3. Enters(t) /\ loading'[n] = Kept(RemoveWaitingThread(e, t))
    BY Zenon, <1>3, <2>2, ChangesEntry
  <2>4. /\ Controls(t) /\ RequestOf(t)' /\ Top(t)' = n
        /\ pc'[t] = IF InJava(t) THEN "leave" ELSE IF Direct(t) THEN "done" ELSE "record"
    BY Zenon, <1>3, DefineClassShape
  <2>5. RequestInv' /\ Framed(t)
    BY Zenon, <1>1, <1>2, <1>3, <2>3, <2>4, KeepsExn, StepRequest DEF tables
  <2> QED
    BY Zenon, <1>3, <2>1, <2>3, <2>4, <2>5 DEF StartedUnderLock
<1>4. CASE /\ Found(n) /\ ~(e # NoEntry /\ AlreadyWaiting(e, t)) /\ Raise(t, "linkage")
           /\ IF IsArray(n) THEN Goto(t, "new") /\ stack' = stack ELSE DefineNull(t)
           /\ loading' = loading
  <2>1. Excepts(t) /\ exn'[t] = "linkage"
    BY Zenon, <1>1, <1>4, RaiseExcepts
  <2>2. Controls(t) /\ RequestOf(t)'
    <3>1. CASE IsArray(n)
      <4>1. Controls(t) /\ pc'[t] = "new"
        BY Zenon, <1>1, <1>4, <3>1, GotoControls DEF Labels, DefineLabels
      <4> QED
        BY Zenon, <1>1, <4>1, PlainRequest DEF Failing
    <3>2. CASE ~IsArray(n)
      BY Zenon, <1>1, <1>4, <2>1, <3>2, DefineNullShape, FailedRequest DEF Failing
    <3> QED
      BY Zenon, <3>1, <3>2
  <2> QED
    BY Zenon, <1>4, <2>1, <2>2, QuietRequest DEF StartedUnderLock, Listed, AlreadyWaiting
<1>5. CASE /\ Waits(t, n) /\ loading' = [loading EXCEPT ![n] = StartEntry(t, n)]
           /\ Goto(t, "heldspin") /\ stack' = stack /\ exn' = exn
  <2>1. Controls(t) /\ pc'[t] = "heldspin" /\ stack'[t] = stack[t] /\ Top(t)' = n
    BY Zenon, <1>1, <1>5, GotoControls DEF Labels, EngagedLabels
  <2>2. ~Recurs(t, n) /\ StartEntry(t, n) = AddWaitingThread(e, t) /\ e \in Entries
    BY Zenon, <1>1, <1>5, StartCases DEF Waits, Registers, Collides
  <2>3. StartEntry(t, n) # NoEntry /\ t \in StartEntry(t, n).waiting
    BY <2>2, NothingAssumption DEF AddWaitingThread, Entries
  <2>4. Enters(t) /\ loading'[n] = StartEntry(t, n)
    BY Zenon, <1>5, StartPasses, ChangesEntry
  <2>5. Listed(t, Top(t))'
    BY Zenon, <2>1, <2>3, <2>4 DEF Listed
  <2>6. RequestOf(t)'
    BY Zenon, <1>1, <2>1, <2>5, MovedStack DEF RequestOf, Failing, Controls
  <2>7. RequestInv' /\ Framed(t)
    BY Zenon, <1>1, <1>2, <1>5, <2>1, <2>4, <2>6, KeepsExn, StepRequest DEF tables
  <2> QED
    BY Zenon, <1>5, <2>1, <2>2, <2>4, <2>7 DEF StartedUnderLock
<1>6. CASE /\ ~Found(n) /\ ~Waits(t, n)
           /\ BecomeDefiner(t, StartEntry(t, n), Recurs(t, n))
           /\ IF Recurs(t, n) THEN Raise(t, "circularity") ELSE exn' = exn
  <2>1. Excepts(t) /\ IF Recurs(t, n) THEN exn'[t] = "circularity" ELSE exn' = exn
    BY Zenon, <1>1, <1>6, RaiseExcepts, KeepsExn
  <2>2. Recurs(t, n) \in BOOLEAN /\ (Recurs(t, n) => exn'[t] # "none")
    BY Zenon, <2>1 DEF Recurs
  <2>3. RequestInv' /\ Framed(t) /\ Becomes(t, StartEntry(t, n), Recurs(t, n))
    BY Zenon, <1>6, <2>1, <2>2, StartPasses, BecomeRequest
  <2> QED
    BY Zenon, <1>6, <2>1, <2>3 DEF StartedUnderLock
<1> QED
  BY Zenon, <1>3, <1>4, <1>5, <1>6 DEF StartUnderLock

\* WaitDefinition keeps RequestInv; it becomes the definer, waits for another one, or starts
\* the load anew.
LEMMA WaitDefinitionRequest ==
    ASSUME RequestInv, NEW t \in Threads, WaitDefinition(t)
    PROVE  /\ RequestInv' /\ Framed(t)
           /\ \/ /\ Top(t) \notin loadedClasses /\ loading[Top(t)] # NoEntry
                 /\ loading[Top(t)].definer = NoThread /\ exn' = exn
                 /\ Becomes(t, loading[Top(t)], FALSE)
              \/ /\ Top(t) \notin loadedClasses /\ loading[Top(t)] # NoEntry
                 /\ loading[Top(t)].definer # NoThread /\ loading' = loading /\ exn' = exn
                 /\ pc'[t] = "wdspin" /\ stack'[t] = stack[t] /\ Top(t)' = Top(t)
              \/ /\ Top(t) \in loadedClasses \/ loading[Top(t)] = NoEntry
                 /\ StartedUnderLock(t)
<1> DEFINE n == Top(t)
           e == loading[n]
<1>1. /\ TypeInv /\ RequestOf(t) /\ n \in Names /\ scenario' = scenario /\ tables' = tables
      /\ monitor' = monitor /\ ListOf(n) /\ e \in Entries \cup {NoEntry}
  BY Zenon, Basics DEF WaitDefinition, tables
<1>2. CASE /\ e # NoEntry /\ n \notin loadedClasses /\ e.definer = NoThread
           /\ BecomeDefiner(t, e, FALSE) /\ exn' = exn
  <2>1. Passes(e, e, t)
    BY Zenon, <1>1 DEF Passes, ListOf
  <2>2. Excepts(t)
    BY Zenon, <1>1, <1>2, KeepsExn
  <2>3. RequestInv' /\ Framed(t) /\ Becomes(t, e, FALSE)
    BY Zenon, <1>1, <1>2, <2>1, <2>2, BecomeRequest
  <2> QED
    BY Zenon, <1>2, <2>3
<1>3. CASE /\ e # NoEntry /\ n \notin loadedClasses /\ e.definer # NoThread
           /\ Goto(t, "wdspin") /\ loading' = loading /\ stack' = stack /\ exn' = exn
  <2>1. Controls(t) /\ pc'[t] = "wdspin" /\ stack'[t] = stack[t] /\ Top(t)' = n
    BY Zenon, <1>1, <1>3, GotoControls DEF Labels, EngagedLabels
  <2>2. RequestOf(t)'
    BY Zenon, <1>1, <2>1, PlainRequest DEF Failing
  <2>3. RequestInv' /\ Framed(t)
    BY Zenon, <1>1, <1>3, <2>1, <2>2, KeepsExn, QuietRequest
  <2> QED
    BY Zenon, <1>3, <2>1, <2>3
<1>4. CASE ~(e # NoEntry /\ n \notin loadedClasses) /\ StartUnderLock(t)
  BY Zenon, <1>1, <1>4, UnderLockRequest
<1> QED
  BY Zenon, <1>2, <1>3, <1>4 DEF WaitDefinition

\* WaitDefinition after its wait keeps RequestInv.
LEMMA WaitedRequest ==
    ASSUME RequestInv, NEW t \in Threads, WaitedDefinition(t)
    PROVE  RequestInv' /\ Framed(t) /\ StartedUnderLock(t)
BY Zenon, UnderLockRequest DEF WaitedDefinition

\* The first invariant, which holds whatever the threads ask for.
LEMMA RequestInvariant == RequestInv /\ [Next]_vars => RequestInv'
<1>1. ASSUME RequestInv, UNCHANGED vars PROVE RequestInv'
  <2>1. TypeInv' /\ TablesInv'
    BY Zenon, <1>1, TablesKept DEF RequestInv, TypeInv, vars, tables
  <2>2. ASSUME NEW n \in Names PROVE ListOf(n)'
    BY Zenon, <1>1 DEF RequestInv, ListOf, vars
  <2>3. ASSUME NEW t \in Threads PROVE RequestOf(t)'
    BY Zenon, <1>1 DEF RequestInv, RequestOf, vars, tables, Top, Found, Fate, IsArray, Listed,
       Foreign, Delegated, Refused, Ancestor
  <2> QED
    BY Zenon, <2>1, <2>2, <2>3 DEF RequestInv
<1>2. ASSUME RequestInv, NEW t \in Threads, Step(t) \/ Again(t) PROVE RequestInv'
  BY Zenon, <1>2, StartRequest, WaitLoadingRequest, LoadFromFileRequest, SetupAsArrayRequest,
     MonitorRequest, SearchClassRequest, LookupClassRequest, WaitDefinitionRequest, WaitedRequest,
     NewClassRequest, InsertClassRequest, SuccessRequest, FailedRequestStep, LoadClassRequest,
     AgainRequest
     DEF Step
<1> QED
  BY Zenon, <1>1, <1>2 DEF Next

\* RequestInv holds when nobody has asked for anything.
LEMMA InitRequest == Init => RequestInv
<1> SUFFICES ASSUME Init PROVE RequestInv
  BY Zenon
<1>1. scenario \in Scenarios
  BY Zenon DEF Init
<1>2. \A t \in Threads : /\ scenario.job[t].entry \in {"start", "define", "done"}
                         /\ scenario.job[t].name \in Names
  BY <1>1, ScenarioAssumption
<1>3. TypeInv
  <2>1. \A t \in Threads : <<scenario.job[t].name>> \in Seq(Names)
    BY <1>2
  <2>2. /\ loading \in [Names -> Entries \cup {NoEntry}]
        /\ exn \in [Threads -> {"none", "notfound", "circularity", "linkage", "format", "refused"}]
        /\ loadedClasses \subseteq Names /\ initiatedClasses \subseteq Names
    BY Zenon DEF Init
  <2>3. monitor \in [owner : Threads \cup {NoThread}, depth : Int]
    BY DEF Init
  <2>4. pc \in [Threads -> Labels] /\ stack \in [Threads -> Seq(Names)]
    BY Zenon, <1>2, <2>1 DEF Init, Labels, EngagedLabels
  <2> QED
    BY Zenon, <1>1, <2>2, <2>3, <2>4 DEF TypeInv
<1>4. ASSUME NEW t \in Threads PROVE RequestOf(t)
  <2>1. /\ pc[t] \in {"start", "define", "done"} /\ exn[t] = "none"
        /\ pc[t] = scenario.job[t].entry /\ stack[t] = <<scenario.job[t].name>>
    BY Zenon, <1>2 DEF Init
  <2>2. stack[t] # <<>> /\ Len(stack[t]) = 1 /\ stack[t][1] = scenario.job[t].name
    BY <1>2, <2>1
  <2> QED
    BY Zenon, <2>1, <2>2 DEF RequestOf, Failing
<1>5. TablesInv /\ \A n \in Names : ListOf(n)
  BY Zenon DEF Init, TablesInv, ListOf
<1> QED
  BY Zenon, <1>3, <1>4, <1>5 DEF RequestInv

-----------------------------------------------------------------------------
(* Class files. *)

\* A doomed name is doomed by its own file or by its ancestor.
LEMMA DoomedCases ==
    ASSUME NEW n \in Doomed
    PROVE  /\ n \in Names
           /\ \/ Fate(n) \in {"missing", "malformed"} \/ Refused(n)
              \/ Fate(n) \in {"fine", "array"} /\ Ancestor(n) \in Doomed
<1>1. PICK S \in SUBSET Names :
          /\ n \in S
          /\ \A m \in S : \/ Fate(m) \in {"missing", "malformed"} \/ Refused(m)
                          \/ Fate(m) \in {"fine", "array"} /\ Ancestor(m) \in S
  BY Zenon DEF Doomed
<1>2. S \subseteq Doomed
  BY Zenon, <1>1 DEF Doomed
<1> QED
  BY Zenon, <1>1, <1>2

\* Names that lead to each other only, or to doomed ones, are doomed.
LEMMA DoomedClosed ==
    ASSUME NEW S \in SUBSET Names,
           \A n \in S : \/ Fate(n) \in {"missing", "malformed"} \/ Refused(n)
                        \/ Fate(n) \in {"fine", "array"} /\ Ancestor(n) \in S \cup Doomed
    PROVE  S \subseteq Doomed
<1> DEFINE R == S \cup Doomed
<1>1. R \in SUBSET Names
  BY Zenon, DoomedCases
<1>2. ASSUME NEW n \in R
      PROVE  \/ Fate(n) \in {"missing", "malformed"} \/ Refused(n)
             \/ Fate(n) \in {"fine", "array"} /\ Ancestor(n) \in R
  BY Zenon, <1>2, DoomedCases
<1> HIDE DEF R
<1>3. R \subseteq Doomed
  BY Zenon, <1>1, <1>2 DEF Doomed
<1> QED
  BY Zenon, <1>3 DEF R

\* A missing or malformed file dooms its name, and so does a refusal.
LEMMA DoomedFile ==
    ASSUME NEW n \in Names, Fate(n) \in {"missing", "malformed"} \/ Refused(n)
    PROVE  n \in Doomed
<1> DEFINE S == {n}
<1>1. /\ S \in SUBSET Names
      /\ \A m \in S : \/ Fate(m) \in {"missing", "malformed"} \/ Refused(m)
                      \/ Fate(m) \in {"fine", "array"} /\ Ancestor(m) \in S \cup Doomed
  BY Zenon
<1> HIDE DEF S
<1>2. S \subseteq Doomed
  BY Zenon, <1>1, DoomedClosed
<1> QED
  BY Zenon, <1>2 DEF S

\* A doomed ancestor dooms its subclasses and its arrays.
LEMMA DoomedAncestor ==
    ASSUME NEW n \in Names, Fate(n) \in {"fine", "array"}, Ancestor(n) \in Doomed
    PROVE  n \in Doomed
<1> DEFINE S == {n}
<1>1. /\ S \in SUBSET Names
      /\ \A m \in S : \/ Fate(m) \in {"missing", "malformed"} \/ Refused(m)
                      \/ Fate(m) \in {"fine", "array"} /\ Ancestor(m) \in S \cup Doomed
  BY Zenon
<1> HIDE DEF S
<1>2. S \subseteq Doomed
  BY Zenon, <1>1, DoomedClosed
<1> QED
  BY Zenon, <1>2 DEF S

\* A name that a thread loads twice is its own ancestor.
LEMMA Twice ==
    ASSUME TypeInv, NEW t \in Threads, stack[t] # <<>>, FilesOf(t), Top(t) \in Below(t)
    PROVE  Top(t) \in Doomed /\ Circular
<1>1. PICK k \in 2..Len(stack[t]) : stack[t][k] = Top(t)
  BY Zenon DEF Below
<1>2. /\ stack[t] \in Seq(Names) /\ Len(stack[t]) \in Nat /\ Top(t) = stack[t][1]
      /\ \A i \in 1..Len(stack[t]) : stack[t][i] \in Names
  BY Zenon, TopType
<1>3. \A i \in 1..(Len(stack[t]) - 1) :
          stack[t][i] = Ancestor(stack[t][i + 1]) /\ Fate(stack[t][i + 1]) \in {"fine", "array"}
  BY Zenon DEF FilesOf, ChainOf
<1>4. \A i \in 2..k : /\ Ancestor(stack[t][i]) = stack[t][i - 1] /\ i - 1 \in 1..k
                      /\ Fate(stack[t][i]) \in {"fine", "array"} /\ i \in 1..Len(stack[t])
  <2> SUFFICES ASSUME NEW i \in 2..k
               PROVE  /\ Ancestor(stack[t][i]) = stack[t][i - 1] /\ i - 1 \in 1..k
                      /\ Fate(stack[t][i]) \in {"fine", "array"} /\ i \in 1..Len(stack[t])
    BY Zenon
  <2>1. /\ i - 1 \in 1..(Len(stack[t]) - 1) /\ (i - 1) + 1 = i
        /\ i - 1 \in 1..k /\ i \in 1..Len(stack[t])
    BY SMT, <1>2
  <2> QED
    BY Zenon, <1>3, <2>1
<1> DEFINE S == {stack[t][i] : i \in 2..k}
<1>5. k \in 2..k
  BY SMT, <1>2
<1>6. ASSUME NEW i \in 2..k PROVE Ancestor(stack[t][i]) \in S
  <2>1. CASE i = 2
    <3>1. Ancestor(stack[t][i]) = stack[t][k]
      <4>1. i - 1 = 1
        BY SMT, <2>1
      <4> QED
        BY Zenon, <1>1, <1>2, <1>4, <4>1
    <3> QED
      BY Zenon, <1>5, <3>1
  <2>2. CASE i # 2
    <3>1. i - 1 \in 2..k
      BY SMT, <1>2, <2>2
    <3> QED
      BY Zenon, <1>4, <3>1
  <2> QED
    BY Zenon, <2>1, <2>2
<1>7. S \in SUBSET Names /\ Top(t) \in S
  BY Zenon, <1>1, <1>2, <1>4, <1>5
<1>8. \A n \in S : Fate(n) \in {"fine", "array"} /\ Ancestor(n) \in S
  BY Zenon, <1>4, <1>6
<1> HIDE DEF S
<1>9. S \subseteq Doomed
  BY Zenon, <1>7, <1>8, DoomedClosed
<1>10. Circular
  BY Zenon, <1>7, <1>8 DEF Circular
<1> QED
  BY Zenon, <1>7, <1>9, <1>10

\* If every class that is found can be defined, the loads that fail are those of classes that
\* are missing, and of arrays of them.
LEMMA WellFormedDoomed ==
    ASSUME TypeInv, WellFormed, NEW n \in Doomed
    PROVE  Fate(n) \in {"missing", "array"}
<1> DEFINE S == {m \in Doomed : Fate(m) = "fine"}
<1>1. ASSUME NEW m \in S PROVE Ancestor(m) \in S
  <2>1. Ancestor(m) \in Doomed /\ m \in Names
    BY Zenon, DoomedCases DEF WellFormed
  <2>2. Fate(Ancestor(m)) \in {"fine", "delegated"}
    <3>1. Ancestor(m) # NoName
      BY Zenon, <2>1, DoomedCases, NothingAssumption
    <3> QED
      BY Zenon, <2>1, <3>1 DEF WellFormed, Definable
  <2>3. Fate(Ancestor(m)) # "delegated"
    <3>1. \A x \in Doomed : Fate(x) \in {"missing", "malformed", "fine", "array"}
      BY Zenon, DoomedCases DEF WellFormed
    <3> QED
      BY Zenon, <2>1, <3>1
  <2> QED
    BY Zenon, <2>1, <2>2, <2>3
<1>2. S \in SUBSET Names
  BY Zenon, DoomedCases
<1>3. S = {}
  BY Zenon, <1>1, <1>2 DEF WellFormed, Circular
<1>4. n \in Names /\ Fate(n) # "malformed"
  BY Zenon, DoomedCases DEF WellFormed
<1> QED
  BY Zenon, <1>3, <1>4, DoomedCases DEF WellFormed

\* An array is nobody's ancestor: its load is the one the thread asked for.
LEMMA ArrayAlone ==
    ASSUME TypeInv, NEW t \in Threads, stack[t] # <<>>, FilesOf(t), IsArray(Top(t))
    PROVE  Below(t) = {}
<1>1. /\ Len(stack[t]) \in Nat /\ Len(stack[t]) >= 1 /\ Top(t) = stack[t][1]
      /\ Top(t) \in Names /\ \A i \in 1..Len(stack[t]) : stack[t][i] \in Names
  BY Zenon, TopType
<1>2. ASSUME Len(stack[t]) # 1 PROVE FALSE
  <2>1. \A l \in Nat : l >= 1 /\ l # 1 => 1 \in 1..(l - 1) /\ 1 + 1 = 2 /\ 2 \in 1..l
    OBVIOUS
  <2>2. Top(t) = Ancestor(stack[t][2]) /\ stack[t][2] \in Names
    BY Zenon, <1>1, <1>2, <2>1 DEF FilesOf, ChainOf
  <2> QED
    BY Zenon, <1>1, <2>2, FileTypes
<1>3. 2..1 = {}
  OBVIOUS
<1>4. 2..Len(stack[t]) = {}
  BY Zenon, <1>2, <1>3
<1> QED
  BY Zenon, <1>4 DEF Below

-----------------------------------------------------------------------------
(* Who loads what, without JNI DefineClass. *)

\* The names on the stack of the thread that moves.
LEMMA MovedNames ==
    ASSUME TypeInv, NEW t \in Threads, RequestOf(t)
    PROVE  /\ stack'[t] = stack[t] => Below(t)' = Below(t) /\ Top(t)' = Top(t)
           /\ Pushes(t) => Below(t)' = Below(t) \cup {Top(t)} /\ Top(t)' = Ancestor(Top(t))
           /\ Pops(t) => Below(t) = Below(t)' \cup {Top(t)'}
<1>1. /\ stack[t] # <<>> /\ stack[t] \in Seq(Names) /\ Len(stack[t]) \in Nat
      /\ Len(stack[t]) >= 1 /\ Top(t) = stack[t][1]
  BY Zenon, TopType DEF RequestOf
<1>2. ASSUME stack'[t] = stack[t] PROVE Below(t)' = Below(t) /\ Top(t)' = Top(t)
  BY Zenon, <1>2 DEF Below, Top
<1>3. ASSUME Pushes(t) PROVE Below(t)' = Below(t) \cup {Top(t)} /\ Top(t)' = Ancestor(Top(t))
  <2> DEFINE s == stack[t]
             r == stack'[t]
  <2>1. PICK a \in Names : a = Ancestor(Top(t))
    BY Zenon, <1>3 DEF Pushes
  <2>2. r = <<a>> \o s
    BY Zenon, <1>3, <2>1 DEF Pushes
  <2>3. /\ Head(r) = a /\ \A i \in 1..Len(s) : i + 1 \in 2..Len(r) /\ r[i + 1] = s[i]
        /\ \A i \in 2..Len(r) : i - 1 \in 1..Len(s) /\ r[i] = s[i - 1]
    BY <1>1, <2>2, PushShape
  <2> HIDE DEF s, r
  <2>4. 1 \in 1..Len(s) /\ \A i \in 2..Len(s) : i \in 1..Len(s)
    BY <1>1 DEF s
  <2>5. \A i \in 1..Len(s) : i = 1 \/ i \in 2..Len(s)
    BY <1>1 DEF s
  <2>6. ASSUME NEW x PROVE x \in Below(t)' <=> x \in Below(t) \cup {Top(t)}
    <3>1. ASSUME x \in Below(t)' PROVE x \in Below(t) \cup {Top(t)}
      <4>1. PICK i \in 2..Len(r) : x = r[i]
        BY Zenon, <3>1 DEF Below, r
      <4> QED
        BY Zenon, <1>1, <2>3, <2>5, <4>1 DEF Below, s
    <3>2. ASSUME x \in Below(t) \cup {Top(t)} PROVE x \in Below(t)'
      <4>1. PICK i \in 1..Len(s) : x = s[i]
        BY Zenon, <1>1, <2>4, <3>2 DEF Below, s
      <4> QED
        BY Zenon, <2>3, <4>1 DEF Below, r
    <3> QED
      BY Zenon, <3>1, <3>2
  <2> QED
    BY Zenon, <2>1, <2>3, <2>6 DEF Top, r
<1>4. ASSUME Pops(t) PROVE Below(t) = Below(t)' \cup {Top(t)'}
  <2> DEFINE s == stack[t]
             r == stack'[t]
  <2>1. Len(s) > 1 /\ r = Tail(s)
    BY Zenon, <1>4 DEF Pops
  <2>2. /\ Head(r) = s[2] /\ Len(r) = Len(s) - 1
        /\ \A i \in 1..Len(r) : i + 1 \in 2..Len(s) /\ r[i] = s[i + 1]
        /\ \A i \in 2..Len(s) : i - 1 \in 1..Len(r) /\ r[i - 1] = s[i]
    BY <1>1, <2>1, PopShape
  <2> HIDE DEF s, r
  <2>3. /\ 2 \in 2..Len(s)
        /\ \A i \in 2..Len(r) : i \in 1..Len(r)
    BY <1>1, <2>1, <2>2 DEF s
  <2>4. \A i \in 2..Len(s) : i = 2 \/ i - 1 \in 2..Len(r)
    BY <1>1, <2>1, <2>2 DEF s
  <2>5. ASSUME NEW x PROVE x \in Below(t) <=> x \in Below(t)' \cup {Top(t)'}
    <3>1. ASSUME x \in Below(t) PROVE x \in Below(t)' \cup {Top(t)'}
      <4>1. PICK i \in 2..Len(s) : x = s[i]
        BY Zenon, <3>1 DEF Below, s
      <4> QED
        BY Zenon, <2>2, <2>4, <4>1 DEF Below, Top, r
    <3>2. ASSUME x \in Below(t)' PROVE x \in Below(t)
      <4>1. PICK i \in 2..Len(r) : x = r[i]
        BY Zenon, <3>2 DEF Below, r
      <4> QED
        BY Zenon, <2>2, <2>3, <4>1 DEF Below, s
    <3>3. Top(t)' \in Below(t)
      BY Zenon, <2>2, <2>3 DEF Below, Top, r, s
    <3> QED
      BY Zenon, <3>1, <3>2, <3>3
  <2> QED
    BY Zenon, <2>5
<1> QED
  BY Zenon, <1>2, <1>3, <1>4

\* A stack that stays or grows does not shrink.
LEMMA Popless ==
    ASSUME TypeInv, NEW t \in Threads, RequestOf(t)
    PROVE  /\ stack'[t] = stack[t] => ~Pops(t)
           /\ Pushes(t) => ~Pops(t) /\ stack'[t] # stack[t]
           /\ Pops(t) => Tail(stack[t]) # <<>>
<1>1. stack[t] # <<>> /\ stack[t] \in Seq(Names) /\ Len(stack[t]) \in Nat
  BY Zenon, TopType DEF RequestOf
<1>2. Pops(t) => Len(stack'[t]) = Len(stack[t]) - 1
  BY Zenon, <1>1, PopShape DEF Pops
<1>3. Pushes(t) => Len(stack'[t]) = Len(stack[t]) + 1
  <2> SUFFICES ASSUME Pushes(t) PROVE Len(stack'[t]) = Len(stack[t]) + 1
    BY Zenon
  <2>1. PICK a \in Names : a = Ancestor(Top(t))
    BY Zenon DEF Pushes
  <2>2. stack'[t] = <<a>> \o stack[t]
    BY Zenon, <2>1 DEF Pushes
  <2> QED
    BY <1>1, <2>2, PushShape
<1>4. \A k \in Nat : k # k - 1 /\ k # k + 1 /\ k + 1 # k - 1
  OBVIOUS
<1>5. Pops(t) => Tail(stack[t]) # <<>>
  BY Zenon, <1>1, PopShape DEF Pops
<1> QED
  BY Zenon, <1>1, <1>2, <1>3, <1>4, <1>5

\* The other threads load what they loaded.
LEMMA OthersSame ==
    ASSUME NEW t \in Threads, Framed(t), NEW u \in Threads \ {t}, NEW n \in Names
    PROVE  /\ Engaged(u, n)' = Engaged(u, n) /\ Defining(u, n)' = Defining(u, n)
           /\ Pursues(u, n)' = Pursues(u, n) /\ Top(u)' = Top(u) /\ Below(u)' = Below(u)
           /\ pc'[u] = pc[u]
<1>1. /\ pc'[u] = pc[u] /\ stack'[u] = stack[u] /\ scenario' = scenario
  BY Zenon DEF Framed
<1>2. Top(u)' = Top(u) /\ Below(u)' = Below(u) /\ IsArray(n)' = IsArray(n)
  BY Zenon, <1>1 DEF Top, Below, IsArray, Fate
<1> QED
  BY Zenon, <1>1, <1>2 DEF Engaged, Defining, Pursues

\* t does not begin to load or to define n, and gives n up only if it must.
Shrinks(t, n) ==
    /\ Engaged(t, n)' => Engaged(t, n)
    /\ Defining(t, n)' => Defining(t, n)
    /\ Defining(t, n) /\ n \notin Doomed => Defining(t, n)'
    /\ Pursues(t, n) => Pursues(t, n)' \/ Found(n)'

\* The load of an ancestor is over: so it is for the others of the stack.
LEMMA PopShrinks ==
    ASSUME TypeInv, NEW t \in Threads, RequestOf(t), scenario' = scenario, FilesOf(t)', Pops(t),
           NEW n \in Names, n # Top(t) \/ pc[t] \notin PursueLabels
    PROVE  Shrinks(t, n)
<1>1. /\ \A m : IsArray(m)' = IsArray(m)
      /\ Doomed' = Doomed
  BY Zenon, FilesStay
<1>2. Below(t) = Below(t)' \cup {Top(t)'}
  BY Zenon, MovedNames
<1>3. PICK m : m = Top(t)'
  BY Zenon
<1>4. \/ pc'[t] = "fail" /\ m \in Doomed
      \/ pc'[t] \in {"waitdef", "delegated"} /\ IsArray(m)
      \/ pc'[t] = "insert" /\ ~IsArray(m)
  BY Zenon, <1>1, <1>3 DEF Pops, FilesOf, FilesAt, Failing, IsArray, Fate
<1> QED
  BY Zenon, <1>1, <1>2, <1>3, <1>4
     DEF Shrinks, Engaged, Defining, Pursues, PursueLabels, EngagedLabels, DefineLabels, Failing

\* Names other than the one the step is about.
LEMMA ElsewhereShrinks ==
    ASSUME TypeInv, NEW t \in Threads, RequestOf(t), Framed(t), FilesOf(t)',
           NEW n \in Names, n # Top(t)
    PROVE  Shrinks(t, n)
<1>1. /\ \A m : IsArray(m)' = IsArray(m)
      /\ Doomed' = Doomed
  BY Zenon, FilesStay DEF Framed
<1>2. CASE stack'[t] = stack[t]
  BY Zenon, <1>1, <1>2, MovedNames DEF Shrinks, Engaged, Defining, Pursues
<1>3. CASE Pushes(t)
  <2>1. Below(t)' = Below(t) \cup {Top(t)} /\ pc'[t] = "start"
    BY Zenon, <1>3, MovedNames DEF Pushes
  <2> QED
    BY Zenon, <1>1, <2>1
       DEF Shrinks, Engaged, Defining, Pursues, PursueLabels, EngagedLabels, DefineLabels, Failing
<1>4. CASE Pops(t)
  BY Zenon, <1>4, PopShrinks DEF Framed
<1> QED
  BY Zenon, <1>2, <1>3, <1>4 DEF Framed, Moves

\* A step that is not about the entry of n.
Quiet(t, n) ==
    /\ loading'[n] = loading[n]
    /\ n \in loadedClasses' <=> n \in loadedClasses
    /\ Found(n)' => Found(n) \/ Delegated(n)
    /\ Shrinks(t, n)
    /\ n = Top(t) /\ pc[t] = "spin" => ~Listed(t, n) \/ loading[n].signalled

\* A step that is quiet about a name keeps what is known of its entry.
LEMMA QuietEntry ==
    ASSUME NEW t \in Threads, Framed(t), NEW n \in Names, EntryOf(n), Quiet(t, n)
    PROVE  EntryOf(n)'
<1>1. /\ \A m : Delegated(m)' = Delegated(m) /\ IsArray(m)' = IsArray(m)
      /\ Doomed' = Doomed /\ scenario' = scenario
  BY Zenon, FilesStay DEF Framed
<1>2. ASSUME NEW u \in Threads
      PROVE  /\ Engaged(u, n)' => Engaged(u, n)
             /\ Defining(u, n)' => Defining(u, n)
             /\ Defining(u, n) /\ n \notin Doomed => Defining(u, n)'
             /\ Pursues(u, n) => Pursues(u, n)' \/ Found(n)'
             /\ Listed(u, n)' <=> Listed(u, n)
             /\ Initiator(u, n)' <=> Initiator(u, n)
             /\ DefineOwner(u, n)' <=> DefineOwner(u, n)
  BY Zenon, OthersSame DEF Quiet, Shrinks, Listed, Initiator, DefineOwner
<1>3. ASSUME n \notin Doomed, ~Found(n), ~Delegated(n), ~scenario.user,
             NEW u \in Threads, Listed(u, n)
      PROVE  n = Top(u)' /\ pc'[u] = "spin"
  <2>1. ~loading[n].signalled /\ n = Top(u) /\ pc[u] = "spin"
    BY Zenon, <1>3 DEF EntryOf, OpenEntry, Listed
  <2> QED
    BY Zenon, <1>3, <2>1, OthersSame DEF Quiet
<1>4. Found(n) => Found(n)'
  BY Zenon DEF Found, Framed
<1>5. OpenEntry(n)'
  <2> SUFFICES ASSUME n \notin Doomed, ~Found(n), ~Delegated(n)
               PROVE  OpenEntry(n)'
    BY Zenon, <1>1, <1>4 DEF OpenEntry
  <2>1. OpenEntry(n)
    BY Zenon DEF EntryOf
  <2>2. loading'[n] # NoEntry => ~loading'[n].signalled /\ loading'[n].initiator # NoThread
    BY Zenon, <2>1 DEF OpenEntry, Quiet
  <2>3. ASSUME NEW u \in Threads
        PROVE  /\ Defining(u, n)' => DefineOwner(u, n)'
               /\ DefineOwner(u, n)' => Defining(u, n)' /\ Initiator(u, n)'
               /\ Engaged(u, n)' /\ ~scenario.user => Initiator(u, n)'
               /\ Listed(u, n)' /\ ~scenario.user => n = Top(u)' /\ pc'[u] = "spin"
    BY Zenon, <1>2, <1>3, <2>1 DEF OpenEntry
  <2> QED
    BY Zenon, <1>1, <2>2, <2>3 DEF OpenEntry
<1>6. LoadedEntry(n)'
  BY Zenon, <1>1, <1>2 DEF EntryOf, LoadedEntry, Quiet
<1>7. AnyEntry(n)'
  <2> SUFFICES ASSUME NEW u \in Threads
      PROVE  /\ Engaged(u, n)' /\ (n \notin Doomed' \/ scenario'.user) =>
                    Listed(u, n)' \/ Initiator(u, n)'
             /\ Engaged(u, n)' => ~DefineOwner(u, n)'
             /\ Initiator(u, n)' /\ ~Found(n)' => Pursues(u, n)'
             /\ DefineOwner(u, n)' => ~Delegated(n)'
             /\ DefineOwner(u, n)' /\ scenario'.user => loading'[n].initiator \in {NoThread, u}
    BY Zenon DEF AnyEntry
  <2>1. AnyEntry(n) /\ loading'[n] = loading[n]
    BY Zenon DEF EntryOf, Quiet
  <2> QED
    BY Zenon, <1>1, <1>2, <1>4, <2>1 DEF AnyEntry
<1> QED
  BY Zenon, <1>5, <1>6, <1>7 DEF EntryOf

-----------------------------------------------------------------------------
(* What is known of the class files. *)

\* Pushing an ancestor and popping keep a stack a chain of ancestors.
LEMMA ChainMoves ==
    ASSUME TypeInv, NEW t \in Threads, RequestOf(t), FilesOf(t), Framed(t)
    PROVE  ChainOf(t)'
<1> DEFINE s == stack[t]
           r == stack'[t]
<1>1. /\ s # <<>> /\ s \in Seq(Names) /\ Len(s) \in Nat /\ Len(s) >= 1 /\ Top(t) = s[1]
  BY Zenon, TopType DEF RequestOf
<1>2. \A m : Fate(m)' = Fate(m) /\ Ancestor(m)' = Ancestor(m)
  BY Zenon, FilesStay DEF Framed
<1>3. \A i \in 1..(Len(s) - 1) : s[i] = Ancestor(s[i + 1]) /\ Fate(s[i + 1]) \in {"fine", "array"}
  BY Zenon DEF FilesOf, ChainOf
<1>4. SUFFICES \A i \in 1..(Len(r) - 1) :
                   r[i] = Ancestor(r[i + 1]) /\ Fate(r[i + 1]) \in {"fine", "array"}
  BY Zenon, <1>2 DEF ChainOf
<1>5. CASE stack'[t] = stack[t]
  BY Zenon, <1>3, <1>5
<1>6. CASE Pushes(t)
  <2>1. PICK a \in Names : a = Ancestor(Top(t))
    BY Zenon, <1>6 DEF Pushes
  <2>2. r = <<a>> \o s
    BY Zenon, <1>6, <2>1 DEF Pushes
  <2>3. Fate(Top(t)) \in {"fine", "array"}
    BY Zenon, <1>6 DEF Pushes, FilesOf, FilesAt, RequestOf, IsArray
  <2> HIDE DEF s, r
  <2>4. /\ r[1] = a /\ Len(r) = Len(s) + 1 /\ \A i \in 1..Len(s) : r[i + 1] = s[i]
        /\ \A i \in 2..Len(r) : r[i] = s[i - 1]
    BY <1>1, <2>2, PushShape
  <2>5. ASSUME NEW i \in 1..(Len(r) - 1)
        PROVE  r[i] = Ancestor(r[i + 1]) /\ Fate(r[i + 1]) \in {"fine", "array"}
    <3>1. i \in 1..Len(s) /\ r[i + 1] = s[i]
      BY SMT, <1>1, <2>4
    <3>2. CASE i = 1
      BY Zenon, <1>1, <2>1, <2>3, <2>4, <3>1, <3>2
    <3>3. CASE i # 1
      <4>1. i \in 2..Len(r) /\ i - 1 \in 1..(Len(s) - 1) /\ (i - 1) + 1 = i
        BY SMT, <1>1, <2>4, <3>1, <3>3
      <4> QED
        BY Zenon, <1>3, <2>4, <3>1, <4>1
    <3> QED
      BY Zenon, <3>2, <3>3
  <2> QED
    BY Zenon, <2>5
<1>7. CASE Pops(t)
  <2>1. Len(s) > 1 /\ r = Tail(s)
    BY Zenon, <1>7 DEF Pops
  <2> HIDE DEF s, r
  <2>2. Len(r) = Len(s) - 1 /\ \A i \in 1..Len(r) : r[i] = s[i + 1]
    BY <1>1, <2>1, PopShape
  <2>3. ASSUME NEW i \in 1..(Len(r) - 1)
        PROVE  r[i] = Ancestor(r[i + 1]) /\ Fate(r[i + 1]) \in {"fine", "array"}
    <3>1. i \in 1..Len(r) /\ i + 1 \in 1..Len(r) /\ i + 1 \in 1..(Len(s) - 1)
      BY SMT, <1>1, <2>2
    <3> QED
      BY Zenon, <1>3, <2>2, <3>1
  <2> QED
    BY Zenon, <2>3
<1> QED
  BY Zenon, <1>5, <1>6, <1>7 DEF Framed, Moves

\* The load below is that of a class whose ancestor is the one on top.
LEMMA PoppedFile ==
    ASSUME TypeInv, NEW t \in Threads, RequestOf(t), FilesOf(t), Pops(t)
    PROVE  /\ Top(t)' \in Names /\ Top(t) = Ancestor(Top(t)')
           /\ Fate(Top(t)') \in {"fine", "array"}
           /\ Top(t) \in Doomed => Top(t)' \in Doomed
<1>1. stack[t] # <<>> /\ stack[t] \in Seq(Names) /\ Len(stack[t]) \in Nat /\ Top(t) = stack[t][1]
  BY Zenon, TopType DEF RequestOf
<1>2. Top(t)' = stack[t][2] /\ stack[t][2] \in Names
  BY <1>1, PopShape DEF Pops, Top
<1>3. 1 \in 1..(Len(stack[t]) - 1) /\ 1 + 1 = 2
  BY SMT, <1>1 DEF Pops
<1>4. stack[t][1] = Ancestor(stack[t][2]) /\ Fate(stack[t][2]) \in {"fine", "array"}
  BY Zenon, <1>3 DEF FilesOf, ChainOf
<1>5. PICK m \in Names : m = Top(t)'
  BY Zenon, <1>2
<1>6. Top(t) = Ancestor(m) /\ Fate(m) \in {"fine", "array"}
  BY Zenon, <1>1, <1>2, <1>4, <1>5
<1> QED
  BY Zenon, <1>5, <1>6, DoomedAncestor

-----------------------------------------------------------------------------
(* The second invariant, and what follows from it where a thread is. *)

Steady == RequestInv /\ Unforced /\ LoadInv

\* What the first two invariants say of a thread and its innermost name.
LEMMA SteadyFacts ==
    ASSUME Steady, NEW t \in Threads
    PROVE  /\ TypeInv /\ TablesInv /\ RequestOf(t) /\ stack[t] # <<>> /\ Top(t) \in Names
           /\ FilesOf(t) /\ AloneOf(t) /\ EntryOf(Top(t)) /\ ListOf(Top(t))
           /\ loading[Top(t)] \in Entries \cup {NoEntry}
           /\ ~Direct(t) /\ (InJava(t) <=> scenario.user /\ ~IsArray(Top(t)))
<1>1. /\ TypeInv /\ TablesInv /\ RequestOf(t) /\ stack[t] # <<>> /\ Top(t) \in Names
      /\ ListOf(Top(t)) /\ loading[Top(t)] \in Entries \cup {NoEntry}
  BY Zenon, Basics DEF Steady
<1>2. ~Direct(t)
  BY Zenon DEF Steady, Unforced, Direct
<1> QED
  BY Zenon, <1>1, <1>2 DEF Steady, LoadInv, InJava

\* A class that another loader has defined can be loaded.
LEMMA ForeignFine ==
    ASSUME TypeInv, NEW n \in Names, Foreign(n)
    PROVE  n \notin Doomed
<1>1. ASSUME NEW m \in Names, Fate(m) = "delegated" PROVE m \notin Doomed
  <2>1. Fate(m) \notin {"missing", "malformed"} /\ Fate(m) \notin {"fine", "array"}
    BY <1>1
  <2> QED
    BY Zenon, <2>1, DoomedCases, FileTypes
<1>2. CASE Fate(n) = "delegated"
  BY Zenon, <1>1, <1>2
<1>3. CASE IsArray(n) /\ Fate(Ancestor(n)) = "delegated"
  <2>1. Ancestor(n) \in Names
    BY Zenon, <1>3, FileTypes
  <2>2. Ancestor(n) \notin Doomed
    BY Zenon, <1>1, <1>3, <2>1
  <2>3. Fate(n) \notin {"missing", "malformed"} /\ ~Refused(n)
    BY <1>3 DEF IsArray, Foreign
  <2> QED
    BY Zenon, <2>2, <2>3, DoomedCases
<1> QED
  BY Zenon, <1>2, <1>3 DEF Foreign, Delegated

\* A class that is in the tables can be loaded.
LEMMA FoundFine ==
    ASSUME Steady, NEW n \in Names, Found(n)
    PROVE  n \notin Doomed /\ (n \in loadedClasses \/ Foreign(n))
<1>1. n \in loadedClasses \/ Foreign(n)
  BY Zenon DEF Steady, RequestInv, TablesInv, Found
<1>2. ASSUME n \in loadedClasses PROVE n \notin Doomed
  BY Zenon, <1>2 DEF Steady, LoadInv, EntryOf, LoadedEntry
<1>3. ASSUME Foreign(n) PROVE n \notin Doomed
  BY Zenon, <1>3, ForeignFine DEF Steady, RequestInv
<1> QED
  BY Zenon, <1>1, <1>2, <1>3

\* So can one whose ancestors are, if its own file is fine.
LEMMA AncestorFine ==
    ASSUME Steady, NEW n \in Names, Fate(n) \in {"fine", "array"}, ~Refused(n),
           Ancestor(n) \in initiatedClasses \cup {NoName}
    PROVE  n \notin Doomed
<1>1. SUFFICES ASSUME n \in Doomed PROVE FALSE
  BY Zenon
<1>2. Ancestor(n) \in Doomed /\ Ancestor(n) \in Names
  BY Zenon, <1>1, DoomedCases
<1>3. PICK a \in Names : a = Ancestor(n)
  BY Zenon, <1>2
<1>4. Found(a)
  BY Zenon, <1>2, <1>3, NothingAssumption DEF Found
<1> QED
  BY Zenon, <1>2, <1>3, <1>4, FoundFine

\* A thread that finds itself in the entry loads a class that is its own ancestor.
LEMMA RecursDoomed ==
    ASSUME Steady, NEW t \in Threads, pc[t] = "start", Recurs(t, Top(t))
    PROVE  Top(t) \in Doomed
<1>1. PICK n \in Names : n = Top(t)
  BY Zenon, SteadyFacts
<1>2. TypeInv /\ stack[t] # <<>> /\ FilesOf(t) /\ EntryOf(n)
  BY Zenon, <1>1, SteadyFacts
<1>3. ~Found(n) /\ (Initiator(t, n) \/ DefineOwner(t, n))
  BY Zenon, <1>1 DEF Recurs, Collides, Initiator, DefineOwner
<1>4. ASSUME n \in Below(t) PROVE n \in Doomed
  BY Zenon, <1>1, <1>2, <1>4, Twice
<1>5. CASE Initiator(t, n)
  <2>1. Pursues(t, n)
    BY Zenon, <1>2, <1>3, <1>5 DEF EntryOf, AnyEntry
  <2> QED
    BY Zenon, <1>1, <1>4, <2>1
       DEF Pursues, PursueLabels, EngagedLabels, DefineLabels, Failing
<1>6. CASE DefineOwner(t, n)
  <2>1. n \in Doomed \/ Defining(t, n)
    BY Zenon, <1>2, <1>3, <1>6 DEF EntryOf, AnyEntry, OpenEntry
  <2> QED
    BY Zenon, <1>1, <1>4, <2>1 DEF Defining, DefineLabels
<1> QED
  BY Zenon, <1>1, <1>3, <1>5, <1>6

\* The bootstrap loader lets a thread try again only what cannot be loaded.
LEMMA RetriesDoomed ==
    ASSUME Steady, NEW t \in Threads, pc[t] = "start", Retries(t, Top(t)), ~scenario.user
    PROVE  Top(t) \in Doomed
<1>1. PICK n \in Names : n = Top(t)
  BY Zenon, SteadyFacts
<1>2. TypeInv /\ EntryOf(n)
  BY Zenon, <1>1, SteadyFacts
<1>3. ~Found(n) /\ Listed(t, n)
  BY Zenon, <1>1 DEF Retries, Collides, Listed, AlreadyWaiting
<1>4. ~Delegated(n)
  BY Zenon, <1>2, FileTypes
<1> QED
  BY Zenon, <1>1, <1>2, <1>3, <1>4 DEF EntryOf, OpenEntry

\* Where a thread is about to define a class.
LEMMA WaitingFile ==
    ASSUME Steady, NEW t \in Threads, pc[t] \in {"waitdef", "wdspin", "heldspin", "new"}
    PROVE  /\ Fate(Top(t)) \in {"fine", "malformed", "array"}
           /\ Found(Top(t)) => Top(t) \in loadedClasses
           /\ ~Delegated(Top(t))
           /\ Top(t) \in Doomed /\ IsArray(Top(t)) => Refused(Top(t))
<1>1. /\ Fate(Top(t)) \in {"fine", "malformed", "array"} /\ Top(t) \in Names
      /\ ~Delegated(Top(t))
  BY Zenon, SteadyFacts DEF FilesOf, FilesAt
<1>2. Found(Top(t)) => Top(t) \in loadedClasses
  BY Zenon, <1>1, FoundFine DEF Foreign
<1>3. ASSUME IsArray(Top(t)), ~Refused(Top(t)) PROVE Top(t) \notin Doomed
  <2>1. Ancestor(Top(t)) \in initiatedClasses /\ Fate(Top(t)) = "array"
    BY Zenon, <1>3, SteadyFacts DEF FilesOf, FilesAt, IsArray
  <2>2. PICK n \in Names : n = Top(t)
    BY Zenon, <1>1
  <2> QED
    BY Zenon, <1>3, <2>1, <2>2, AncestorFine
<1> QED
  BY Zenon, <1>1, <1>2, <1>3

\* WaitDefinition calls StartLoadingClass only for a class that is loaded meanwhile, or that
\* cannot be; in the former case the thread is in the list.
LEMMA UnderLockFile ==
    ASSUME Steady, NEW t \in Threads,
           \/ pc[t] = "waitdef" /\ (Top(t) \in loadedClasses \/ loading[Top(t)] = NoEntry)
           \/ pc[t] = "wdspin" /\ (loading[Top(t)] # NoEntry => loading[Top(t)].signalled)
    PROVE  /\ Found(Top(t)) => Listed(t, Top(t)) /\ scenario.user /\ Top(t) \notin Doomed
           /\ ~Found(Top(t)) => Top(t) \in Doomed
<1>1. PICK n \in Names : n = Top(t)
  BY Zenon, SteadyFacts
<1>2. EntryOf(n) /\ Engaged(t, n)
  BY Zenon, <1>1, SteadyFacts DEF Engaged, EngagedLabels
<1>3. ~Delegated(n) /\ (Found(n) => n \in loadedClasses)
  BY Zenon, <1>1, WaitingFile
<1>4. ASSUME Found(n) PROVE Listed(t, n) /\ scenario.user /\ n \notin Doomed
  BY Zenon, <1>2, <1>3, <1>4 DEF EntryOf, LoadedEntry
<1>5. ASSUME ~Found(n), n \notin Doomed PROVE FALSE
  <2>1. loading[n] # NoEntry
    BY Zenon, <1>2, <1>5 DEF EntryOf, AnyEntry, Listed, Initiator
  <2>2. ~loading[n].signalled
    BY Zenon, <1>2, <1>3, <1>5, <2>1 DEF EntryOf, OpenEntry
  <2> QED
    BY Zenon, <1>1, <1>5, <2>1, <2>2 DEF Found
<1> QED
  BY Zenon, <1>1, <1>4, <1>5

-----------------------------------------------------------------------------
(* The entry of the name a step is about. *)

\* SuccessLoadingClass and FailedLoadingClass: the entry has no initiator any more, and who
\* else was in it is in its list.
LEMMA SignalledEntry ==
    ASSUME Steady, NEW t \in Threads, Framed(t), tables' = tables, NEW n \in Names, n = Top(t),
           loading'[n] = Signalled(loading[n], t),
           n \in Doomed \/ Found(n) \/ Delegated(n),
           Defining(t, n)' => Defining(t, n),
           ~Engaged(t, n)'
    PROVE  EntryOf(n)'
<1> DEFINE e == loading[n]
           x == loading'[n]
<1>1. /\ \A m : Delegated(m)' = Delegated(m) /\ IsArray(m)' = IsArray(m)
      /\ Doomed' = Doomed /\ scenario' = scenario /\ Found(n)' = Found(n)
      /\ loadedClasses' = loadedClasses
  BY Zenon, FilesStay DEF Framed, tables, Found
<1>2. EntryOf(n) /\ ListOf(n) /\ e \in Entries \cup {NoEntry} /\ TypeInv
  BY Zenon, SteadyFacts
<1>3. /\ x # NoEntry => e # NoEntry /\ x.initiator = NoThread /\ x.definer = e.definer
      /\ \A u \in Threads \ {t} : Listed(u, n) \/ Initiator(u, n) => Listed(u, n)'
  <2>1. CASE e = NoEntry
    <3>1. x = NoEntry
      BY Zenon, <2>1 DEF Signalled
    <3> QED
      BY Zenon, <2>1, <3>1 DEF Listed, Initiator
  <2>2. CASE e # NoEntry
    <3>1. e \in Entries /\ e.initiator \notin e.waiting
      BY Zenon, <1>2, <2>2 DEF ListOf
    <3> HIDE DEF e, x
    <3>2. /\ \A u \in Threads \ {t} : u \in e.waiting \cup {e.initiator} =>
                  x # NoEntry /\ u \in x.waiting
          /\ x # NoEntry => x.initiator = NoThread /\ x.definer = e.definer
      <4>1. x = Signalled(e, t)
        BY Zenon DEF e, x
      <4> QED
        BY Zenon, <3>1, <4>1, SignalledShape
    <3> QED
      BY Zenon, <2>2, <3>2 DEF Listed, Initiator, e, x
  <2> QED
    BY Zenon, <2>1, <2>2
<1> HIDE DEF e, x
<1>4. ASSUME NEW u \in Threads
      PROVE  /\ Engaged(u, n)' => Engaged(u, n) /\ u # t
             /\ Defining(u, n)' => Defining(u, n)
             /\ ~Initiator(u, n)' /\ (DefineOwner(u, n)' => DefineOwner(u, n))
             /\ DefineOwner(u, n)' => loading'[n].initiator = NoThread
  BY Zenon, <1>3, OthersSame, NothingAssumption DEF Initiator, DefineOwner, e, x
<1>5. OpenEntry(n)'
  BY Zenon, <1>1 DEF OpenEntry
<1>6. LoadedEntry(n)'
  <2> SUFFICES ASSUME n \in loadedClasses PROVE LoadedEntry(n)'
    BY Zenon, <1>1 DEF LoadedEntry
  <2>1. n \notin Doomed /\ LoadedEntry(n)
    BY Zenon, <1>2 DEF EntryOf, LoadedEntry
  <2>2. ASSUME NEW u \in Threads
        PROVE  ~Defining(u, n)' /\ (Engaged(u, n)' => scenario'.user /\ Listed(u, n)')
    BY Zenon, <1>1, <1>3, <1>4, <2>1 DEF LoadedEntry
  <2> QED
    BY Zenon, <1>1, <2>1, <2>2 DEF LoadedEntry
<1>7. AnyEntry(n)'
  <2> SUFFICES ASSUME NEW u \in Threads
      PROVE  /\ Engaged(u, n)' /\ (n \notin Doomed' \/ scenario'.user) =>
                    Listed(u, n)' \/ Initiator(u, n)'
             /\ Engaged(u, n)' => ~DefineOwner(u, n)'
             /\ Initiator(u, n)' /\ ~Found(n)' => Pursues(u, n)'
             /\ DefineOwner(u, n)' => ~Delegated(n)'
             /\ DefineOwner(u, n)' /\ scenario'.user => loading'[n].initiator \in {NoThread, u}
    BY Zenon DEF AnyEntry
  <2>1. AnyEntry(n)
    BY Zenon, <1>2 DEF EntryOf
  <2> QED
    BY Zenon, <1>1, <1>3, <1>4, <2>1 DEF AnyEntry
<1> QED
  BY Zenon, <1>5, <1>6, <1>7 DEF EntryOf

\* StartLoadingClass puts the thread in the list of the entry.
LEMMA JoinedEntry ==
    ASSUME Steady, NEW t \in Threads, Framed(t), tables' = tables, NEW n \in Names, n = Top(t),
           ~Found(n), loading[n] # NoEntry, loading'[n] # NoEntry,
           loading'[n].waiting = loading[n].waiting \cup {t},
           loading'[n].initiator = loading[n].initiator,
           loading'[n].definer = loading[n].definer,
           loading'[n].signalled = loading[n].signalled,
           ~Initiator(t, n), ~DefineOwner(t, n),
           Defining(t, n)' => Defining(t, n),
           \/ n \in Doomed \/ scenario.user
           \/ pc'[t] = "spin" /\ Top(t)' = n /\ (Engaged(t, n)' => Engaged(t, n))
    PROVE  EntryOf(n)'
<1>1. /\ \A m : Delegated(m)' = Delegated(m) /\ IsArray(m)' = IsArray(m)
      /\ Doomed' = Doomed /\ scenario' = scenario /\ Found(n)' = Found(n)
      /\ n \notin loadedClasses'
  BY Zenon, FilesStay DEF Framed, tables, Found
<1>2. EntryOf(n)
  BY Zenon, SteadyFacts
<1>3. ASSUME NEW u \in Threads
      PROVE  /\ Listed(u, n)' <=> Listed(u, n) \/ u = t
             /\ Initiator(u, n)' <=> Initiator(u, n)
             /\ DefineOwner(u, n)' <=> DefineOwner(u, n)
             /\ u # t => /\ Engaged(u, n)' = Engaged(u, n) /\ Defining(u, n)' = Defining(u, n)
                         /\ Pursues(u, n)' = Pursues(u, n) /\ Top(u)' = Top(u) /\ pc'[u] = pc[u]
  BY ZenonT(60), OthersSame DEF Listed, Initiator, DefineOwner
<1>4. OpenEntry(n)'
  <2> SUFFICES ASSUME n \notin Doomed, ~Delegated(n) PROVE OpenEntry(n)'
    BY Zenon, <1>1 DEF OpenEntry
  <2>1. OpenEntry(n)
    BY Zenon, <1>2 DEF EntryOf
  <2>2. ~loading'[n].signalled /\ loading'[n].initiator # NoThread
    BY Zenon, <2>1 DEF OpenEntry
  <2>3. ASSUME NEW u \in Threads
        PROVE  /\ Defining(u, n)' => DefineOwner(u, n)'
               /\ DefineOwner(u, n)' => Defining(u, n)' /\ Initiator(u, n)'
               /\ Engaged(u, n)' /\ ~scenario.user => Initiator(u, n)'
               /\ Listed(u, n)' /\ ~scenario.user => n = Top(u)' /\ pc'[u] = "spin"
    BY Zenon, <1>3, <2>1 DEF OpenEntry
  <2> QED
    BY Zenon, <1>1, <2>2, <2>3 DEF OpenEntry
<1>5. LoadedEntry(n)'
  BY Zenon, <1>1 DEF LoadedEntry
<1>6. AnyEntry(n)'
  BY Zenon, <1>1, <1>2, <1>3 DEF EntryOf, AnyEntry
<1> QED
  BY Zenon, <1>4, <1>5, <1>6 DEF EntryOf

\* The first thread to ask for a name makes an entry for it.
LEMMA MadeEntry ==
    ASSUME Steady, NEW t \in Threads, Framed(t), tables' = tables, NEW n \in Names, n = Top(t),
           ~Found(n), loading[n] = NoEntry, loading'[n] = NewEntry(t),
           Top(t)' = n, pc'[t] \in EngagedLabels, Defining(t, n)' => Defining(t, n)
    PROVE  EntryOf(n)'
<1>1. /\ \A m : Delegated(m)' = Delegated(m) /\ IsArray(m)' = IsArray(m)
      /\ Doomed' = Doomed /\ scenario' = scenario /\ Found(n)' = Found(n)
      /\ n \notin loadedClasses'
  BY Zenon, FilesStay DEF Framed, tables, Found
<1>2. EntryOf(n)
  BY Zenon, SteadyFacts
<1>3. /\ loading'[n] # NoEntry /\ loading'[n].initiator = t /\ loading'[n].definer = NoThread
      /\ loading'[n].waiting = {} /\ ~loading'[n].signalled
  BY Zenon, NewPasses, NothingAssumption
<1>4. ASSUME NEW u \in Threads
      PROVE  /\ ~Listed(u, n)' /\ (Initiator(u, n)' <=> u = t) /\ ~DefineOwner(u, n)'
             /\ ~Listed(u, n) /\ ~Initiator(u, n) /\ ~DefineOwner(u, n)
             /\ u # t => Engaged(u, n)' = Engaged(u, n)
             /\ Defining(u, n)' => Defining(u, n)
  BY ZenonT(60), <1>3, OthersSame, NothingAssumption DEF Listed, Initiator, DefineOwner
<1>5. OpenEntry(n)'
  BY Zenon, <1>1, <1>2, <1>3, <1>4, NothingAssumption DEF EntryOf, OpenEntry
<1>6. LoadedEntry(n)'
  BY Zenon, <1>1 DEF LoadedEntry
<1>7. Pursues(t, n)'
  BY Zenon DEF Pursues, PursueLabels
<1>8. AnyEntry(n)'
  BY Zenon, <1>1, <1>2, <1>4, <1>7 DEF EntryOf, AnyEntry
<1> QED
  BY Zenon, <1>5, <1>6, <1>8 DEF EntryOf

\* WaitDefinition finds an entry without a definer: the thread is the definer, and the
\* initiator if there was one.
LEMMA DefinerEntry ==
    ASSUME Steady, NEW t \in Threads, Framed(t), tables' = tables, NEW n \in Names, n = Top(t),
           pc[t] = "waitdef", n \notin loadedClasses, loading[n] # NoEntry,
           loading[n].definer = NoThread,
           loading'[n] = ChangeDefinerAndInitiator(loading[n], t),
           stack'[t] = stack[t], pc'[t] = "new"
    PROVE  EntryOf(n)'
<1> DEFINE e == loading[n]
           x == loading'[n]
<1>1. /\ \A m : Delegated(m)' = Delegated(m) /\ IsArray(m)' = IsArray(m)
      /\ Doomed' = Doomed /\ scenario' = scenario /\ Found(n)' = Found(n)
      /\ n \notin loadedClasses'
  BY Zenon, FilesStay DEF Framed, tables, Found
<1>2. /\ EntryOf(n) /\ ListOf(n) /\ e \in Entries \cup {NoEntry} /\ TypeInv /\ RequestOf(t)
      /\ FilesOf(t) /\ stack[t] # <<>>
  BY Zenon, SteadyFacts
<1>3. ~Delegated(n) /\ ~Found(n)
  BY Zenon, WaitingFile
<1>4. /\ x # NoEntry /\ x.definer = t /\ x.signalled = e.signalled
      /\ x.initiator = (IF e.initiator = NoThread THEN NoThread ELSE t)
      /\ t \notin x.waiting
      /\ \A u \in Threads \ {t} : u \in e.waiting \cup {e.initiator} <=> u \in x.waiting
  <2>1. e \in Entries /\ e.initiator \notin e.waiting
    BY Zenon, <1>2 DEF ListOf
  <2> HIDE DEF e
  <2>2. LET y == ChangeDefinerAndInitiator(e, t) IN
        /\ y \in Entries /\ y.definer = t /\ y.signalled = e.signalled
        /\ y.initiator = IF e.initiator = NoThread THEN NoThread ELSE t
        /\ y.initiator \notin y.waiting
        /\ t \notin y.waiting
        /\ \A u \in Threads \ {t} : u \in e.waiting \cup {e.initiator} <=> u \in y.waiting
    BY Zenon, <2>1, ChangeShape
  <2>3. x = ChangeDefinerAndInitiator(e, t)
    BY Zenon DEF e
  <2> HIDE DEF x
  <2>4. x # NoEntry
    BY Zenon, <2>2, <2>3, NothingAssumption
  <2> QED
    BY Zenon, <2>2, <2>3, <2>4
<1>5. Top(t)' = n /\ Below(t)' = Below(t)
  BY Zenon, <1>2, MovedNames
<1>6. Engaged(t, n) /\ ~Engaged(t, n)' /\ Defining(t, n)' /\ Pursues(t, n)'
  <2>1. ~(n \in Below(t) /\ IsArray(n))
    BY Zenon, <1>2, ArrayAlone
  <2> QED
    BY Zenon, <1>1, <1>5, <2>1
       DEF Engaged, Defining, Pursues, PursueLabels, EngagedLabels, DefineLabels
<1> HIDE DEF e, x
<1>7. ASSUME NEW u \in Threads
      PROVE  /\ Listed(u, n)' <=> u # t /\ (Listed(u, n) \/ Initiator(u, n))
             /\ DefineOwner(u, n)' <=> u = t
             /\ Initiator(u, n)' => u = t
             /\ ~DefineOwner(u, n)
             /\ u # t => /\ Engaged(u, n)' = Engaged(u, n) /\ Defining(u, n)' = Defining(u, n)
                         /\ Top(u)' = Top(u) /\ pc'[u] = pc[u]
  <2>1. /\ Listed(u, n)' <=> u # t /\ (Listed(u, n) \/ Initiator(u, n))
        /\ DefineOwner(u, n)' <=> u = t
    <3>1. u \in x.waiting <=> u # t /\ (u \in e.waiting \/ u = e.initiator)
      BY Zenon, <1>4
    <3> QED
      BY Zenon, <1>4, <3>1 DEF Listed, Initiator, DefineOwner, e, x
  <2>2. Initiator(u, n)' => u = t
    BY Zenon, <1>4, NothingAssumption DEF Initiator, x
  <2>3. ~DefineOwner(u, n)
    BY Zenon, NothingAssumption DEF DefineOwner
  <2> QED
    BY Zenon, <2>1, <2>2, <2>3, OthersSame
<1>8. OpenEntry(n)'
  <2> SUFFICES ASSUME n \notin Doomed PROVE OpenEntry(n)'
    BY Zenon, <1>1 DEF OpenEntry
  <2>1. OpenEntry(n) /\ e.initiator # NoThread /\ ~e.signalled
    BY Zenon, <1>2, <1>3 DEF EntryOf, OpenEntry, e
  <2>2. ~x.signalled /\ x.initiator = t
    BY Zenon, <1>4, <2>1
  <2>3. ~scenario.user => Initiator(t, n)
    BY Zenon, <1>3, <1>6, <2>1 DEF OpenEntry
  <2>4. \A u \in Threads : Initiator(u, n) /\ Initiator(t, n) => u = t
    BY Zenon DEF Initiator
  <2>5. ASSUME NEW u \in Threads
        PROVE  /\ Defining(u, n)' => DefineOwner(u, n)'
               /\ DefineOwner(u, n)' => Defining(u, n)' /\ Initiator(u, n)'
               /\ Engaged(u, n)' /\ ~scenario.user => Initiator(u, n)'
               /\ Listed(u, n)' /\ ~scenario.user => n = Top(u)' /\ pc'[u] = "spin"
    <3>1. Initiator(t, n)'
      BY Zenon, <1>4, <2>2 DEF Initiator, x
    <3> QED
      BY Zenon, <1>3, <1>6, <1>7, <2>1, <2>3, <2>4, <3>1 DEF OpenEntry
  <2> QED
    BY Zenon, <1>1, <2>2, <2>5, NothingAssumption DEF OpenEntry, x
<1>9. LoadedEntry(n)'
  BY Zenon, <1>1 DEF LoadedEntry
<1>10. AnyEntry(n)'
  <2>1. x.initiator \in {NoThread, t}
    BY Zenon, <1>4
  <2>2. AnyEntry(n)
    BY Zenon, <1>2 DEF EntryOf
  <2> QED
    BY Zenon, <1>1, <1>3, <1>6, <1>7, <2>1, <2>2 DEF AnyEntry, x
<1> QED
  BY Zenon, <1>8, <1>9, <1>10 DEF EntryOf

\* The same for a class that cannot be loaded, after StartLoadingClass.
LEMMA DoomedEntry ==
    ASSUME Steady, NEW t \in Threads, Framed(t), tables' = tables, NEW n \in Names, n = Top(t),
           n \in Doomed, ~Delegated(n), NEW e, NEW raised \in BOOLEAN,
           Becomes(t, e, raised), Passes(loading[n], e, t),
           \A u \in Threads \ {t} : scenario.user /\ Initiator(u, n) =>
               e # NoEntry /\ u \in e.waiting \cup {e.initiator},
           raised /\ e # NoEntry => e.initiator = NoThread
    PROVE  EntryOf(n)'
<1> DEFINE x == loading'[n]
<1>1. /\ \A m : Delegated(m)' = Delegated(m) /\ IsArray(m)' = IsArray(m)
      /\ Doomed' = Doomed /\ scenario' = scenario /\ Found(n)' = Found(n)
      /\ loadedClasses' = loadedClasses
  BY Zenon, FilesStay DEF Framed, tables, Found
<1>2. EntryOf(n) /\ TypeInv /\ RequestOf(t) /\ FilesOf(t) /\ stack[t] # <<>>
  BY Zenon, SteadyFacts
<1>3. OpenEntry(n)' /\ LoadedEntry(n)'
  BY Zenon, <1>1, <1>2 DEF EntryOf, OpenEntry, LoadedEntry
<1>4. pc'[t] \in {"new", "throw", "done", "fail", "crash"}
  BY Zenon DEF Becomes
<1>5. ~Engaged(t, n)'
  <2>1. IsArray(n) => Below(t) = {}
    BY Zenon, <1>2, ArrayAlone
  <2>2. \A m : m \in Below(t)' => m \in Below(t)
    BY Zenon, <1>2, MovedNames DEF Becomes
  <2>3. \A m : m \notin {}
    OBVIOUS
  <2> QED
    BY Zenon, <1>1, <1>4, <2>1, <2>2, <2>3 DEF Engaged, EngagedLabels
<1>6. CASE e = NoEntry
  <2>1. x = NoEntry
    BY Zenon, <1>6 DEF Becomes
  <2>2. \A u \in Threads \ {t} : ~Listed(u, n) /\ ~(scenario.user /\ Initiator(u, n))
    BY Zenon, <1>6 DEF Passes, Listed
  <2>3. \A u \in Threads : ~DefineOwner(u, n)' /\ ~Initiator(u, n)'
    BY Zenon, <2>1 DEF DefineOwner, Initiator
  <2>4. \A u \in Threads \ {t} : Engaged(u, n)' = Engaged(u, n)
    BY Zenon, OthersSame
  <2>5. AnyEntry(n)'
    BY Zenon, <1>1, <1>2, <1>5, <2>2, <2>3, <2>4 DEF EntryOf, AnyEntry
  <2> QED
    BY Zenon, <1>3, <2>5 DEF EntryOf
<1>7. CASE e # NoEntry
  <2>1. e \in Entries /\ e.initiator \notin e.waiting /\ x = ChangeDefinerAndInitiator(e, t)
    BY Zenon, <1>7 DEF Becomes
  <2>2. /\ x # NoEntry /\ x.definer = t
        /\ x.initiator = (IF e.initiator = NoThread THEN NoThread ELSE t)
        /\ \A u \in Threads \ {t} : u \in e.waiting \cup {e.initiator} <=> u \in x.waiting
    <3>1. LET y == ChangeDefinerAndInitiator(e, t) IN
          /\ y \in Entries /\ y.definer = t
          /\ y.initiator = (IF e.initiator = NoThread THEN NoThread ELSE t)
          /\ \A u \in Threads \ {t} : u \in e.waiting \cup {e.initiator} <=> u \in y.waiting
      BY ZenonT(60), <2>1, ChangeShape
    <3> HIDE DEF x
    <3> QED
      BY Zenon, <2>1, <3>1, NothingAssumption
  <2> HIDE DEF x
  <2>3. \A u \in Threads \ {t} :
            Listed(u, n) \/ (scenario.user /\ Initiator(u, n)) => Listed(u, n)'
    BY Zenon, <1>7, <2>2 DEF Passes, Listed, x
  <2>4. \A u \in Threads : /\ DefineOwner(u, n)' => u = t
                           /\ Initiator(u, n)' => u = t /\ e.initiator # NoThread
    BY Zenon, <2>2, NothingAssumption DEF DefineOwner, Initiator, x
  <2>5. Initiator(t, n)' => Pursues(t, n)'
    <3>1. SUFFICES ASSUME e.initiator # NoThread PROVE Pursues(t, n)'
      BY Zenon, <2>4
    <3>2. pc'[t] = "new" /\ stack'[t] = stack[t]
      BY Zenon, <1>7, <3>1 DEF Becomes
    <3>3. Top(t)' = n
      BY Zenon, <3>2 DEF Top
    <3> QED
      BY Zenon, <3>2, <3>3 DEF Pursues, PursueLabels, DefineLabels
  <2>6. \A u \in Threads \ {t} : Engaged(u, n)' = Engaged(u, n)
    BY Zenon, OthersSame
  <2>7. x.initiator \in {NoThread, t}
    BY Zenon, <2>2
  <2>8. AnyEntry(n)'
    BY Zenon, <1>1, <1>2, <1>5, <2>3, <2>4, <2>5, <2>6, <2>7 DEF EntryOf, AnyEntry, x
  <2> QED
    BY Zenon, <1>3, <2>8 DEF EntryOf
<1> QED
  BY Zenon, <1>6, <1>7

\* WaitDefinition finds the class: the thread leaves the list.
LEMMA ReleasedEntry ==
    ASSUME Steady, NEW t \in Threads, Framed(t), tables' = tables, NEW n \in Names, n = Top(t),
           n \in loadedClasses, Listed(t, n),
           loading'[n] = Kept(RemoveWaitingThread(loading[n], t)),
           stack'[t] = stack[t], pc'[t] \in {"leave", "record"}
    PROVE  EntryOf(n)'
<1> DEFINE e == loading[n]
           x == loading'[n]
<1>1. /\ \A m : Delegated(m)' = Delegated(m) /\ IsArray(m)' = IsArray(m)
      /\ Doomed' = Doomed /\ scenario' = scenario /\ Found(n) /\ Found(n)'
  BY Zenon, FilesStay DEF Framed, tables, Found
<1>2. /\ EntryOf(n) /\ ListOf(n) /\ e \in Entries \cup {NoEntry} /\ TypeInv /\ RequestOf(t)
      /\ FilesOf(t) /\ stack[t] # <<>>
  BY Zenon, SteadyFacts
<1>3. n \notin Doomed /\ LoadedEntry(n) /\ AnyEntry(n)
  BY Zenon, <1>2 DEF EntryOf, LoadedEntry
<1>4. Top(t)' = n /\ Below(t)' = Below(t) /\ n \notin Below(t)
  BY Zenon, <1>2, <1>3, MovedNames, Twice
<1>5. ~Engaged(t, n)' /\ ~Defining(t, n)'
  BY Zenon, <1>4 DEF Engaged, Defining, EngagedLabels, DefineLabels
<1>6. x # NoEntry => x.initiator = e.initiator /\ x.definer = e.definer
  <2>1. e \in Entries /\ e.initiator \notin e.waiting /\ e # NoEntry
    BY Zenon, <1>2 DEF ListOf, Listed
  <2> DEFINE y == RemoveWaitingThread(e, t)
  <2>2. x = Kept(y)
    BY Zenon
  <2>3. y.initiator = e.initiator /\ y.definer = e.definer
    <3> HIDE DEF e
    <3> QED
      BY Zenon, <2>1, RemovePasses
  <2> HIDE DEF x, y, e
  <2> QED
    BY Zenon, <2>2, <2>3 DEF Kept
<1> HIDE DEF e, x
<1>7. ASSUME NEW u \in Threads
      PROVE  /\ Engaged(u, n)' => u # t /\ Engaged(u, n) /\ Listed(u, n)' /\ scenario.user
             /\ ~Defining(u, n)'
             /\ DefineOwner(u, n)' => DefineOwner(u, n) /\ x.initiator = e.initiator
  <2>1. CASE u = t
    BY Zenon, <1>5, <1>6, <2>1 DEF DefineOwner, e, x, Listed
  <2>2. CASE u # t
    <3>1. Listed(u, n) => Listed(u, n)'
      BY Zenon, <1>2, <2>2, ListedStays
    <3>2. Engaged(u, n)' = Engaged(u, n) /\ Defining(u, n)' = Defining(u, n)
      BY Zenon, <2>2, OthersSame
    <3>3. DefineOwner(u, n)' => DefineOwner(u, n) /\ x.initiator = e.initiator
      BY Zenon, <1>6 DEF DefineOwner, e, x, Listed
    <3> QED
      BY Zenon, <1>3, <2>2, <3>1, <3>2, <3>3 DEF LoadedEntry
  <2> QED
    BY Zenon, <2>1, <2>2
<1>8. OpenEntry(n)' /\ LoadedEntry(n)'
  BY Zenon, <1>1, <1>3, <1>7 DEF OpenEntry, LoadedEntry
<1>9. AnyEntry(n)'
  BY Zenon, <1>1, <1>3, <1>7 DEF AnyEntry, e, x
<1> QED
  BY Zenon, <1>8, <1>9 DEF EntryOf

\* InsertClass: the definer is alone, and the others that load the class are in the list.
LEMMA Inserting ==
    ASSUME Steady, NEW t \in Threads, pc[t] = "insert", NEW n \in Names, n = Top(t),
           ~Refused(n)
    PROVE  /\ ~Found(n) /\ n \notin Doomed /\ ~Delegated(n) /\ n \notin Below(t)
           /\ Initiator(t, n) /\ DefineOwner(t, n)
           /\ \A u \in Threads \ {t} : ~Defining(u, n) /\ (Engaged(u, n) => scenario.user)
<1>1. TypeInv /\ FilesOf(t) /\ EntryOf(n) /\ stack[t] # <<>>
  BY Zenon, SteadyFacts
<1>2. /\ Fate(n) \in {"fine", "array"} /\ Ancestor(n) \in initiatedClasses \cup {NoName}
      /\ ~Delegated(n)
  BY Zenon, <1>1 DEF FilesOf, FilesAt
<1>3. n \notin Doomed /\ n \notin Below(t)
  BY Zenon, <1>1, <1>2, AncestorFine, Twice
<1>4. Defining(t, n)
  BY Zenon DEF Defining, DefineLabels
<1>5. ~Found(n)
  BY Zenon, <1>1, <1>2, <1>4, FoundFine DEF EntryOf, LoadedEntry, Foreign
<1>6. OpenEntry(n) /\ DefineOwner(t, n) /\ Initiator(t, n)
  BY Zenon, <1>1, <1>2, <1>3, <1>4, <1>5 DEF EntryOf, OpenEntry
<1>7. ASSUME NEW u \in Threads \ {t} PROVE ~Defining(u, n) /\ (Engaged(u, n) => scenario.user)
  <2>1. ~DefineOwner(u, n) /\ ~Initiator(u, n)
    BY Zenon, <1>6 DEF DefineOwner, Initiator
  <2> QED
    BY Zenon, <1>2, <1>3, <1>5, <1>6, <2>1 DEF OpenEntry
<1> QED
  BY Zenon, <1>2, <1>3, <1>5, <1>6, <1>7

\* InsertClass turns the entry of its class from open to loaded: who still loads the class is
\* in the list of the entry.
LEMMA InsertedEntry ==
    ASSUME Steady, NEW t \in Threads, Framed(t), NEW n \in Names, n = Top(t), pc[t] = "insert",
           ~Refused(n), loading' = loading, n \in loadedClasses',
           stack'[t] = stack[t], pc'[t] = "success"
    PROVE  EntryOf(n)'
<1>1. /\ \A m : Delegated(m)' = Delegated(m) /\ IsArray(m)' = IsArray(m)
      /\ Doomed' = Doomed /\ scenario' = scenario /\ Found(n)'
  BY Zenon, FilesStay DEF Framed, Found
<1>2. TypeInv /\ RequestOf(t) /\ EntryOf(n)
  BY Zenon, SteadyFacts
<1>3. /\ ~Found(n) /\ n \notin Doomed /\ ~Delegated(n) /\ n \notin Below(t)
      /\ Initiator(t, n) /\ DefineOwner(t, n)
      /\ \A u \in Threads \ {t} : ~Defining(u, n) /\ (Engaged(u, n) => scenario.user)
  BY Zenon, Inserting
<1>4. Top(t)' = n /\ Below(t)' = Below(t)
  BY Zenon, <1>2, MovedNames
<1>5. ~Engaged(t, n)' /\ ~Defining(t, n)'
  BY Zenon, <1>3, <1>4 DEF Engaged, Defining, EngagedLabels, DefineLabels
<1>6. ASSUME NEW u \in Threads
      PROVE  /\ ~Defining(u, n)'
             /\ Engaged(u, n)' => u # t /\ Engaged(u, n) /\ scenario.user /\ Listed(u, n)
             /\ Listed(u, n)' <=> Listed(u, n)
             /\ DefineOwner(u, n)' <=> DefineOwner(u, n)
  <2>1. Listed(u, n)' <=> Listed(u, n)
    BY Zenon DEF Listed
  <2>2. DefineOwner(u, n)' <=> DefineOwner(u, n)
    BY Zenon DEF DefineOwner
  <2>3. CASE u = t
    BY Zenon, <1>5, <2>1, <2>2, <2>3
  <2>4. CASE u # t
    <3>1. Engaged(u, n)' = Engaged(u, n) /\ Defining(u, n)' = Defining(u, n)
      BY Zenon, <2>4, OthersSame
    <3>2. ~Initiator(u, n)
      BY Zenon, <1>3, <2>4 DEF Initiator
    <3>3. Engaged(u, n) => Listed(u, n)
      BY Zenon, <1>2, <1>3, <3>2 DEF EntryOf, AnyEntry
    <3> QED
      BY Zenon, <1>3, <2>1, <2>2, <2>4, <3>1, <3>3
  <2> QED
    BY Zenon, <2>3, <2>4
<1>7. OpenEntry(n)' /\ LoadedEntry(n)'
  BY Zenon, <1>1, <1>3, <1>6 DEF OpenEntry, LoadedEntry
<1>8. AnyEntry(n)'
  BY Zenon, <1>1, <1>2, <1>6 DEF EntryOf, AnyEntry
<1> QED
  BY Zenon, <1>7, <1>8 DEF EntryOf

-----------------------------------------------------------------------------
(* The monitor of a user-defined loader. *)

\* Steps that neither enter nor leave loadClass keep the calls of it that a thread is in.
LEMMA CallsKept ==
    ASSUME TypeInv, NEW t \in Threads, RequestOf(t), scenario' = scenario, Moves(t),
           stack'[t] = stack[t] => IsArray(Top(t)) \/ (pc[t] \in HeldLabels <=> pc'[t] \in HeldLabels),
           Pops(t) => IsArray(Top(t)) \/ pc[t] \notin HeldLabels
    PROVE  Calls(t)' = Calls(t)
<1> DEFINE s == stack[t]
           r == stack'[t]
           L == Len(s)
<1>1. /\ s # <<>> /\ s \in Seq(Names) /\ L \in Nat /\ L >= 1 /\ Top(t) = s[1]
  BY Zenon, TopType DEF RequestOf
<1>2. \A m : IsArray(m)' = IsArray(m)
  BY Zenon, FilesStay
<1>3. ASSUME NEW k
      PROVE  /\ k \in Calls(t)' <=> /\ k \in 1..Len(r) /\ ~IsArray(r[Len(r) + 1 - k])
                                    /\ k = Len(r) => pc'[t] \in HeldLabels
             /\ k \in Calls(t) <=> /\ k \in 1..L /\ ~IsArray(s[L + 1 - k])
                                   /\ k = L => pc[t] \in HeldLabels
  BY Zenon, <1>2 DEF Calls
<1> HIDE DEF s, r, L
<1>4. L + 1 - L = 1
  BY <1>1
<1>5. CASE stack'[t] = stack[t]
  <2>1. r = s /\ Len(r) = L
    BY Zenon, <1>5 DEF r, s, L
  <2>2. ASSUME NEW k PROVE k \in Calls(t)' <=> k \in Calls(t)
    <3>1. CASE k = L
      <4>1. s[L + 1 - k] = Top(t)
        BY Zenon, <1>1, <1>4, <3>1
      <4> QED
        BY Zenon, <1>3, <1>5, <2>1, <4>1
    <3>2. CASE k # L
      BY Zenon, <1>3, <2>1, <3>2
    <3> QED
      BY Zenon, <3>1, <3>2
  <2> QED
    BY Zenon, <2>2
<1>6. CASE Pushes(t)
  <2>1. PICK a \in Names : a = Ancestor(Top(t))
    BY Zenon, <1>6 DEF Pushes
  <2>2. r = <<a>> \o s
    BY Zenon, <1>6, <2>1 DEF Pushes, r, s
  <2>3. Len(r) = L + 1 /\ \A i \in 1..L : r[i + 1] = s[i]
    BY <1>1, <2>2, PushShape DEF L
  <2>4. pc'[t] \notin HeldLabels
    BY Zenon, <1>6 DEF Pushes, HeldLabels
  <2>5. pc[t] \in HeldLabels \/ IsArray(Top(t))
    BY Zenon, <1>6 DEF Pushes, RequestOf, HeldLabels
  <2>6. ASSUME NEW k \in 1..L PROVE r[Len(r) + 1 - k] = s[L + 1 - k]
    <3>1. L + 1 - k \in 1..L /\ (L + 1 - k) + 1 = Len(r) + 1 - k
      BY SMT, <1>1, <2>3
    <3> QED
      BY Zenon, <2>3, <3>1
  <2>7. \A k \in 1..Len(r) : k = Len(r) \/ k \in 1..L
    BY SMT, <1>1, <2>3
  <2>8. \A k \in 1..L : k \in 1..Len(r) /\ k # Len(r)
    BY SMT, <1>1, <2>3
  <2>9. ASSUME NEW k PROVE k \in Calls(t)' <=> k \in Calls(t)
    <3>1. CASE k = L
      <4>1. s[L + 1 - k] = Top(t)
        BY Zenon, <1>1, <1>4, <3>1
      <4> QED
        BY Zenon, <1>3, <2>4, <2>5, <2>6, <2>7, <2>8, <4>1
    <3>2. CASE k # L
      BY Zenon, <1>3, <2>4, <2>6, <2>7, <2>8, <3>2
    <3> QED
      BY Zenon, <3>1, <3>2
  <2> QED
    BY Zenon, <2>9
<1>7. CASE Pops(t)
  <2>1. L > 1 /\ r = Tail(s)
    BY Zenon, <1>7 DEF Pops, r, s, L
  <2>2. /\ Len(r) = L - 1 /\ \A i \in 1..Len(r) : r[i] = s[i + 1]
        /\ r[1] = Head(r) /\ Len(r) + 1 - Len(r) = 1
    BY <1>1, <2>1, PopShape DEF L
  <2>3. pc'[t] \in HeldLabels \/ IsArray(r[1])
    <3>1. Top(t)' = r[1]
      BY Zenon, <2>2 DEF Top, r
    <3> QED
      BY Zenon, <1>2, <1>7, <3>1 DEF Pops, HeldLabels, IsArray, Fate
  <2>4. ASSUME NEW k \in 1..Len(r) PROVE r[Len(r) + 1 - k] = s[L + 1 - k]
    <3>1. Len(r) + 1 - k \in 1..Len(r) /\ (Len(r) + 1 - k) + 1 = L + 1 - k
      BY SMT, <1>1, <2>1, <2>2
    <3> QED
      BY Zenon, <2>2, <3>1
  <2>5. \A k \in 1..L : k = L \/ k \in 1..Len(r)
    BY SMT, <1>1, <2>1, <2>2
  <2>6. \A k \in 1..Len(r) : k \in 1..L /\ k # L
    BY SMT, <1>1, <2>1, <2>2
  <2>7. ASSUME NEW k PROVE k \in Calls(t)' <=> k \in Calls(t)
    <3>1. CASE k = L
      <4>1. s[L + 1 - k] = Top(t)
        BY Zenon, <1>1, <1>4, <3>1
      <4> QED
        BY Zenon, <1>3, <1>7, <2>6, <3>1, <4>1
    <3>2. CASE k # L /\ k = Len(r)
      <4>1. r[Len(r) + 1 - k] = r[1]
        BY Zenon, <2>2, <3>2
      <4> QED
        BY Zenon, <1>3, <2>3, <2>4, <2>5, <2>6, <3>2, <4>1
    <3>3. CASE k # L /\ k # Len(r)
      BY Zenon, <1>3, <2>4, <2>5, <2>6, <3>3
    <3> QED
      BY Zenon, <3>1, <3>2, <3>3
  <2> QED
    BY Zenon, <2>7
<1> QED
  BY Zenon, <1>5, <1>6, <1>7 DEF Moves

\* The call of the innermost name.
LEMMA InnerCall ==
    ASSUME TypeInv, NEW t \in Threads, stack[t] # <<>>
    PROVE  /\ IsFiniteSet(Calls(t)) /\ Cardinality(Calls(t)) \in Nat
           /\ Len(stack[t]) \in Calls(t) <=> ~IsArray(Top(t)) /\ pc[t] \in HeldLabels
           /\ Len(stack[t]) \in Calls(t) => Cardinality(Calls(t)) > 0
<1>1. Len(stack[t]) \in Nat /\ Len(stack[t]) >= 1 /\ Top(t) = stack[t][1]
  BY Zenon, TopType
<1>2. Len(stack[t]) + 1 - Len(stack[t]) = 1 /\ Len(stack[t]) \in 1..Len(stack[t])
  BY <1>1
<1>3. IsFiniteSet(Calls(t)) /\ Cardinality(Calls(t)) \in Nat
  <2>1. IsFiniteSet(1..Len(stack[t]))
    BY <1>1, FS_Interval
  <2>2. Calls(t) \subseteq 1..Len(stack[t])
    BY Zenon DEF Calls
  <2> QED
    BY Zenon, <2>1, <2>2, FS_Subset, FS_CardinalityType
<1>4. Len(stack[t]) \in Calls(t) <=> ~IsArray(Top(t)) /\ pc[t] \in HeldLabels
  BY Zenon, <1>1, <1>2 DEF Calls
<1>5. Len(stack[t]) \in Calls(t) => Cardinality(Calls(t)) # 0
  BY Zenon, <1>3, FS_EmptySet
<1>6. \A k \in Nat : k # 0 => k > 0
  OBVIOUS
<1> QED
  BY Zenon, <1>3, <1>4, <1>5, <1>6

\* Steps that leave the monitor alone.
LEMMA MonitorKept ==
    ASSUME RequestInv, MonitorInv, NEW t \in Threads, Framed(t), monitor' = monitor,
           scenario.user /\ stack'[t] = stack[t] =>
               IsArray(Top(t)) \/ (pc[t] \in HeldLabels <=> pc'[t] \in HeldLabels),
           scenario.user /\ Pops(t) => IsArray(Top(t)) \/ pc[t] \notin HeldLabels
    PROVE  MonitorInv'
<1> SUFFICES ASSUME scenario.user PROVE MonitorInv'
  BY Zenon DEF MonitorInv, Framed
<1>1. TypeInv /\ RequestOf(t) /\ scenario' = scenario /\ Moves(t)
  BY Zenon, Basics DEF Framed
<1>2. Calls(t)' = Calls(t)
  BY Zenon, <1>1, CallsKept
<1>3. ASSUME NEW u \in Threads \ {t} PROVE Calls(u)' = Calls(u)
  BY Zenon, <1>1 DEF Framed, Calls, IsArray, Fate
<1>4. \A u \in Threads : Calls(u)' = Calls(u)
  BY Zenon, <1>2, <1>3
<1> QED
  BY Zenon, <1>1, <1>4 DEF MonitorInv

\* Entering loadClass locks the loader once more.
LEMMA EnterMonitor ==
    ASSUME Steady, NEW t \in Threads, Framed(t), EnterLoadClass(t)
    PROVE  MonitorInv'
<1> DEFINE L == Len(stack[t])
<1>1. /\ TypeInv /\ RequestOf(t) /\ scenario' = scenario /\ stack' = stack /\ stack[t] # <<>>
      /\ FilesOf(t) /\ MonitorInv /\ monitor \in [owner : Threads \cup {NoThread}, depth : Int]
  BY Zenon, SteadyFacts, Basics DEF EnterLoadClass, Steady, LoadInv
<1>2. pc'[t] = "lookup" /\ scenario.user /\ ~IsArray(Top(t)) /\ \A m : IsArray(m)' = IsArray(m)
  BY Zenon, <1>1, GotoShape, FilesStay DEF EnterLoadClass, FilesOf, FilesAt, Labels, EngagedLabels
<1>3. L \in Nat /\ L >= 1 /\ Top(t) = stack[t][1] /\ IsFiniteSet(Calls(t)) /\ L \notin Calls(t)
  BY Zenon, <1>1, TopType, InnerCall DEF EnterLoadClass, HeldLabels
<1>4. L + 1 - L = 1 /\ L \in 1..L
  BY <1>3
<1>5. Calls(t)' = Calls(t) \cup {L}
  <2>1. ASSUME NEW k PROVE k \in Calls(t)' <=> k \in Calls(t) \cup {L}
    <3>1. CASE k = L
      <4>1. k \in 1..L /\ ~IsArray(stack[t][L + 1 - k])
        BY Zenon, <1>2, <1>3, <1>4, <3>1
      <4> QED
        BY Zenon, <1>1, <1>2, <3>1, <4>1 DEF Calls, HeldLabels
    <3>2. CASE k # L
      BY Zenon, <1>1, <1>2, <3>2 DEF Calls
    <3> QED
      BY Zenon, <3>1, <3>2
  <2> QED
    BY Zenon, <2>1
<1>6. Cardinality(Calls(t)') = Cardinality(Calls(t)) + 1
  <2>1. PICK S : S = Calls(t)
    BY Zenon
  <2>2. Cardinality(S \cup {L}) = Cardinality(S) + 1
    BY Zenon, <1>3, <2>1, FS_AddElement
  <2> QED
    BY Zenon, <1>5, <2>1, <2>2
<1>7. ASSUME NEW u \in Threads \ {t} PROVE Cardinality(Calls(u)') = 0
  <2>1. Calls(u)' = Calls(u)
    BY Zenon, <1>1, <1>2 DEF Framed, Calls
  <2>2. monitor.owner # u
    BY Zenon, NothingAssumption DEF EnterLoadClass
  <2>3. Cardinality(Calls(u)) = 0
    BY Zenon, <1>1, <1>2, <2>2 DEF MonitorInv
  <2> QED
    BY Zenon, <2>1, <2>3
<1>8. /\ Cardinality(Calls(t)) = monitor.depth /\ monitor.depth \in Int
      /\ monitor.depth = 0 \/ monitor.depth > 0
  <2>1. monitor.depth \in Int
    BY Zenon, <1>1
  <2>2. CASE monitor.owner = t
    <3>1. monitor.owner # NoThread
      BY Zenon, <2>2, NothingAssumption
    <3>2. monitor.depth > 0 /\ Cardinality(Calls(t)) = monitor.depth
      BY Zenon, <1>1, <1>2, <2>2, <3>1 DEF MonitorInv
    <3> QED
      BY Zenon, <2>1, <3>2
  <2>3. CASE monitor.owner = NoThread
    BY Zenon, <1>1, <1>2, <2>1, <2>3, NothingAssumption DEF MonitorInv
  <2> QED
    BY Zenon, <2>2, <2>3 DEF EnterLoadClass
<1>9. monitor'.owner = t /\ monitor'.depth = monitor.depth + 1
  BY Zenon DEF EnterLoadClass
<1>10. monitor.depth + 1 > 0
  BY <1>8
<1> QED
  BY Zenon, <1>6, <1>7, <1>8, <1>9, <1>10, NothingAssumption DEF MonitorInv

\* Leaving loadClass, normally or by an exception, unlocks the loader once.
LEMMA LeaveMonitor ==
    ASSUME Steady, NEW t \in Threads, Framed(t), LeaveLoadClass(t)
    PROVE  MonitorInv'
<1> DEFINE L == Len(stack[t])
<1>1. /\ TypeInv /\ RequestOf(t) /\ scenario' = scenario /\ stack' = stack /\ stack[t] # <<>>
      /\ FilesOf(t) /\ MonitorInv /\ monitor \in [owner : Threads \cup {NoThread}, depth : Int]
  BY Zenon, SteadyFacts, Basics DEF LeaveLoadClass, Steady, LoadInv
<1>2. /\ pc'[t] \notin HeldLabels /\ pc[t] \in {"leave", "throw"}
      /\ scenario.user /\ ~IsArray(Top(t)) /\ \A m : IsArray(m)' = IsArray(m)
  <2>1. PICK l \in {"delegated", "record", "refail"} : Goto(t, l)
    BY Zenon DEF LeaveLoadClass
  <2>2. pc'[t] = l
    BY Zenon, <1>1, <2>1, GotoShape DEF Labels, Failing
  <2> QED
    BY Zenon, <1>1, <2>1, <2>2, FilesStay DEF LeaveLoadClass, FilesOf, FilesAt, HeldLabels
<1>3. /\ IsFiniteSet(Calls(t)) /\ L \in Calls(t) /\ Cardinality(Calls(t)) \in Nat
      /\ Cardinality(Calls(t)) > 0 /\ L \in Nat
  BY Zenon, <1>1, <1>2, TopType, InnerCall DEF HeldLabels
<1>5. Calls(t)' = Calls(t) \ {L}
  <2>1. ASSUME NEW k PROVE k \in Calls(t)' <=> k \in Calls(t) \ {L}
    <3>1. CASE k = L
      BY Zenon, <1>1, <1>2, <3>1 DEF Calls
    <3>2. CASE k # L
      BY Zenon, <1>1, <1>2, <3>2 DEF Calls
    <3> QED
      BY Zenon, <3>1, <3>2
  <2> QED
    BY Zenon, <2>1
<1>6. Cardinality(Calls(t)') = Cardinality(Calls(t)) - 1
  <2>1. PICK S : S = Calls(t)
    BY Zenon
  <2>2. Cardinality(S \ {L}) = Cardinality(S) - 1
    BY Zenon, <1>3, <2>1, FS_RemoveElement
  <2> QED
    BY Zenon, <1>5, <2>1, <2>2
<1>7. monitor.owner = t /\ Cardinality(Calls(t)) = monitor.depth
  <2>1. ~(0 > 0)
    OBVIOUS
  <2> QED
    BY Zenon, <1>1, <1>2, <1>3, <2>1 DEF MonitorInv
<1>8. ASSUME NEW u \in Threads \ {t} PROVE Cardinality(Calls(u)') = 0
  <2>1. Calls(u)' = Calls(u)
    BY Zenon, <1>1, <1>2 DEF Framed, Calls
  <2> QED
    BY Zenon, <1>1, <1>2, <1>7, <2>1 DEF MonitorInv
<1>9. /\ monitor'.owner = IF monitor.depth = 1 THEN NoThread ELSE t
      /\ monitor'.depth = monitor.depth - 1
  BY Zenon DEF LeaveLoadClass
<1>10. /\ monitor.depth = 1 => monitor.depth - 1 = 0
       /\ monitor.depth # 1 => monitor.depth - 1 > 0
  BY <1>3, <1>7
<1>11. CASE monitor.depth = 1
  BY Zenon, <1>6, <1>7, <1>8, <1>9, <1>10, <1>11, NothingAssumption DEF MonitorInv
<1>12. CASE monitor.depth # 1
  BY Zenon, <1>6, <1>7, <1>8, <1>9, <1>10, <1>12, NothingAssumption DEF MonitorInv
<1> QED
  BY Zenon, <1>11, <1>12

-----------------------------------------------------------------------------
(* What keeps the second invariant, and what a step does to the entry of its name. *)

\* What the steps of t have to show of the file they come to.
LEMMA FilesMove ==
    ASSUME Steady, NEW t \in Threads, Framed(t), NEW n, n = Top(t)', FilesAt(pc'[t], n)
    PROVE  FilesOf(t)'
<1>1. ChainOf(t)'
  BY Zenon, SteadyFacts, ChainMoves
<1>2. /\ \A m : /\ Fate(m)' = Fate(m) /\ IsArray(m)' = IsArray(m)
                /\ Ancestor(m)' = Ancestor(m) /\ Delegated(m)' = Delegated(m)
      /\ Doomed' = Doomed /\ scenario' = scenario
      /\ \A m : m \in initiatedClasses => m \in initiatedClasses'
  BY Zenon, FilesStay DEF Framed
<1>3. FilesAt(pc[t], Top(t))'
  BY Zenon, <1>2 DEF FilesAt
<1> QED
  BY Zenon, <1>1, <1>3 DEF FilesOf

\* What a step has to show to keep LoadInv: its thread's file, the entry of its name, the
\* lock, and that it leaves alone those who are about to define the class.
LEMMA LoadKept ==
    ASSUME Steady, NEW t \in Threads, Framed(t), NEW n \in Names, n = Top(t),
           FilesOf(t)', AloneOf(t)', EntryOf(n)', MonitorInv', "inserted" \notin broken',
           \A u \in Threads \ {t} : pc[u] = "define" /\ Top(u) = n => Found(n) \/ ~Found(n)'
    PROVE  LoadInv'
<1>1. /\ \A m : /\ Fate(m)' = Fate(m) /\ IsArray(m)' = IsArray(m)
                /\ Ancestor(m)' = Ancestor(m) /\ Delegated(m)' = Delegated(m)
      /\ Doomed' = Doomed /\ scenario' = scenario
      /\ \A m : m \in initiatedClasses => m \in initiatedClasses'
  BY Zenon, FilesStay DEF Framed
<1>2. TypeInv /\ RequestOf(t)
  BY Zenon, SteadyFacts
<1>3. ASSUME NEW u \in Threads \ {t} PROVE FilesOf(u)' /\ AloneOf(u)'
  <2>1. /\ pc'[u] = pc[u] /\ stack'[u] = stack[u] /\ exn'[u] = exn[u] /\ Top(u)' = Top(u)
    BY Zenon DEF Framed, Top
  <2>2. FilesOf(u) /\ AloneOf(u) /\ Top(u) \in Names
    BY Zenon, SteadyFacts
  <2>3. ChainOf(u)'
    BY Zenon, <1>1, <2>1, <2>2 DEF ChainOf, FilesOf
  <2>4. FilesAt(pc[u], Top(u))'
    BY Zenon, <1>1, <2>1, <2>2 DEF FilesAt, FilesOf
  <2>5. pc[u] = "define" => ~Found(Top(u))'
    BY Zenon, <2>1, <2>2 DEF AloneOf, Framed, Found
  <2> QED
    BY Zenon, <2>1, <2>2, <2>3, <2>4, <2>5 DEF FilesOf, AloneOf
<1>4. ASSUME NEW m \in Names, m # n PROVE EntryOf(m)'
  <2>1. Shrinks(t, m)
    BY Zenon, <1>2, <1>4, ElsewhereShrinks
  <2>2. Quiet(t, m)
    BY Zenon, <1>4, <2>1 DEF Quiet, Framed, Found
  <2>3. EntryOf(m)
    BY Zenon DEF Steady, LoadInv
  <2> QED
    BY Zenon, <2>2, <2>3, QuietEntry
<1> QED
  BY Zenon, <1>3, <1>4 DEF LoadInv

\* Steps that are not about the entry.
LEMMA QuietLoad ==
    ASSUME Steady, NEW t \in Threads, Framed(t), NEW n \in Names, n = Top(t),
           FilesOf(t)', AloneOf(t)', Quiet(t, n), MonitorInv', "inserted" \notin broken'
    PROVE  LoadInv'
<1>1. EntryOf(n)'
  BY Zenon, SteadyFacts, QuietEntry
<1>2. ASSUME NEW u \in Threads \ {t}, pc[u] = "define", Top(u) = n PROVE Found(n) \/ ~Found(n)'
  <2>1. ~Delegated(n)
    BY Zenon, <1>2, SteadyFacts DEF FilesOf, FilesAt, Delegated, IsArray
  <2> QED
    BY Zenon, <2>1 DEF Quiet
<1> QED
  BY Zenon, <1>1, <1>2, LoadKept

\* A step from one label of a load to another.
LEMMA LabelShrinks ==
    ASSUME TypeInv, NEW t \in Threads, RequestOf(t), scenario' = scenario, stack'[t] = stack[t],
           NEW n, n = Top(t),
           pc'[t] \in EngagedLabels => pc[t] \in EngagedLabels,
           pc'[t] \in DefineLabels => pc[t] \in DefineLabels,
           pc[t] \in DefineLabels /\ n \notin Doomed => pc'[t] \in DefineLabels,
           pc[t] \in PursueLabels => pc'[t] \in PursueLabels \/ Found(n)'
    PROVE  Shrinks(t, n)
<1>1. /\ \A m : IsArray(m)' = IsArray(m)
      /\ Top(t)' = n /\ Below(t)' = Below(t)
  BY Zenon, FilesStay, MovedNames
<1> QED
  BY Zenon, <1>1 DEF Shrinks, Engaged, Defining, Pursues

\* A step that only moves its thread from one label of a load to another keeps LoadInv.
LEMMA LabelLoad ==
    ASSUME Steady, NEW t \in Threads, Framed(t), stack'[t] = stack[t], NEW n \in Names, n = Top(t),
           tables' = tables, loading' = loading, MonitorInv', "inserted" \notin broken',
           pc'[t] \in EngagedLabels => pc[t] \in EngagedLabels,
           pc'[t] \in DefineLabels => pc[t] \in DefineLabels,
           pc[t] \in DefineLabels /\ n \notin Doomed => pc'[t] \in DefineLabels,
           pc[t] \in PursueLabels => pc'[t] \in PursueLabels \/ Found(n)',
           pc[t] = "spin" => ~Listed(t, n) \/ loading[n].signalled,
           FilesAt(pc'[t], n), exn'[t] # "linkage", pc'[t] = "define" => ~Found(n)
    PROVE  LoadInv'
<1>1. TypeInv /\ RequestOf(t) /\ scenario' = scenario /\ Top(t)' = n
  BY Zenon, SteadyFacts DEF Framed, Top
<1>2. Shrinks(t, n)
  BY Zenon, <1>1, LabelShrinks
<1>3. Quiet(t, n)
  BY Zenon, <1>2 DEF Quiet, tables, Found
<1>4. FilesOf(t)'
  BY Zenon, <1>1, FilesMove
<1>5. AloneOf(t)'
  BY Zenon, <1>1 DEF AloneOf, Found, tables
<1> QED
  BY Zenon, <1>3, <1>4, <1>5, QuietLoad

\* What is known before a step of a thread.
LEMMA SameLoad ==
    ASSUME Steady, NEW t \in Threads
    PROVE  /\ RequestInv /\ MonitorInv /\ "inserted" \notin broken
           /\ exn[t] # "linkage" /\ FilesAt(pc[t], Top(t))
BY Zenon, SteadyFacts DEF Steady, LoadInv, AloneOf, FilesOf

\* A load that cannot succeed is given up.
LEMMA FailedMoves ==
    ASSUME Steady, NEW t \in Threads, Framed(t), NEW n \in Names, n = Top(t), n \in Doomed,
           exn'[t] # "linkage",
           \/ stack'[t] = stack[t] /\ pc'[t] = "throw" /\ InJava(t)
           \/ stack'[t] = stack[t] /\ pc'[t] = "done"
           \/ Pops(t) /\ pc'[t] = "fail"
    PROVE  /\ FilesOf(t)' /\ AloneOf(t)'
           /\ Defining(t, n)' => Defining(t, n)
           /\ ~Engaged(t, n)'
<1>1. /\ TypeInv /\ RequestOf(t) /\ stack[t] # <<>> /\ FilesOf(t)
      /\ (InJava(t) <=> scenario.user /\ ~IsArray(n))
      /\ \A m : IsArray(m)' = IsArray(m)
  BY Zenon, SteadyFacts, FilesStay DEF Framed
<1>2. pc'[t] \in {"throw", "done", "fail"} /\ AloneOf(t)'
  BY Zenon DEF AloneOf
<1>3. Below(t)' \subseteq Below(t)
  BY Zenon, <1>1, MovedNames DEF Framed
<1>4. FilesOf(t)'
  <2>1. PICK m : m = Top(t)'
    BY Zenon
  <2>2. CASE stack'[t] = stack[t]
    <3>1. m = n
      BY Zenon, <2>1, <2>2 DEF Top
    <3>2. FilesAt(pc'[t], m)
      BY Zenon, <1>1, <1>2, <2>2, <3>1, Popless DEF FilesAt, Failing
    <3> QED
      BY Zenon, <2>1, <3>2, FilesMove
  <2>3. CASE Pops(t) /\ pc'[t] = "fail"
    <3>1. m \in Doomed
      BY Zenon, <1>1, <2>1, <2>3, PoppedFile
    <3>2. FilesAt(pc'[t], m)
      BY Zenon, <2>3, <3>1 DEF FilesAt, Failing
    <3> QED
      BY Zenon, <2>1, <3>2, FilesMove
  <2> QED
    BY Zenon, <2>2, <2>3
<1>5. ~(n \in Below(t)' /\ IsArray(n))
  <2>1. \A m : m \notin {}
    OBVIOUS
  <2> QED
    BY Zenon, <1>1, <1>3, <2>1, ArrayAlone
<1> QED
  BY Zenon, <1>1, <1>2, <1>3, <1>4, <1>5 DEF Defining, Engaged, EngagedLabels, DefineLabels

\* The entry with which WaitDefinition goes on when it has not found the class.
LEMMA StartedEntry ==
    ASSUME Steady, NEW t \in Threads, NEW n \in Names, n = Top(t), ~Found(n),
           NEW e, e = StartEntry(t, n)
    PROVE  /\ Passes(loading[n], e, t)
           /\ \A u \in Threads \ {t} : scenario.user /\ Initiator(u, n) =>
                  e # NoEntry /\ u \in e.waiting \cup {e.initiator}
           /\ Recurs(t, n) /\ e # NoEntry => e.initiator = NoThread
<1>1. ListOf(n) /\ loading[n] \in Entries \cup {NoEntry} /\ Passes(loading[n], e, t)
  BY Zenon, SteadyFacts, SameLoad, StartPasses
<1>2. CASE loading[n] = NoEntry
  BY Zenon, <1>1, <1>2 DEF Initiator, Recurs, Collides
<1>3. CASE loading[n] # NoEntry
  <2>1. PICK d \in Entries : d = loading[n] /\ d.initiator \notin d.waiting /\ d # NoEntry
    BY Zenon, <1>1, <1>3 DEF ListOf
  <2>2. CASE Recurs(t, n)
    <3>1. e = Signalled(d, t)
      BY Zenon, <2>1, <2>2, StartCases
    <3>2. /\ \A u \in Threads \ {t} : u \in d.waiting \cup {d.initiator} =>
                 Signalled(d, t) # NoEntry /\ u \in Signalled(d, t).waiting
          /\ Signalled(d, t) # NoEntry => Signalled(d, t).initiator = NoThread
      BY Zenon, <2>1, SignalledShape
    <3>3. /\ \A u \in Threads \ {t} : u = d.initiator => e # NoEntry /\ u \in e.waiting
          /\ e # NoEntry => e.initiator = NoThread
      BY Zenon, <3>1, <3>2
    <3> QED
      BY Zenon, <1>1, <2>1, <3>3 DEF Initiator
  <2>3. CASE Retries(t, n)
    <3>1. scenario.user => e = d
      BY Zenon, <2>1, <2>3, StartCases
    <3> QED
      BY Zenon, <1>1, <2>1, <2>3, <3>1 DEF Initiator, Retries
  <2>4. CASE Registers(t, n)
    <3>1. e = AddWaitingThread(d, t) /\ t # d.initiator
      BY Zenon, <2>1, <2>4, StartCases DEF Registers, Recurs
    <3>2. LET x == AddWaitingThread(d, t) IN x \in Entries /\ x.initiator = d.initiator
      BY Zenon, <2>1, <3>1, AddPasses
    <3> QED
      BY Zenon, <1>1, <2>1, <2>4, <3>1, <3>2, NothingAssumption DEF Initiator, Registers
  <2> QED
    BY Zenon, <1>3, <2>2, <2>3, <2>4, StartCases
<1> QED
  BY Zenon, <1>2, <1>3

\* A thread of the bootstrap loader takes over a load that has failed.
LEMMA TakenEntry ==
    ASSUME Steady, NEW t \in Threads, Framed(t), tables' = tables, NEW n \in Names, n = Top(t),
           n \in Doomed, ~scenario.user, Retries(t, n),
           loading'[n] = RemoveWaitingThread([loading[n] EXCEPT !.initiator = t], t),
           Top(t)' = n, pc'[t] \in EngagedLabels
    PROVE  EntryOf(n)'
<1>1. /\ Doomed' = Doomed /\ scenario' = scenario /\ Found(n)' = Found(n)
      /\ Delegated(n)' = Delegated(n)
      /\ loadedClasses' = loadedClasses
  BY Zenon, FilesStay DEF Framed, tables, Found
<1>2. EntryOf(n) /\ loading[n] \in Entries /\ ~DefineOwner(t, n)
  BY Zenon, SteadyFacts DEF Retries, Recurs, Collides, DefineOwner
<1>3. OpenEntry(n)' /\ LoadedEntry(n)'
  BY Zenon, <1>1, <1>2 DEF EntryOf, OpenEntry, LoadedEntry
<1>4. loading'[n].definer = loading[n].definer /\ loading'[n].initiator = t
  BY <1>2 DEF RemoveWaitingThread, Entries
<1>5. loading[n] # NoEntry
  BY Zenon DEF Retries, Collides
<1>6. \A u \in Threads : /\ DefineOwner(u, n)' => DefineOwner(u, n)
                         /\ Initiator(u, n)' => u = t
  BY Zenon, <1>4, <1>5 DEF DefineOwner, Initiator
<1>7. \A u \in Threads \ {t} : Engaged(u, n)' = Engaged(u, n)
  BY Zenon, OthersSame
<1>8. Pursues(t, n)'
  BY Zenon DEF Pursues, PursueLabels
<1>9. AnyEntry(n)'
  BY Zenon, <1>1, <1>2, <1>6, <1>7, <1>8 DEF EntryOf, AnyEntry
<1> QED
  BY Zenon, <1>3, <1>9 DEF EntryOf

\* StartLoadingClass goes on to the search for the class.
LEMMA SearchEntry ==
    ASSUME Steady, NEW t \in Threads, Framed(t), tables' = tables, NEW n \in Names, n = Top(t),
           pc[t] = "start", ~Found(n), ~Recurs(t, n), ~Waits(t, n),
           loading'[n] = StartEntry(t, n), stack'[t] = stack[t], pc'[t] \in {"array", "java", "read"}
    PROVE  EntryOf(n)'
<1>1. /\ TypeInv /\ RequestOf(t) /\ ListOf(n) /\ loading[n] \in Entries \cup {NoEntry}
      /\ Top(t)' = n /\ pc'[t] \in EngagedLabels
  BY Zenon, SteadyFacts DEF Top, EngagedLabels
<1>2. Defining(t, n)' => Defining(t, n)
  <2>1. Below(t)' = Below(t) /\ IsArray(n)' = IsArray(n)
    BY Zenon, <1>1, MovedNames, FilesStay DEF Framed
  <2> QED
    BY Zenon, <2>1 DEF Defining, DefineLabels
<1>3. CASE loading[n] = NoEntry
  BY Zenon, <1>1, <1>2, <1>3, StartCases, MadeEntry
<1>4. CASE loading[n] # NoEntry /\ Retries(t, n) /\ ~scenario.user
  BY Zenon, <1>1, <1>4, StartCases, RetriesDoomed, TakenEntry
<1>5. CASE loading[n] # NoEntry /\ scenario.user
  <2>1. ~Initiator(t, n) /\ ~DefineOwner(t, n)
    BY Zenon, <1>5 DEF Recurs, Collides, Initiator, DefineOwner
  <2>2. PICK e \in Entries : e = loading[n] /\ e.initiator \notin e.waiting /\ t # e.initiator
    BY Zenon, <1>1, <1>5, <2>1 DEF ListOf, Initiator
  <2>3. PICK x : x = loading'[n]
    BY Zenon
  <2>4. /\ x # NoEntry /\ x.waiting = e.waiting \cup {t}
        /\ x.initiator = e.initiator /\ x.definer = e.definer /\ x.signalled = e.signalled
    <3>1. CASE Retries(t, n)
      <4>1. x = e /\ t \in e.waiting
        BY Zenon, <1>5, <2>2, <2>3, <3>1, StartCases DEF Retries, AlreadyWaiting
      <4>2. e.waiting = e.waiting \cup {t}
        BY Zenon, <4>1
      <4> QED
        BY Zenon, <1>5, <2>2, <4>1, <4>2
    <3>2. CASE Registers(t, n)
      <4>1. x = AddWaitingThread(e, t)
        BY Zenon, <2>2, <2>3, <3>2, StartCases
      <4>2. LET y == AddWaitingThread(e, t) IN
            /\ Passes(e, y, t) /\ y \in Entries /\ y.waiting = e.waiting \cup {t}
            /\ y.initiator = e.initiator /\ y.definer = e.definer /\ y.signalled = e.signalled
        BY Zenon, <2>2, AddPasses
      <4> QED
        BY Zenon, <4>1, <4>2, NothingAssumption
    <3> QED
      BY Zenon, <1>5, <3>1, <3>2, StartCases
  <2> QED
    BY Zenon, <1>2, <1>5, <2>1, <2>2, <2>3, <2>4, JoinedEntry
<1> QED
  BY Zenon, <1>3, <1>4, <1>5, StartCases DEF Waits
=============================================================================
