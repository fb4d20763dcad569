---------------------------- MODULE WaitingProofs ----------------------------
(***************************************************************************)
(* The theorems about Waiting, for any number of threads and monitors and  *)
(* whatever operations the threads make.                                   *)
(***************************************************************************)
EXTENDS Waiting, FiniteSetTheorems, TLAPS

-----------------------------------------------------------------------------
(* Arithmetic modulo RequestModulus, an unknown number *)

\* A nonzero multiple of n is at least n away from zero.
LEMMA ProductGrows ==
  ASSUME NEW n \in Nat \ {0}, NEW d \in Int, d # 0
  PROVE  n * d >= n \/ n * d <= -n
<1>1. CASE d > 0
  <2>1. PICK e \in Nat : d = 1 + e
    <3>1. d - 1 \in Nat /\ d = 1 + (d - 1)
      BY <1>1
    <3> QED
      BY Zenon, <3>1
  <2>2. n * d = n + n * e /\ n * e \in Nat
    BY <2>1
  <2> QED
    BY <2>2
<1>2. CASE d < 0
  <2>1. PICK e \in Nat : d = -1 - e
    <3>1. -1 - d \in Nat /\ d = -1 - (-1 - d)
      BY <1>2
    <3> QED
      BY Zenon, <3>1
  <2>2. n * d = -n - n * e /\ n * e \in Nat
    BY <2>1
  <2> QED
    BY <2>2
<1> QED
  BY <1>1, <1>2

\* Division with remainder, for a divisor that is not known.
LEMMA Quotient ==
  ASSUME NEW a \in Int, NEW n \in Nat \ {0}
  PROVE  /\ a % n \in 0 .. n - 1
         /\ \E q \in Int : a = n * q + (a % n)
<1>1. a % n \in 0 .. n - 1
  OBVIOUS
<1>2. a \div n \in Int /\ a = n * (a \div n) + (a % n)
  OBVIOUS
<1> QED
  BY Zenon, <1>1, <1>2

\* What distinguishes the remainder.
LEMMA Remainder ==
  ASSUME NEW n \in Nat \ {0}, NEW v \in 0 .. n - 1, NEW q \in Int
  PROVE  (n * q + v) % n = v
<1> DEFINE a == n * q + v
<1>1. a \in Int
  OBVIOUS
<1>2. PICK p \in Int : a = n * p + (a % n)
  BY Zenon, <1>1, Quotient
<1>3. a % n \in 0 .. n - 1
  BY Zenon, <1>1, Quotient
<1>4. n * (p - q) = v - (a % n)
  <2>1. n * (p - q) = n * p - n * q
    OBVIOUS
  <2> QED
    BY <1>2, <1>3, <2>1
<1>5. p - q = 0
  <2>1. ASSUME p - q # 0 PROVE FALSE
    <3>1. n * (p - q) >= n \/ n * (p - q) <= -n
      BY <2>1, ProductGrows
    <3> QED
      BY <1>3, <1>4, <3>1
  <2> QED
    BY Zenon, <2>1
<1> QED
  BY <1>3, <1>4, <1>5

\* The width of the request counter has room for one request at least.
LEMMA ModulusPositive == RequestModulus \in Nat \ {0} /\ RequestModulus >= 2
BY BoundsAssumption

\* The remainder does not see multiples of the modulus.
LEMMA ModPeriod ==
  ASSUME NEW n \in Nat \ {0}, NEW q \in Int, NEW c \in Int
  PROVE  (n * q + c) % n = c % n
<1> DEFINE v == c % n
<1>1. v \in 0 .. n - 1 /\ \E p \in Int : c = n * p + v
  BY Zenon, Quotient
<1> HIDE DEF v
<1>2. PICK p \in Int : c = n * p + v
  BY Zenon, <1>1
<1>3. n * q + c = n * (q + p) + v
  <2>1. n * (q + p) = n * q + n * p
    OBVIOUS
  <2> QED
    BY <1>1, <1>2, <2>1
<1>4. (n * (q + p) + v) % n = v
  BY <1>1, Remainder
<1> QED
  BY Zenon, <1>3, <1>4 DEF v

\* Taking the remainder of a summand first makes no difference.
LEMMA ModShift ==
  ASSUME NEW r \in Int, NEW s \in Int
  PROVE  ((r % RequestModulus) + s) % RequestModulus = (r + s) % RequestModulus
<1>1. ASSUME NEW n \in Nat \ {0}
      PROVE  ((r % n) + s) % n = (r + s) % n
  <2> DEFINE b == r % n
  <2>1. b \in 0 .. n - 1 /\ \E q \in Int : r = n * q + b
    BY Zenon, Quotient
  <2> HIDE DEF b
  <2>2. PICK q \in Int : r = n * q + b
    BY Zenon, <2>1
  <2>3. b \in Int /\ b + s \in Int
    BY <2>1
  <2>4. (n * q + (b + s)) % n = (b + s) % n
    BY Zenon, <2>3, ModPeriod
  <2>5. r + s = n * q + (b + s)
    BY <2>2, <2>3
  <2>6. (r + s) % n = (b + s) % n
    BY Zenon, <2>4, <2>5
  <2> QED
    BY Zenon, <2>6 DEF b
<1> QED
  BY Zenon, <1>1, ModulusPositive

\* The remainders of the least numbers.
LEMMA ModSmall ==
  0 % RequestModulus = 0 /\ 1 % RequestModulus = 1 /\ RequestModulus % RequestModulus = 0
<1>1. (RequestModulus * 0 + 0) % RequestModulus = 0
  BY ModulusPositive, Remainder
<1>2. (RequestModulus * 0 + 1) % RequestModulus = 1
  BY ModulusPositive, Remainder
<1>3. (RequestModulus * 1 + 0) % RequestModulus = 0
  BY ModulusPositive, Remainder
<1>4. /\ RequestModulus * 0 + 0 = 0 /\ RequestModulus * 0 + 1 = 1
      /\ RequestModulus * 1 + 0 = RequestModulus
  BY ModulusPositive
<1> QED
  BY Zenon, <1>1, <1>2, <1>3, <1>4

\* A counter that agrees with none agrees with one after the increment.
LEMMA OneMore ==
  ASSUME NEW a \in Int, a % RequestModulus = 0
  PROVE  (a + 1) % RequestModulus = 1
<1>1. ((a % RequestModulus) + 1) % RequestModulus = (a + 1) % RequestModulus
  BY ModShift
<1> QED
  BY <1>1, ModSmall

\* A counter that agrees with one agrees with none after the decrement.
LEMMA OneLess ==
  ASSUME NEW a \in Int, a % RequestModulus = 1
  PROVE  (a + RequestModulus - 1) % RequestModulus = 0
<1> DEFINE d == RequestModulus - 1
<1>1. d \in Int /\ 1 + d = RequestModulus /\ a + RequestModulus - 1 = a + d
  BY ModulusPositive
<1> HIDE DEF d
<1>2. ((a % RequestModulus) + d) % RequestModulus = (a + d) % RequestModulus
  BY Zenon, <1>1, ModShift
<1> QED
  BY Zenon, <1>1, <1>2, ModSmall

-----------------------------------------------------------------------------
(* Requests and callbacks *)

Setters(t) == {u \in Threads \ {t} : pc[u] = "cb_request" /\ target[u] = t}
Own(t) == pc[t] = "cb_request" /\ target[t] = t
RequestAt(t) == (request[t] + Cardinality(Setters(t))) % RequestModulus
                  = IF safepoint_callback[t] /\ ~Own(t) THEN 1 ELSE 0

\* RequestAgrees, thread by thread.
LEMMA Agrees == RequestAgrees <=> \A t \in Threads : RequestAt(t)
BY Zenon DEF RequestAgrees, RequestAt, Setters, Own

\* The same for the next state.
LEMMA AgreesNext ==
  ASSUME \A t \in Threads : RequestAt(t)'
  PROVE  RequestAgrees'
BY Zenon DEF RequestAgrees, RequestAt, Setters, Own

\* The threads that are setting a callback of t are finitely many.
LEMMA SettersFinite ==
  ASSUME NEW t \in Threads
  PROVE  IsFiniteSet(Setters(t)) /\ Cardinality(Setters(t)) \in Nat
<1>1. Setters(t) \subseteq Threads
  BY Zenon DEF Setters
<1> QED
  BY Zenon, <1>1, NamesAssumption, FS_Subset, FS_CardinalityType

\* Steps after which the same threads are about to request.
SameSetters == \A u \in Threads : /\ pc'[u] = "cb_request" <=> pc[u] = "cb_request"
                                  /\ pc[u] = "cb_request" => target'[u] = target[u]

\* A step that starts and ends no setting leaves the setters as they are.
LEMMA SettersKept ==
  ASSUME NEW t \in Threads, SameSetters
  PROVE  Setters(t)' = Setters(t) /\ (Own(t)' <=> Own(t))
BY Zenon DEF SameSetters, Setters, Own

\* ... and the agreement with them.
LEMMA RequestKept ==
  ASSUME RequestAgrees, SameSetters, UNCHANGED stop_vars
  PROVE  RequestAgrees'
<1>1. ASSUME NEW t \in Threads PROVE RequestAt(t)'
  BY Zenon, SettersKept, Agrees DEF RequestAt, stop_vars
<1> QED
  BY Zenon, <1>1, AgreesNext

\* The callback is taken out of its slot together with its request.
LEMMA CallbackRuns ==
  ASSUME TypeInv, RequestAgrees, SameSetters, NEW t \in Threads,
         pc[t] # "cb_request", safepoint_callback[t], RunCallback(t)
  PROVE  /\ RequestAgrees' /\ request' \in [Threads -> 0 .. RequestModulus - 1]
         /\ safepoint_callback' \in [Threads -> BOOLEAN]
<1> DEFINE r == (request[t] + RequestModulus - 1) % RequestModulus
<1>1. request[t] \in Nat /\ request[t] + RequestModulus - 1 \in Int
  BY ModulusPositive DEF TypeInv
<1>2. r \in 0 .. RequestModulus - 1
  BY Zenon, <1>1, ModulusPositive, Quotient
<1>3. /\ request' = [request EXCEPT ![t] = r]
      /\ safepoint_callback' = [safepoint_callback EXCEPT ![t] = FALSE]
  BY Zenon DEF RunCallback
<1>4. /\ request' \in [Threads -> 0 .. RequestModulus - 1]
      /\ safepoint_callback' \in [Threads -> BOOLEAN]
      /\ request'[t] = r /\ ~safepoint_callback'[t]
  BY Zenon, <1>2, <1>3 DEF TypeInv
<1>5. \A s \in Threads \ {t} :
        request'[s] = request[s] /\ safepoint_callback'[s] = safepoint_callback[s]
  BY Zenon, <1>3 DEF TypeInv
<1>6. RequestAt(t)'
  <2> DEFINE c == Cardinality(Setters(t))
  <2>1. c \in Nat /\ Cardinality(Setters(t)') = c
    BY Zenon, SettersFinite, SettersKept
  <2>2. (request[t] + c) % RequestModulus = 1
    BY Zenon, Agrees DEF RequestAt, Own
  <2> HIDE DEF c
  <2>3. (r + c) % RequestModulus = (request[t] + RequestModulus - 1 + c) % RequestModulus
    BY <1>1, <2>1, ModShift
  <2>4. \A a \in Int : a = request[t] + c => (a + RequestModulus - 1) % RequestModulus = 0
    BY Zenon, <2>2, OneLess
  <2>5. /\ request[t] + RequestModulus - 1 + c = (request[t] + c) + RequestModulus - 1
        /\ request[t] + c \in Int
    BY <1>1, <2>1, ModulusPositive
  <2>6. (r + c) % RequestModulus = 0
    BY Zenon, <2>3, <2>4, <2>5
  <2> HIDE DEF r
  <2> QED
    BY Zenon, <1>4, <2>1, <2>6 DEF RequestAt
<1> HIDE DEF r
<1>7. ASSUME NEW s \in Threads \ {t} PROVE RequestAt(s)'
  BY Zenon, <1>5, SettersKept, Agrees DEF RequestAt
<1> QED
  BY Zenon, <1>4, <1>6, <1>7, AgreesNext

\* A safe point runs the callback that is set, or does nothing.
LEMMA CallbackPasses ==
  ASSUME TypeInv, RequestAgrees, SameSetters, NEW t \in Threads,
         pc[t] # "cb_request", PassCallback(t)
  PROVE  /\ RequestAgrees' /\ request' \in [Threads -> 0 .. RequestModulus - 1]
         /\ safepoint_callback' \in [Threads -> BOOLEAN]
<1>1. CASE safepoint_callback[t]
  BY Zenon, <1>1, CallbackRuns DEF PassCallback
<1>2. CASE ~safepoint_callback[t]
  BY Zenon, <1>2, RequestKept DEF PassCallback, stop_vars, TypeInv
<1> QED
  BY Zenon, <1>1, <1>2

\* hythread_set_safepoint_callback takes the slot: one setter more.
LEMMA CallbackIsSet ==
  ASSUME IInv, NEW u \in Threads, NEW t \in Threads, set_callback(u, t)
  PROVE  RequestAgrees'
<1>1. /\ TypeInv /\ RequestAgrees /\ pc[u] = "run" /\ ~safepoint_callback[t] /\ OwnSlot
      /\ safepoint_callback' = [safepoint_callback EXCEPT ![t] = TRUE] /\ request' = request
      /\ target' = [target EXCEPT ![u] = t] /\ Goto(u, "cb_request")
  BY Zenon DEF IInv, set_callback, Does
<1>2. \A s \in Threads : /\ pc'[s] = IF s = u THEN "cb_request" ELSE pc[s]
                         /\ target'[s] = IF s = u THEN t ELSE target[s]
                         /\ safepoint_callback'[s] = IF s = t THEN TRUE ELSE safepoint_callback[s]
  BY Zenon, <1>1 DEF TypeInv, Goto
<1>3. \A s \in Threads \ {t} : /\ Setters(s)' = Setters(s) /\ (Own(s)' <=> Own(s))
                               /\ safepoint_callback'[s] = safepoint_callback[s]
  <2> TAKE s \in Threads \ {t}
  <2>1. Setters(s)' = Setters(s)
    BY Zenon, <1>1, <1>2 DEF Setters
  <2>2. Own(s)' <=> Own(s)
    BY Zenon, <1>1, <1>2 DEF Own
  <2> QED
    BY Zenon, <1>2, <2>1, <2>2
<1>4. ASSUME NEW s \in Threads \ {t} PROVE RequestAt(s)'
  BY Zenon, <1>1, <1>3, Agrees DEF RequestAt
<1>5. RequestAt(t)'
  <2> DEFINE c == Cardinality(Setters(t))
  <2>1. c \in Nat /\ request[t] \in Nat /\ (request[t] + c) % RequestModulus = 0
    BY <1>1, SettersFinite, Agrees DEF RequestAt, TypeInv
  <2>2. CASE u = t
    <3>1. Setters(t)' = Setters(t) /\ Own(t)'
      BY Zenon, <1>1, <1>2, <2>2 DEF Setters, Own
    <3> QED
      BY Zenon, <1>1, <2>1, <3>1 DEF RequestAt
  <2>3. CASE u # t
    <3>1. Setters(t)' = Setters(t) \cup {u} /\ u \notin Setters(t) /\ safepoint_callback'[t]
      BY Zenon, <1>1, <1>2, <2>3 DEF Setters
    <3>2. ~Own(t)'
      <4>1. Own(t)' => Own(t)
        BY Zenon, <1>2, <2>3 DEF Own
      <4> QED
        BY Zenon, <1>1, <4>1 DEF OwnSlot, Own
    <3>3. Cardinality(Setters(t)') = c + 1
      BY Zenon, <3>1, SettersFinite, FS_AddElement
    <3> HIDE DEF c
    <3>4. \A a \in Int : a = request[t] + c => (a + 1) % RequestModulus = 1
      BY Zenon, <2>1, OneMore
    <3>5. (request[t] + (c + 1)) % RequestModulus = 1
      <4>1. request[t] + (c + 1) = (request[t] + c) + 1 /\ request[t] + c \in Int
        BY <2>1
      <4> QED
        BY Zenon, <3>4, <4>1
    <3> QED
      BY Zenon, <1>1, <3>1, <3>2, <3>3, <3>5 DEF RequestAt
  <2> QED
    BY Zenon, <2>2, <2>3
<1> QED
  BY Zenon, <1>4, <1>5, AgreesNext

\* ... and then requests it: one setter less, one request more.
LEMMA CallbackIsRequested ==
  ASSUME IInv, NEW u \in Threads, callback_request(u)
  PROVE  /\ RequestAgrees' /\ OwnSlot' /\ request' \in [Threads -> 0 .. RequestModulus - 1]
         /\ safepoint_callback' \in [Threads -> BOOLEAN]
<1>1. /\ TypeInv /\ RequestAgrees /\ OwnSlot /\ pc[u] = "cb_request" /\ target' = target
      /\ target[u] \in Threads
  BY Zenon DEF IInv, callback_request, TypeInv
<1>2. PICK l \in {"st_state", "cb_waits"} : Goto(u, l)
  BY Zenon DEF callback_request
<1>3. \A s \in Threads : pc'[s] = IF s = u THEN l ELSE pc[s]
  BY Zenon, <1>1, <1>2 DEF TypeInv, Goto
<1>4. CASE target[u] = u
  <2>1. /\ safepoint_callback' = [safepoint_callback EXCEPT ![u] = FALSE] /\ request' = request
    BY Zenon, <1>4 DEF callback_request
  <2>2. \A s \in Threads : safepoint_callback'[s] = IF s = u THEN FALSE ELSE safepoint_callback[s]
    BY Zenon, <1>1, <2>1 DEF TypeInv
  <2>3. ASSUME NEW s \in Threads PROVE Setters(s)' = Setters(s)
    BY Zenon, <1>1, <1>3, <1>4 DEF Setters
  <2>4. ASSUME NEW s \in Threads \ {u} PROVE Own(s)' <=> Own(s)
    BY Zenon, <1>1, <1>3 DEF Own
  <2>5. Own(u)
    BY Zenon, <1>1, <1>4 DEF Own
  <2>6. ASSUME NEW s \in Threads PROVE RequestAt(s)'
    <3>1. RequestAt(s)
      BY Zenon, <1>1, Agrees
    <3>2. CASE s = u
      BY Zenon, <2>1, <2>2, <2>3, <2>5, <3>1, <3>2 DEF RequestAt
    <3>3. CASE s # u
      BY Zenon, <2>1, <2>2, <2>3, <2>4, <3>1, <3>3 DEF RequestAt
    <3> QED
      BY Zenon, <3>2, <3>3
  <2>7. RequestAgrees'
    BY Zenon, <2>6, AgreesNext
  <2>8. OwnSlot'
    BY Zenon, <1>1, <1>3, <2>2 DEF OwnSlot
  <2> QED
    BY Zenon, <1>1, <2>1, <2>7, <2>8 DEF TypeInv
<1>5. CASE target[u] # u
  <2>0. PICK t \in Threads : t = target[u]
    BY Zenon, <1>1
  <2> DEFINE r == (request[t] + 1) % RequestModulus
  <2>1. request' = [request EXCEPT ![t] = r] /\ safepoint_callback' = safepoint_callback
    BY Zenon, <1>5, <2>0 DEF callback_request
  <2>2. r \in 0 .. RequestModulus - 1 /\ request[t] \in Nat
    <3>1. request[t] \in Nat /\ request[t] + 1 \in Int
      BY <1>1, ModulusPositive DEF TypeInv
    <3> QED
      BY Zenon, <3>1, ModulusPositive, Quotient
  <2>3. /\ request' \in [Threads -> 0 .. RequestModulus - 1] /\ request'[t] = r
        /\ \A s \in Threads \ {t} : request'[s] = request[s]
    BY Zenon, <1>1, <2>1, <2>2 DEF TypeInv
  <2>4. ASSUME NEW s \in Threads PROVE Own(s)' <=> Own(s)
    BY Zenon, <1>1, <1>3, <1>5 DEF Own
  <2>5. ASSUME NEW s \in Threads \ {t} PROVE RequestAt(s)'
    <3>1. Setters(s)' = Setters(s)
      BY Zenon, <1>1, <1>3, <2>0 DEF Setters
    <3>2. RequestAt(s)
      BY Zenon, <1>1, Agrees
    <3> QED
      BY Zenon, <2>1, <2>3, <2>4, <3>1, <3>2 DEF RequestAt
  <2>6. RequestAt(t)'
    <3> DEFINE c == Cardinality(Setters(t))
    <3>1. Setters(t)' = Setters(t) \ {u} /\ u \in Setters(t)
      BY Zenon, <1>1, <1>3, <1>5, <2>0 DEF Setters
    <3>2. c \in Nat /\ Cardinality(Setters(t)') = c - 1
      BY Zenon, <1>1, <3>1, SettersFinite, FS_RemoveElement
    <3> HIDE DEF c
    <3>3. request[t] + 1 \in Int /\ c - 1 \in Int /\ (request[t] + 1) + (c - 1) = request[t] + c
      BY <2>2, <3>2
    <3>4. \A a, d \in Int : ((a % RequestModulus) + d) % RequestModulus = (a + d) % RequestModulus
      BY Zenon, ModShift
    <3>5. (r + (c - 1)) % RequestModulus = (request[t] + c) % RequestModulus
      BY Zenon, <3>3, <3>4
    <3>6. RequestAt(t) /\ (Own(t)' <=> Own(t))
      BY Zenon, <1>1, <2>4, Agrees
    <3> HIDE DEF r
    <3> QED
      BY Zenon, <2>1, <2>3, <3>2, <3>5, <3>6 DEF RequestAt, c
  <2>7. RequestAgrees'
    BY Zenon, <2>5, <2>6, AgreesNext
  <2>8. OwnSlot'
    BY Zenon, <1>1, <1>3, <2>1 DEF OwnSlot
  <2> QED
    BY Zenon, <1>1, <2>1, <2>3, <2>7, <2>8 DEF TypeInv
<1> QED
  BY Zenon, <1>4, <1>5

-----------------------------------------------------------------------------
(* Steps that leave the monitors alone *)

\* What a step may do to the place of t: nothing, move it outside of all waits, or wake it.
Moves(t) ==
    \/ pc'[t] = pc[t] /\ mon'[t] = mon[t]
    \/ ~InWait(t) /\ ~InWait(t)' /\ (pc'[t] = "it_try" => mon'[t] \in Monitors)
    \/ pc[t] = "cv_asleep" /\ pc'[t] = "cv_woken" /\ mon'[t] = mon[t]

\* Steps inside the waiting loops, and wake-ups, leave every wait in its place.
LEMMA MovesKeep ==
  ASSUME IInv, UNCHANGED <<mutex, owner, wait_count, call>>,
         \A t \in Threads : Moves(t),
         \A m \in Monitors, t \in Threads : t \in cond'[m] <=> t \in cond[m] /\ pc'[t] = "cv_asleep"
  PROVE  /\ PlaceInv' /\ SleepInv' /\ OwnerHoldsMutex'
         /\ \A m \in Monitors : Waiters(m)' = Waiters(m)
         /\ \A t \in Threads : pc'[t] = "cv_check" => pc[t] = "cv_check" /\ mon'[t] = mon[t]
<1>1. PlaceInv /\ SleepInv /\ OwnerHoldsMutex
  BY Zenon DEF IInv
<1>2. PlaceInv'
  BY Zenon, <1>1 DEF PlaceInv, Moves, InWait, Counted
<1>3. SleepInv'
  BY Zenon, <1>1 DEF SleepInv, Moves, InWait, Counted
<1>4. OwnerHoldsMutex'
  BY <1>1 DEF OwnerHoldsMutex, Moves, InWait, Counted
<1>5. ASSUME NEW m \in Monitors PROVE Waiters(m)' = Waiters(m)
  BY Zenon DEF Waiters, Moves, InWait, Counted
<1>6. \A t \in Threads : pc'[t] = "cv_check" => pc[t] = "cv_check" /\ mon'[t] = mon[t]
  BY Zenon DEF Moves, InWait, Counted
<1> QED
  BY Zenon, <1>2, <1>3, <1>4, <1>5, <1>6

\* ... and, when they take no notification, leave the counts as they are.
LEMMA MovesCount ==
  ASSUME IInv, UNCHANGED <<mutex, owner, wait_count, notify_count, call>>,
         \A t \in Threads : Moves(t),
         \A m \in Monitors, t \in Threads : t \in cond'[m] <=> t \in cond[m] /\ pc'[t] = "cv_asleep"
  PROVE  PlaceInv' /\ SleepInv' /\ OwnerHoldsMutex' /\ NotificationsBounded' /\ OwnUnnotified'
<1>1. /\ PlaceInv' /\ SleepInv' /\ OwnerHoldsMutex'
      /\ \A m \in Monitors : Waiters(m)' = Waiters(m)
      /\ \A t \in Threads : pc'[t] = "cv_check" => pc[t] = "cv_check" /\ mon'[t] = mon[t]
  BY Zenon, MovesKeep
<1>2. NotificationsBounded'
  BY Zenon, <1>1 DEF IInv, NotificationsBounded
<1>3. OwnUnnotified'
  BY Zenon DEF IInv, OwnUnnotified
<1> QED
  BY Zenon, <1>1, <1>2, <1>3
Outside == {"run", "up_notify", "it_set", "it_read", "it_try", "cb_request", "cb_waits", "st_state"}

\* A step of a thread that is in no wait.
LEMMA OutsideStep ==
  ASSUME IInv, NEW u \in Threads, NEW l \in Outside, pc[u] \in Outside, Goto(u, l),
         UNCHANGED <<mutex, owner, wait_count, notify_count, cond, call>>,
         \A t \in Threads \ {u} : mon'[t] = mon[t],
         l = "it_try" => mon'[u] \in Monitors
  PROVE  /\ PlaceInv' /\ SleepInv' /\ OwnerHoldsMutex' /\ NotificationsBounded' /\ OwnUnnotified'
         /\ pc' \in [Threads -> Labels] /\ pc'[u] = l /\ \A t \in Threads \ {u} : pc'[t] = pc[t]
<1>1. TypeInv /\ SleepInv
  BY Zenon DEF IInv
<1>2. pc' \in [Threads -> Labels] /\ pc'[u] = l /\ \A t \in Threads \ {u} : pc'[t] = pc[t]
  BY Zenon, <1>1 DEF TypeInv, Goto, Labels, Outside
<1>3. \A t \in Threads : Moves(t)
  BY Zenon, <1>2 DEF Moves, InWait, Counted, Outside
<1>4. \A m \in Monitors, t \in Threads : t \in cond'[m] <=> t \in cond[m] /\ pc'[t] = "cv_asleep"
  BY <1>1, <1>2 DEF SleepInv, Outside
<1> QED
  BY Zenon, <1>2, <1>3, <1>4, MovesCount

\* hythread_unpark finds its target parked, or leaves it a permit.
LEMMA UnparkInv ==
  ASSUME IInv, NEW u \in Threads, NEW t \in Threads, hythread_unpark(u, t)
  PROVE  IInv'
<1>1. /\ TypeInv /\ RequestAgrees /\ OwnSlot /\ pc[u] = "run"
      /\ UNCHANGED <<mutex, monitor_vars, cond, waited_monitor, stop_vars, local_vars, ret>>
  BY Zenon DEF IInv, hythread_unpark, Does
<1>2. PICK l \in {"run", "up_notify"} : Goto(u, l)
  BY Zenon, <1>1 DEF hythread_unpark, Goto, TypeInv
<1>3. /\ target' \in [Threads -> Threads] /\ \A s \in Threads : s # u => target'[s] = target[s]
  BY Zenon, <1>1 DEF hythread_unpark, TypeInv
<1>4. /\ PlaceInv' /\ SleepInv' /\ OwnerHoldsMutex' /\ NotificationsBounded' /\ OwnUnnotified'
      /\ pc' \in [Threads -> Labels] /\ pc'[u] = l /\ \A s \in Threads \ {u} : pc'[s] = pc[s]
  BY Zenon, <1>1, <1>2, OutsideStep DEF Outside, monitor_vars, local_vars
<1>5. TypeInv'
  BY Zenon, <1>1, <1>3, <1>4 DEF TypeInv, monitor_vars, local_vars, stop_vars
<1>6. SameSetters
  BY Zenon, <1>1, <1>3, <1>4 DEF SameSetters
<1>7. RequestAgrees'
  BY Zenon, <1>1, <1>6, RequestKept
<1>8. OwnSlot'
  BY Zenon, <1>1, <1>6 DEF OwnSlot, SameSetters, stop_vars
<1> QED
  BY Zenon, <1>4, <1>5, <1>7, <1>8 DEF IInv

\* hythread_interrupt begins.
LEMMA InterruptInv ==
  ASSUME IInv, NEW u \in Threads, NEW t \in Threads, hythread_interrupt(u, t)
  PROVE  IInv'
<1>1. /\ TypeInv /\ RequestAgrees /\ OwnSlot /\ pc[u] = "run" /\ Goto(u, "it_set")
      /\ target' = [target EXCEPT ![u] = t] /\ ret' = [ret EXCEPT ![u] = "run"]
      /\ UNCHANGED <<mutex, monitor_vars, cond, thread_vars, stop_vars, local_vars>>
  BY Zenon DEF IInv, hythread_interrupt, Does
<1>2. /\ PlaceInv' /\ SleepInv' /\ OwnerHoldsMutex' /\ NotificationsBounded' /\ OwnUnnotified'
      /\ pc' \in [Threads -> Labels] /\ pc'[u] = "it_set" /\ \A s \in Threads \ {u} : pc'[s] = pc[s]
  BY Zenon, <1>1, OutsideStep DEF Outside, monitor_vars, local_vars
<1>3. /\ target' \in [Threads -> Threads] /\ ret' \in [Threads -> {"run", "st_state"}]
      /\ \A s \in Threads : s # u => target'[s] = target[s]
  BY Zenon, <1>1 DEF TypeInv
<1>4. TypeInv'
  BY Zenon, <1>1, <1>2, <1>3 DEF TypeInv, monitor_vars, local_vars, stop_vars, thread_vars
<1>5. SameSetters
  BY Zenon, <1>1, <1>2, <1>3 DEF SameSetters
<1>6. RequestAgrees'
  BY Zenon, <1>1, <1>5, RequestKept
<1>7. OwnSlot'
  BY Zenon, <1>1, <1>5 DEF OwnSlot, SameSetters, stop_vars
<1> QED
  BY Zenon, <1>2, <1>4, <1>6, <1>7 DEF IInv

\* interrupt_set, callback_waits and stop_state: what they read decides where they go.
LEMMA WakerMovesInv ==
  ASSUME IInv, NEW u \in Threads, interrupt_set(u) \/ callback_waits(u) \/ stop_state(u)
  PROVE  IInv'
<1>1. /\ TypeInv /\ RequestAgrees /\ OwnSlot /\ pc[u] \in {"it_set", "cb_waits", "st_state"}
      /\ UNCHANGED <<mutex, monitor_vars, cond, waited_monitor, stop_vars, local_vars, target>>
      /\ ret' \in [Threads -> {"run", "st_state"}]
  BY DEF IInv, interrupt_set, callback_waits, stop_state, thread_vars, TypeInv
<1>2. PICK l \in {"it_set", "it_read", "st_state", "run"} : Goto(u, l)
  BY Zenon DEF interrupt_set, callback_waits, stop_state
<1>3. /\ PlaceInv' /\ SleepInv' /\ OwnerHoldsMutex' /\ NotificationsBounded' /\ OwnUnnotified'
      /\ pc' \in [Threads -> Labels] /\ pc'[u] = l /\ \A s \in Threads \ {u} : pc'[s] = pc[s]
  BY Zenon, <1>1, <1>2, OutsideStep DEF Outside, monitor_vars, local_vars
<1>4. TypeInv'
  BY Zenon, <1>1, <1>3 DEF TypeInv, monitor_vars, local_vars, stop_vars
<1>5. SameSetters
  BY Zenon, <1>1, <1>3 DEF SameSetters
<1>6. RequestAgrees'
  BY Zenon, <1>1, <1>5, RequestKept
<1>7. OwnSlot'
  BY Zenon, <1>1, <1>5 DEF OwnSlot, SameSetters, stop_vars
<1> QED
  BY Zenon, <1>3, <1>4, <1>6, <1>7 DEF IInv

\* It reads the monitor that its target waits on.
LEMMA InterruptReadInv ==
  ASSUME IInv, NEW u \in Threads, interrupt_read(u)
  PROVE  IInv'
<1> DEFINE l == IF waited_monitor[target[u]] = NoMonitor THEN ret[u] ELSE "it_try"
<1>1. /\ TypeInv /\ RequestAgrees /\ OwnSlot /\ pc[u] = "it_read" /\ Goto(u, l)
      /\ mon' = [mon EXCEPT ![u] = waited_monitor[target[u]]]
      /\ UNCHANGED <<mutex, monitor_vars, cond, thread_vars, stop_vars, call, target, ret>>
  BY Zenon DEF IInv, interrupt_read
<1>2. /\ l \in {"run", "st_state", "it_try"}
      /\ (l = "it_try" => waited_monitor[target[u]] \in Monitors)
  BY Zenon, <1>1 DEF TypeInv
<1>3. /\ mon' \in [Threads -> Monitors \cup {NoMonitor}] /\ mon'[u] = waited_monitor[target[u]]
      /\ \A t \in Threads \ {u} : mon'[t] = mon[t]
  BY Zenon, <1>1 DEF TypeInv
<1> HIDE DEF l
<1>4. /\ PlaceInv' /\ SleepInv' /\ OwnerHoldsMutex' /\ NotificationsBounded' /\ OwnUnnotified'
      /\ pc' \in [Threads -> Labels] /\ pc'[u] = l /\ \A s \in Threads \ {u} : pc'[s] = pc[s]
  BY Zenon, <1>1, <1>2, <1>3, OutsideStep DEF Outside, monitor_vars
<1>5. TypeInv'
  BY Zenon, <1>1, <1>3, <1>4 DEF TypeInv, monitor_vars, thread_vars, stop_vars
<1>6. SameSetters
  BY Zenon, <1>1, <1>2, <1>4 DEF SameSetters
<1>7. RequestAgrees'
  BY Zenon, <1>1, <1>6, RequestKept
<1>8. OwnSlot'
  BY Zenon, <1>1, <1>6 DEF OwnSlot, SameSetters, stop_vars
<1> QED
  BY Zenon, <1>4, <1>5, <1>7, <1>8 DEF IInv

\* The stop callback of the target is set.
LEMMA SetCallbackInv ==
  ASSUME IInv, NEW u \in Threads, NEW t \in Threads, set_callback(u, t)
  PROVE  IInv'
<1>1. /\ TypeInv /\ OwnSlot /\ pc[u] = "run" /\ Goto(u, "cb_request")
      /\ safepoint_callback' = [safepoint_callback EXCEPT ![t] = TRUE]
      /\ target' = [target EXCEPT ![u] = t]
      /\ UNCHANGED <<mutex, monitor_vars, cond, thread_vars, request, local_vars, ret>>
  BY Zenon DEF IInv, set_callback, Does
<1>2. /\ PlaceInv' /\ SleepInv' /\ OwnerHoldsMutex' /\ NotificationsBounded' /\ OwnUnnotified'
      /\ pc' \in [Threads -> Labels] /\ pc'[u] = "cb_request"
      /\ \A s \in Threads \ {u} : pc'[s] = pc[s]
  BY Zenon, <1>1, OutsideStep DEF Outside, monitor_vars, local_vars
<1>3. /\ target' \in [Threads -> Threads] /\ safepoint_callback' \in [Threads -> BOOLEAN]
      /\ target'[u] = t /\ \A s \in Threads : s # u => target'[s] = target[s]
  BY Zenon, <1>1 DEF TypeInv
<1>4. safepoint_callback'[t] /\ \A s \in Threads : safepoint_callback[s] => safepoint_callback'[s]
  BY Zenon, <1>1 DEF TypeInv
<1>5. TypeInv'
  BY Zenon, <1>1, <1>2, <1>3 DEF TypeInv, monitor_vars, local_vars, thread_vars
<1>6. OwnSlot'
  BY <1>1, <1>2, <1>3, <1>4 DEF OwnSlot
<1> QED
  BY Zenon, <1>2, <1>5, <1>6, CallbackIsSet DEF IInv

\* ... and requested.
LEMMA CallbackRequestInv ==
  ASSUME IInv, NEW u \in Threads, callback_request(u)
  PROVE  IInv'
<1>1. /\ TypeInv /\ pc[u] = "cb_request"
      /\ UNCHANGED <<mutex, monitor_vars, cond, thread_vars, local_vars, target, ret>>
  BY Zenon DEF IInv, callback_request
<1>2. PICK l \in {"st_state", "cb_waits"} : Goto(u, l)
  BY Zenon DEF callback_request
<1>3. /\ PlaceInv' /\ SleepInv' /\ OwnerHoldsMutex' /\ NotificationsBounded' /\ OwnUnnotified'
      /\ pc' \in [Threads -> Labels]
  BY Zenon, <1>1, <1>2, OutsideStep DEF Outside, monitor_vars, local_vars
<1>4. /\ RequestAgrees' /\ OwnSlot' /\ request' \in [Threads -> 0 .. RequestModulus - 1]
      /\ safepoint_callback' \in [Threads -> BOOLEAN]
  BY Zenon, CallbackIsRequested
<1>5. TypeInv'
  BY Zenon, <1>1, <1>3, <1>4 DEF TypeInv, monitor_vars, thread_vars, local_vars
<1> QED
  BY Zenon, <1>3, <1>4, <1>5 DEF IInv

\* A running thread runs its callback at an exception safe point.
LEMMA SafePointInv ==
  ASSUME IInv, NEW t \in Threads, exception_safe_point(t)
  PROVE  IInv'
<1>1. /\ TypeInv /\ RequestAgrees /\ OwnSlot
      /\ pc[t] = "run" /\ safepoint_callback[t] /\ RunCallback(t)
      /\ UNCHANGED <<mutex, monitor_vars, cond, thread_vars, pc, local_vars, target, ret>>
  BY Zenon DEF IInv, exception_safe_point
<1>2. SameSetters
  BY Zenon, <1>1 DEF SameSetters
<1>3. /\ RequestAgrees' /\ request' \in [Threads -> 0 .. RequestModulus - 1]
      /\ safepoint_callback' \in [Threads -> BOOLEAN]
  BY Zenon, <1>1, <1>2, CallbackRuns
<1>4. TypeInv'
  BY Zenon, <1>1, <1>3 DEF TypeInv, monitor_vars, thread_vars, local_vars
<1>5. \A m \in Monitors, s \in Threads : s \in cond'[m] <=> s \in cond[m] /\ pc'[s] = "cv_asleep"
  BY Zenon, <1>1 DEF IInv, SleepInv
<1>6. PlaceInv' /\ SleepInv' /\ OwnerHoldsMutex' /\ NotificationsBounded' /\ OwnUnnotified'
  <2>1. \A s \in Threads : Moves(s)
    BY Zenon, <1>1 DEF Moves, local_vars
  <2> QED
    BY Zenon, <1>1, <1>5, <2>1, MovesCount DEF monitor_vars, local_vars
<1>7. OwnSlot'
  <2>1. \A s \in Threads \ {t} : safepoint_callback'[s] = safepoint_callback[s]
    BY Zenon, <1>1 DEF RunCallback, TypeInv
  <2> QED
    BY Zenon, <1>1, <2>1 DEF OwnSlot
<1> QED
  BY Zenon, <1>3, <1>4, <1>6, <1>7 DEF IInv

-----------------------------------------------------------------------------
(* Steps that wake sleepers *)

\* The sleepers in woken leave the condition of m.
LEMMA WakeMoves ==
  ASSUME IInv, NEW m \in Monitors, NEW woken, woken \subseteq cond[m], Wake(m, woken), mon' = mon
  PROVE  /\ pc' \in [Threads -> Labels] /\ cond' \in [Monitors -> SUBSET Threads]
         /\ SameSetters \/ target' # target
         /\ \A t \in Threads : Moves(t)
         /\ \A n \in Monitors, t \in Threads :
              t \in cond'[n] <=> t \in cond[n] /\ pc'[t] = "cv_asleep"
<1>1. TypeInv /\ SleepInv
  BY Zenon DEF IInv
<1>2. \A t \in woken : t \in Threads /\ pc[t] = "cv_asleep" /\ mon[t] = m
  BY Zenon, <1>1 DEF TypeInv, SleepInv
<1>3. /\ pc' = [t \in Threads |-> IF t \in woken THEN "cv_woken" ELSE pc[t]]
      /\ cond' = [cond EXCEPT ![m] = @ \ woken]
  BY Zenon DEF Wake
<1>4. pc' \in [Threads -> Labels]
  BY Zenon, <1>1, <1>3 DEF TypeInv, Labels
<1>5. /\ cond' \in [Monitors -> SUBSET Threads]
      /\ \A n \in Monitors : cond'[n] = IF n = m THEN cond[m] \ woken ELSE cond[n]
  BY Zenon, <1>1, <1>3 DEF TypeInv
<1>6. \A t \in Threads : Moves(t)
  BY Zenon, <1>2, <1>3 DEF Moves
<1>7. \A n \in Monitors, t \in Threads : t \in cond'[n] <=> t \in cond[n] /\ pc'[t] = "cv_asleep"
  BY <1>1, <1>2, <1>3, <1>5 DEF SleepInv
<1>8. SameSetters \/ target' # target
  BY Zenon, <1>2, <1>3 DEF SameSetters
<1> QED
  BY Zenon, <1>4, <1>5, <1>6, <1>7, <1>8

\* The steps that wake sleepers and do nothing else to the monitors.
LEMMA WakeInv ==
  ASSUME IInv, NEW m \in Monitors, NEW woken, woken \subseteq cond[m], Wake(m, woken),
         UNCHANGED <<mutex, monitor_vars, thread_vars, stop_vars, call, mon, target, ret>>
  PROVE  IInv'
<1>1. TypeInv /\ RequestAgrees /\ OwnSlot
  BY Zenon DEF IInv
<1>2. /\ pc' \in [Threads -> Labels] /\ cond' \in [Monitors -> SUBSET Threads] /\ SameSetters
      /\ \A t \in Threads : Moves(t)
      /\ \A n \in Monitors, t \in Threads : t \in cond'[n] <=> t \in cond[n] /\ pc'[t] = "cv_asleep"
  BY Zenon, WakeMoves
<1>3. PlaceInv' /\ SleepInv' /\ OwnerHoldsMutex' /\ NotificationsBounded' /\ OwnUnnotified'
  BY Zenon, <1>2, MovesCount DEF monitor_vars
<1>4. TypeInv'
  BY Zenon, <1>1, <1>2 DEF TypeInv, monitor_vars, thread_vars, stop_vars
<1>5. RequestAgrees'
  BY Zenon, <1>1, <1>2, RequestKept
<1>6. OwnSlot'
  BY Zenon, <1>1, <1>2 DEF OwnSlot, SameSetters, stop_vars
<1> QED
  BY Zenon, <1>3, <1>4, <1>5, <1>6 DEF IInv

\* A sleep ends by its timeout, or for no reason.
LEMMA EndSleepInv ==
  ASSUME IInv, NEW t \in Threads, condvar_timeout(t) \/ condvar_spurious(t)
  PROVE  IInv'
<1>1. /\ pc[t] = "cv_asleep" /\ Wake(mon[t], {t})
      /\ UNCHANGED <<mutex, monitor_vars, thread_vars, stop_vars, call, mon, target, ret>>
  BY Zenon DEF condvar_timeout, condvar_spurious, local_vars
<1>2. mon[t] \in Monitors /\ {t} \subseteq cond[mon[t]]
  BY <1>1 DEF IInv, PlaceInv, SleepInv, InWait, Counted, Monitors
<1> QED
  BY Zenon, <1>1, <1>2, WakeInv

\* The interrupter thread wakes everybody in the condition of m.
LEMMA InterrupterInv ==
  ASSUME IInv, NEW m \in Monitors, hythread_interrupter(m)
  PROVE  IInv'
<1>1. /\ Wake(m, cond[m])
      /\ UNCHANGED <<mutex, monitor_vars, thread_vars, stop_vars, call, mon, target, ret>>
  BY Zenon DEF hythread_interrupter, local_vars
<1> QED
  BY Zenon, <1>1, WakeInv

\* monitor_notify and monitor_notify_all: the owner holds the mutex, so nobody is at the
\* head of a waiting loop.
LEMMA NotifyInv ==
  ASSUME IInv, NEW t \in Threads, NEW m \in Objects,
         monitor_notify(t, m) \/ monitor_notify_all(t, m)
  PROVE  IInv'
<1>1. /\ TypeInv /\ RequestAgrees /\ OwnSlot /\ OwnUnnotified /\ OwnerHoldsMutex
      /\ NotificationsBounded /\ m \in Monitors /\ owner[m] = t
      /\ UNCHANGED <<mutex, owner, wait_count, thread_vars, stop_vars, local_vars, target, ret>>
  BY Zenon DEF IInv, monitor_notify, monitor_notify_all, Monitors
<1>2. PICK woken : woken \subseteq cond[m] /\ Wake(m, woken)
  BY Zenon DEF monitor_notify, monitor_notify_all
<1>3. /\ pc' \in [Threads -> Labels] /\ cond' \in [Monitors -> SUBSET Threads] /\ SameSetters
      /\ \A s \in Threads : Moves(s)
      /\ \A n \in Monitors, s \in Threads : s \in cond'[n] <=> s \in cond[n] /\ pc'[s] = "cv_asleep"
  BY Zenon, <1>1, <1>2, WakeMoves DEF local_vars
<1>4. PICK k \in Nat : k <= wait_count[m] /\ notify_count' = [notify_count EXCEPT ![m] = k]
  <2>1. wait_count[m] \in Nat /\ notify_count[m] \in Nat /\ notify_count[m] <= wait_count[m]
    BY Zenon, <1>1 DEF TypeInv, NotificationsBounded
  <2>2. CASE monitor_notify_all(t, m)
    <3>1. /\ wait_count[m] <= wait_count[m]
          /\ notify_count' = [notify_count EXCEPT ![m] = wait_count[m]]
      BY <2>1, <2>2 DEF monitor_notify_all
    <3> QED
      BY Zenon, <2>1, <3>1
  <2>3. CASE monitor_notify(t, m)
    <3> DEFINE k == IF notify_count[m] < wait_count[m] THEN notify_count[m] + 1 ELSE notify_count[m]
    <3>1. k \in Nat /\ k <= wait_count[m]
      BY <2>1
    <3>2. notify_count' = [notify_count EXCEPT ![m] = k]
      BY Zenon, <1>1, <2>3 DEF monitor_notify, TypeInv
    <3> QED
      BY Zenon, <3>1, <3>2
  <2> QED
    BY Zenon, <2>2, <2>3
<1>5. /\ notify_count' \in [Monitors -> Nat] /\ notify_count'[m] = k
      /\ \A n \in Monitors \ {m} : notify_count'[n] = notify_count[n]
  BY Zenon, <1>1, <1>4 DEF TypeInv
<1>6. TypeInv'
  BY Zenon, <1>1, <1>3, <1>5 DEF TypeInv, thread_vars, stop_vars, local_vars
<1>7. /\ PlaceInv' /\ SleepInv' /\ OwnerHoldsMutex'
      /\ \A n \in Monitors : Waiters(n)' = Waiters(n)
      /\ \A s \in Threads : pc'[s] = "cv_check" => pc[s] = "cv_check" /\ mon'[s] = mon[s]
  BY Zenon, <1>1, <1>3, MovesKeep DEF local_vars
<1>8. \A s \in Threads : pc[s] = "cv_check" => mon[s] # m /\ mon[s] \in Monitors
  BY <1>1, NamesAssumption DEF OwnerHoldsMutex, IInv, PlaceInv, InWait, Counted, Monitors
<1>9. NotificationsBounded'
  BY <1>1, <1>4, <1>5, <1>7, <1>8 DEF NotificationsBounded
<1>10. OwnUnnotified'
  BY Zenon, <1>1, <1>5, NamesAssumption DEF OwnUnnotified, Monitors
<1>11. RequestAgrees'
  BY Zenon, <1>1, <1>3, RequestKept
<1>12. OwnSlot'
  BY Zenon, <1>1, <1>3 DEF OwnSlot, SameSetters, stop_vars
<1> QED
  BY Zenon, <1>6, <1>7, <1>9, <1>10, <1>11, <1>12 DEF IInv

\* A waker that empties the condition of m and goes on.
LEMMA WakeAllInv ==
  ASSUME IInv, NEW u \in Threads, NEW m \in Monitors, NEW l \in {"run", "st_state"},
         pc[u] \in {"up_notify", "it_try"},
         cond' = [cond EXCEPT ![m] = {}],
         pc' = [t \in Threads |-> IF t = u THEN l
                                  ELSE IF t \in cond[m] THEN "cv_woken" ELSE pc[t]],
         mon' = mon \/ mon' = [mon EXCEPT ![u] = NoMonitor],
         UNCHANGED <<mutex, monitor_vars, thread_vars, stop_vars, call, target, ret>>
  PROVE  IInv'
<1>1. TypeInv /\ RequestAgrees /\ OwnSlot /\ SleepInv
  BY Zenon DEF IInv
<1>2. pc' \in [Threads -> Labels]
  BY Zenon, <1>1 DEF TypeInv, Labels
<1>3. mon' \in [Threads -> Monitors \cup {NoMonitor}] /\ \A t \in Threads \ {u} : mon'[t] = mon[t]
  BY Zenon, <1>1 DEF TypeInv
<1>4. /\ cond' \in [Monitors -> SUBSET Threads]
      /\ \A n \in Monitors : cond'[n] = IF n = m THEN {} ELSE cond[n]
  BY Zenon, <1>1 DEF TypeInv
<1>5. \A t \in Threads : t \in cond[m] => pc[t] = "cv_asleep" /\ mon[t] = m /\ t # u
  BY Zenon, <1>1 DEF SleepInv
<1>6. \A t \in Threads : Moves(t)
  BY Zenon, <1>3, <1>5 DEF Moves, InWait, Counted
<1>7. \A n \in Monitors, t \in Threads : t \in cond'[n] <=> t \in cond[n] /\ pc'[t] = "cv_asleep"
  BY <1>1, <1>4, <1>5 DEF SleepInv
<1>8. PlaceInv' /\ SleepInv' /\ OwnerHoldsMutex' /\ NotificationsBounded' /\ OwnUnnotified'
  BY Zenon, <1>6, <1>7, MovesCount DEF monitor_vars
<1>9. SameSetters
  BY Zenon, <1>5 DEF SameSetters
<1>10. TypeInv'
  BY Zenon, <1>1, <1>2, <1>3, <1>4 DEF TypeInv, monitor_vars, thread_vars, stop_vars
<1>11. RequestAgrees'
  BY Zenon, <1>1, <1>9, RequestKept
<1>12. OwnSlot'
  BY Zenon, <1>1, <1>9 DEF OwnSlot, SameSetters, stop_vars
<1> QED
  BY Zenon, <1>8, <1>10, <1>11, <1>12 DEF IInv

\* hythread_unpark wakes whoever sleeps in the monitor of its target.
LEMMA UnparkNotifyInv ==
  ASSUME IInv, NEW u \in Threads, unpark_notify(u)
  PROVE  IInv'
<1>1. PICK m \in Threads : m = target[u]
  BY Zenon DEF IInv, TypeInv
<1>2. /\ pc[u] = "up_notify" /\ cond' = [cond EXCEPT ![m] = {}] /\ m \in Monitors
      /\ pc' = [t \in Threads |-> IF t = u THEN "run"
                                  ELSE IF t \in cond[m] THEN "cv_woken" ELSE pc[t]]
      /\ mon' = mon /\ UNCHANGED <<mutex, monitor_vars, thread_vars, stop_vars, call, target, ret>>
  BY Zenon, <1>1 DEF unpark_notify, local_vars, Monitors
<1> QED
  BY Zenon, <1>2, WakeAllInv

\* hythread_interrupt wakes everybody, or has an interrupter do so that can block.
LEMMA InterruptTryInv ==
  ASSUME IInv, NEW u \in Threads, interrupt_try(u)
  PROVE  IInv'
<1>1. /\ TypeInv /\ pc[u] = "it_try" /\ ret[u] \in {"run", "st_state"}
      /\ mon' = [mon EXCEPT ![u] = NoMonitor]
      /\ UNCHANGED <<mutex, monitor_vars, thread_vars, stop_vars, call, target, ret>>
  BY Zenon DEF IInv, TypeInv, interrupt_try
<1>2. PICK m \in Monitors : m = mon[u]
  BY Zenon, <1>1 DEF IInv, PlaceInv
<1>3. CASE Free(m) \/ owner[m] = u
  <2>1. PICK l \in {"run", "st_state"} : l = ret[u]
    BY Zenon, <1>1
  <2>2. /\ cond' = [cond EXCEPT ![m] = {}]
        /\ pc' = [t \in Threads |-> IF t = u THEN l
                                    ELSE IF t \in cond[m] THEN "cv_woken" ELSE pc[t]]
    BY Zenon, <1>2, <1>3, <2>1 DEF interrupt_try
  <2> QED
    BY Zenon, <1>1, <2>2, WakeAllInv
<1>4. CASE ~(Free(m) \/ owner[m] = u)
  <2>1. RequestAgrees /\ OwnSlot /\ Goto(u, ret[u]) /\ cond' = cond
    BY Zenon, <1>2, <1>4 DEF interrupt_try, IInv
  <2>2. mon' \in [Threads -> Monitors \cup {NoMonitor}] /\ \A t \in Threads \ {u} : mon'[t] = mon[t]
    BY Zenon, <1>1 DEF TypeInv
  <2>3. /\ PlaceInv' /\ SleepInv' /\ OwnerHoldsMutex' /\ NotificationsBounded' /\ OwnUnnotified'
        /\ pc' \in [Threads -> Labels] /\ pc'[u] = ret[u] /\ \A s \in Threads \ {u} : pc'[s] = pc[s]
    <3>1. ret[u] \in Outside /\ pc[u] \in Outside /\ ret[u] # "it_try"
      BY Zenon, <1>1 DEF Outside
    <3> QED
      BY Zenon, <1>1, <2>1, <2>2, <3>1, OutsideStep DEF monitor_vars
  <2>4. TypeInv'
    BY Zenon, <1>1, <2>1, <2>2, <2>3 DEF TypeInv, monitor_vars, thread_vars, stop_vars
  <2>5. SameSetters
    BY Zenon, <1>1, <2>3 DEF SameSetters
  <2>6. RequestAgrees'
    BY Zenon, <1>1, <2>1, <2>5, RequestKept
  <2>7. OwnSlot'
    BY Zenon, <1>1, <2>1, <2>5 DEF OwnSlot, SameSetters, stop_vars
  <2> QED
    BY Zenon, <2>3, <2>4, <2>6, <2>7 DEF IInv
<1> QED
  BY Zenon, <1>3, <1>4

-----------------------------------------------------------------------------
(* Entering and leaving a monitor *)

\* A monitor is entered or left.
LEMMA MonitorEnterInv ==
  ASSUME IInv, NEW t \in Threads, NEW m \in Objects, monitor_enter(t, m) \/ monitor_exit(t, m)
  PROVE  IInv'
<1>1. /\ TypeInv /\ RequestAgrees /\ OwnSlot /\ OwnerHoldsMutex /\ m \in Monitors /\ pc[t] = "run"
      /\ UNCHANGED <<wait_count, notify_count, cond, thread_vars, stop_vars, pc,
                     local_vars, target, ret>>
  BY Zenon DEF IInv, monitor_enter, monitor_exit, Does, Monitors
<1>2. \A s \in Threads : pc[s] \in {"cv_check", "cv_sleep", "leave"} => mon[s] \in Monitors
  BY Zenon DEF IInv, PlaceInv, InWait, Counted, Monitors
<1>3. /\ mutex' \in [Monitors -> Threads \cup {NoThread}]
      /\ owner' \in [Monitors -> Threads \cup {NoThread}] /\ OwnerHoldsMutex'
  <2>1. CASE UNCHANGED <<owner, mutex>>
    BY Zenon, <1>1, <2>1 DEF TypeInv, OwnerHoldsMutex, local_vars
  <2>2. CASE Free(m) /\ mutex' = [mutex EXCEPT ![m] = t] /\ owner' = [owner EXCEPT ![m] = t]
    <3>1. \A s \in Threads : pc[s] \in {"cv_check", "cv_sleep", "leave"} => mon[s] # m
      BY <1>1, <2>2, NamesAssumption DEF OwnerHoldsMutex, Free
    <3> QED
      BY Zenon, <1>1, <1>2, <2>2, <3>1 DEF TypeInv, OwnerHoldsMutex, local_vars
  <2>3. CASE /\ owner[m] = t /\ mutex' = [mutex EXCEPT ![m] = NoThread]
             /\ owner' = [owner EXCEPT ![m] = NoThread]
    <3>1. \A s \in Threads : pc[s] \in {"cv_check", "cv_sleep", "leave"} => mon[s] # m
      BY <1>1, <2>3, NamesAssumption DEF OwnerHoldsMutex
    <3> QED
      BY Zenon, <1>1, <1>2, <2>3, <3>1 DEF TypeInv, OwnerHoldsMutex, local_vars
  <2> QED
    BY Zenon, <2>1, <2>2, <2>3 DEF monitor_enter, monitor_exit, Lock, Unlock
<1>4. TypeInv'
  BY Zenon, <1>1, <1>3 DEF TypeInv, thread_vars, stop_vars, local_vars
<1>5. PlaceInv' /\ SleepInv' /\ OwnUnnotified' /\ OwnSlot'
  BY Zenon, <1>1
     DEF IInv, PlaceInv, SleepInv, OwnUnnotified, OwnSlot, InWait, Counted, local_vars, stop_vars
<1>6. \A n \in Monitors : Waiters(n)' = Waiters(n)
  BY Zenon, <1>1 DEF Waiters, local_vars
<1>7. NotificationsBounded'
  BY Zenon, <1>1, <1>6 DEF IInv, NotificationsBounded, local_vars
<1>8. RequestAgrees'
  BY Zenon, <1>1, RequestKept DEF SameSetters
<1> QED
  BY Zenon, <1>3, <1>4, <1>5, <1>7, <1>8 DEF IInv

-----------------------------------------------------------------------------
(* The waits *)

\* A step of t alone that has nothing to do with callbacks.
LEMMA OneMoves ==
  ASSUME TypeInv, OwnSlot, NEW t \in Threads, NEW l \in Labels, Goto(t, l),
         pc[t] # "cb_request", l # "cb_request", target' = target,
         \A s \in Threads \ {t} : safepoint_callback'[s] = safepoint_callback[s]
  PROVE  /\ SameSetters /\ OwnSlot' /\ pc' \in [Threads -> Labels]
         /\ pc'[t] = l /\ \A s \in Threads \ {t} : pc'[s] = pc[s]
<1>1. pc' \in [Threads -> Labels] /\ pc'[t] = l /\ \A s \in Threads \ {t} : pc'[s] = pc[s]
  BY Zenon DEF TypeInv, Goto
<1>2. SameSetters
  BY Zenon, <1>1 DEF SameSetters
<1>3. OwnSlot'
  BY Zenon, <1>1 DEF OwnSlot
<1> QED
  BY Zenon, <1>1, <1>2, <1>3

CountedLabels == {"cv_check", "cv_sleep", "cv_asleep", "cv_woken", "leave"}

\* The waiters of a monitor are finitely many.
LEMMA WaitersFinite ==
  ASSUME NEW m
  PROVE  IsFiniteSet(Waiters(m)) /\ Cardinality(Waiters(m)) \in Nat
<1>1. Waiters(m) \subseteq Threads
  BY Zenon DEF Waiters
<1> QED
  BY Zenon, <1>1, NamesAssumption, FS_Subset, FS_CardinalityType

\* A thread that begins to wait is one waiter more.
LEMMA WaitersJoin ==
  ASSUME NEW t \in Threads, NEW m,
         pc[t] \notin CountedLabels, pc'[t] \in CountedLabels, mon'[t] = m,
         \A s \in Threads \ {t} : pc'[s] = pc[s] /\ mon'[s] = mon[s]
  PROVE  /\ Cardinality(Waiters(m)') = Cardinality(Waiters(m)) + 1
         /\ \A n : n # m => Waiters(n)' = Waiters(n)
<1>1. Waiters(m)' = Waiters(m) \cup {t} /\ t \notin Waiters(m)
  BY Zenon DEF Waiters, CountedLabels
<1>2. \A n : n # m => Waiters(n)' = Waiters(n)
  BY Zenon DEF Waiters, CountedLabels
<1> QED
  BY Zenon, <1>1, <1>2, WaitersFinite, FS_AddElement

\* A thread that leaves the loop is one waiter less.
LEMMA WaitersLeave ==
  ASSUME NEW t \in Threads, NEW m, pc[t] \in CountedLabels, pc'[t] \notin CountedLabels, mon[t] = m,
         \A s \in Threads \ {t} : pc'[s] = pc[s] /\ mon'[s] = mon[s]
  PROVE  /\ Cardinality(Waiters(m)') = Cardinality(Waiters(m)) - 1
         /\ \A n : n # m => Waiters(n)' = Waiters(n)
<1>1. Waiters(m)' = Waiters(m) \ {t} /\ t \in Waiters(m)
  BY Zenon DEF Waiters, CountedLabels
<1>2. \A n : n # m => Waiters(n)' = Waiters(n)
  BY Zenon DEF Waiters, CountedLabels
<1> QED
  BY Zenon, <1>1, <1>2, WaitersFinite, FS_RemoveElement

\* A thread that stays on its side of the loop changes no set of waiters.
LEMMA WaitersStay ==
  ASSUME NEW t \in Threads, pc[t] \in CountedLabels <=> pc'[t] \in CountedLabels,
         \A s \in Threads \ {t} : pc'[s] = pc[s],
         \A s \in Threads : mon'[s] = mon[s]
  PROVE  \A n : Waiters(n)' = Waiters(n)
<1>1. \A s \in Threads : pc[s] \in CountedLabels <=> pc'[s] \in CountedLabels
  BY Zenon
<1> QED
  BY Zenon, <1>1 DEF Waiters, CountedLabels

\* The mutex of m is free or t's: nobody else is past its sleep in m.
LEMMA AloneIn ==
  ASSUME IInv, NEW t \in Threads, NEW m \in Monitors, mutex[m] \in {t, NoThread}
  PROVE  /\ \A s \in Threads \ {t} : pc[s] \in {"cv_check", "cv_sleep", "leave"} => mon[s] # m
         /\ \A s \in Threads : pc[s] \in {"cv_check", "cv_sleep", "leave"} => mon[s] \in Monitors
<1>1. \A s \in Threads : pc[s] \in {"cv_check", "cv_sleep", "leave"} => mon[s] \in Monitors
  BY Zenon DEF IInv, PlaceInv, InWait, Counted, Monitors
<1> QED
  BY <1>1, NamesAssumption DEF IInv, OwnerHoldsMutex

\* Every wait begins with the mutex taken, nobody the owner, and one waiter more.
LEMMA BeginInv ==
  ASSUME IInv, NEW t \in Threads, NEW m \in Monitors, NEW c, NEW bits,
         NEW l \in {"cv_check", "leave"},
         pc[t] = "run", Begin(t, c, m, bits), Goto(t, l), mutex[m] \in {t, NoThread},
         \/ c \in {"wait", "native_wait"} /\ m \in Objects
         \/ c \in {"park", "sleep"} /\ m = t,
         mutex' = [mutex EXCEPT ![m] = t], owner' = [owner EXCEPT ![m] = NoThread],
         UNCHANGED <<notify_count, cond, stop_vars, target, ret>>
  PROVE  IInv'
<1>1. /\ TypeInv /\ PlaceInv /\ SleepInv /\ OwnUnnotified /\ OwnSlot
      /\ OwnerHoldsMutex /\ NotificationsBounded /\ RequestAgrees
  BY Zenon DEF IInv
<1>2. /\ SameSetters /\ OwnSlot' /\ pc' \in [Threads -> Labels]
      /\ pc'[t] = l /\ \A s \in Threads \ {t} : pc'[s] = pc[s]
  BY Zenon, <1>1, OneMoves DEF Labels, stop_vars
<1>3. /\ call' \in [Threads -> {"none", "wait", "native_wait", "park", "sleep"}] /\ call'[t] = c
      /\ mon' \in [Threads -> Monitors \cup {NoMonitor}] /\ mon'[t] = m
      /\ \A s \in Threads \ {t} : mon'[s] = mon[s] /\ call'[s] = call[s]
  BY Zenon, <1>1 DEF TypeInv, Begin
<1>4. /\ wait_count' \in [Monitors -> Nat] /\ wait_count'[m] = wait_count[m] + 1
      /\ \A n \in Monitors \ {m} : wait_count'[n] = wait_count[n]
      /\ waited_monitor' \in [Threads -> Monitors \cup {NoMonitor}]
  BY <1>1 DEF TypeInv, Begin
<1>5. /\ mutex' \in [Monitors -> Threads \cup {NoThread}] /\ mutex'[m] = t
      /\ owner' \in [Monitors -> Threads \cup {NoThread}] /\ owner'[m] = NoThread
      /\ \A n \in Monitors \ {m} : mutex'[n] = mutex[n] /\ owner'[n] = owner[n]
  BY Zenon, <1>1 DEF TypeInv
<1>6. TypeInv'
  BY Zenon, <1>1, <1>2, <1>3, <1>4, <1>5 DEF TypeInv, stop_vars
<1>7. PlaceInv'
  BY Zenon, <1>1, <1>2, <1>3 DEF PlaceInv, InWait, Counted
<1>8. SleepInv'
  BY <1>1, <1>2, <1>3 DEF SleepInv
<1>9. OwnerHoldsMutex'
  BY <1>1, <1>2, <1>3, <1>5, AloneIn DEF OwnerHoldsMutex
<1>10. NotificationsBounded'
  <2>1. /\ Cardinality(Waiters(m)') = Cardinality(Waiters(m)) + 1
        /\ \A n : n # m => Waiters(n)' = Waiters(n)
    BY <1>2, <1>3, WaitersJoin DEF CountedLabels
  <2>2. \A n \in Monitors : wait_count[n] \in Nat /\ notify_count[n] \in Nat
    BY Zenon, <1>1 DEF TypeInv
  <2>3. \A n \in Monitors : /\ wait_count'[n] = Cardinality(Waiters(n)')
                            /\ notify_count[n] <= wait_count'[n]
    BY <1>1, <1>4, <2>1, <2>2 DEF NotificationsBounded
  <2>4. \A s \in Threads : pc'[s] = "cv_check" => notify_count[mon'[s]] < wait_count'[mon'[s]]
    <3> TAKE s \in Threads
    <3> HAVE pc'[s] = "cv_check"
    <3>1. CASE s = t
      BY <1>1, <1>3, <1>4, <2>2, <3>1 DEF NotificationsBounded
    <3>2. CASE s # t
      BY <1>1, <1>2, <1>3, <1>4, <3>2, AloneIn DEF NotificationsBounded
    <3> QED
      BY Zenon, <3>1, <3>2
  <2> QED
    BY Zenon, <2>3, <2>4 DEF NotificationsBounded
<1>11. OwnUnnotified'
  BY Zenon, <1>1 DEF OwnUnnotified
<1>12. RequestAgrees'
  BY Zenon, <1>1, <1>2, RequestKept
<1> QED
  BY Zenon, <1>2, <1>6, <1>7, <1>8, <1>9, <1>10, <1>11, <1>12 DEF IInv

\* hythread_monitor_wait begins.
LEMMA MonitorWaitInv ==
  ASSUME IInv, NEW t \in Threads, NEW m \in Objects, monitor_wait(t, m)
  PROVE  IInv'
<1>1. PICK c \in {"wait", "native_wait"} : Does(t, c) /\ Begin(t, c, m, {"IN_MONITOR_WAIT"})
  BY Zenon DEF monitor_wait
<1>2. /\ TypeInv /\ m \in Monitors /\ owner[m] = t /\ mutex[m] = t /\ pc[t] = "run"
      /\ owner' = [owner EXCEPT ![m] = NoThread] /\ mutex' = mutex /\ Goto(t, "cv_check")
      /\ UNCHANGED <<notify_count, cond, stop_vars, target, ret>>
  BY Zenon, <1>1, NamesAssumption DEF monitor_wait, IInv, OwnerHoldsMutex, Monitors, Does
<1>3. mutex' = [mutex EXCEPT ![m] = t]
  BY Zenon, <1>2 DEF TypeInv
<1>4. PICK bits : Begin(t, c, m, bits)
  BY Zenon, <1>1
<1>5. PICK l \in {"cv_check", "leave"} : Goto(t, l)
  BY Zenon, <1>2
<1> QED
  BY Zenon, <1>2, <1>3, <1>4, <1>5, BeginInv

\* Where nobody holds the mutex, nobody owns.
LEMMA FreeUnowned ==
  ASSUME IInv, NEW m \in Monitors, Free(m)
  PROVE  owner[m] = NoThread
BY Zenon DEF IInv, OwnerHoldsMutex, Free

\* hythread_park and hythread_sleep begin, on the monitor of the thread itself.
LEMMA ParkInv ==
  ASSUME IInv, NEW t \in Threads, hythread_park(t) \/ thread_sleep(t)
  PROVE  IInv'
<1>1. /\ TypeInv /\ t \in Monitors /\ pc[t] = "run" /\ Free(t) /\ mutex' = [mutex EXCEPT ![t] = t]
      /\ UNCHANGED <<owner, notify_count, cond, stop_vars, target, ret>>
  BY Zenon DEF IInv, hythread_park, thread_sleep, Does, Lock, Monitors
<1>2. PICK c \in {"park", "sleep"} : \E bits : Begin(t, c, t, bits)
  BY Zenon DEF hythread_park, thread_sleep
<1>3. PICK bits : Begin(t, c, t, bits)
  BY Zenon, <1>2
<1>4. PICK l \in {"cv_check", "leave"} : Goto(t, l)
  BY Zenon DEF hythread_park, thread_sleep
<1>5. owner' = [owner EXCEPT ![t] = NoThread]
  BY Zenon, <1>1, FreeUnowned DEF TypeInv
<1>6. mutex[t] \in {t, NoThread}
  BY Zenon, <1>1 DEF Free
<1> QED
  BY Zenon, <1>1, <1>3, <1>4, <1>5, <1>6, BeginInv

-----------------------------------------------------------------------------
(* condvar_wait_impl *)

\* The monitor of a thread inside a wait.
LEMMA WaitPlace ==
  ASSUME IInv, NEW t \in Threads, InWait(t)
  PROVE  \E m \in Monitors : m = mon[t] /\ (m \in Objects \/ m = t)
BY Zenon DEF IInv, PlaceInv, Monitors

\* An interrupt that came before ends the wait; otherwise the thread goes to sleep.
LEMMA CheckInv ==
  ASSUME IInv, NEW t \in Threads, condvar_check(t)
  PROVE  IInv'
<1>1. /\ TypeInv /\ PlaceInv /\ SleepInv /\ OwnUnnotified /\ OwnSlot
      /\ OwnerHoldsMutex /\ NotificationsBounded /\ RequestAgrees /\ pc[t] = "cv_check"
      /\ UNCHANGED <<mutex, monitor_vars, cond, waited_monitor, stop_vars, call, mon, target, ret>>
  BY Zenon DEF IInv, condvar_check
<1>2. PICK l \in {"leave", "cv_sleep"} : Goto(t, l)
  BY Zenon DEF condvar_check
<1>3. /\ SameSetters /\ OwnSlot' /\ pc' \in [Threads -> Labels]
      /\ pc'[t] = l /\ \A s \in Threads \ {t} : pc'[s] = pc[s]
  BY Zenon, <1>1, <1>2, OneMoves DEF Labels, stop_vars
<1>4. TypeInv'
  BY Zenon, <1>1, <1>3 DEF TypeInv, monitor_vars, stop_vars
<1>5. PlaceInv'
  BY Zenon, <1>1, <1>3 DEF PlaceInv, InWait, Counted
<1>6. SleepInv'
  BY <1>1, <1>3 DEF SleepInv
<1>7. OwnerHoldsMutex'
  BY Zenon, <1>1, <1>3 DEF OwnerHoldsMutex, monitor_vars
<1>8. \A n : Waiters(n)' = Waiters(n)
  BY Zenon, <1>1, <1>3, WaitersStay DEF CountedLabels
<1>9. NotificationsBounded' /\ OwnUnnotified'
  BY Zenon, <1>1, <1>3, <1>8 DEF NotificationsBounded, OwnUnnotified, monitor_vars
<1>10. RequestAgrees'
  BY Zenon, <1>1, <1>3, RequestKept
<1> QED
  BY Zenon, <1>3, <1>4, <1>5, <1>6, <1>7, <1>9, <1>10 DEF IInv

\* A thread goes to sleep in the condition and releases the mutex with it.
LEMMA SleepStepInv ==
  ASSUME IInv, NEW t \in Threads, condvar_sleep(t)
  PROVE  IInv'
<1>1. /\ TypeInv /\ PlaceInv /\ SleepInv /\ OwnUnnotified /\ OwnSlot
      /\ OwnerHoldsMutex /\ NotificationsBounded /\ RequestAgrees /\ pc[t] = "cv_sleep"
      /\ UNCHANGED <<monitor_vars, thread_vars, stop_vars, local_vars, target, ret>>
      /\ Goto(t, "cv_asleep")
  BY Zenon DEF IInv, condvar_sleep
<1>2. PICK m \in Monitors : m = mon[t]
  BY Zenon, <1>1, WaitPlace DEF InWait, Counted
<1>3. /\ SameSetters /\ OwnSlot' /\ pc' \in [Threads -> Labels]
      /\ pc'[t] = "cv_asleep" /\ \A s \in Threads \ {t} : pc'[s] = pc[s]
  BY Zenon, <1>1, OneMoves DEF Labels, stop_vars
<1>4. /\ mutex' = [mutex EXCEPT ![m] = NoThread] /\ cond' = [cond EXCEPT ![m] = @ \cup {t}]
  BY Zenon, <1>2 DEF condvar_sleep, Unlock
<1>5. /\ mutex' \in [Monitors -> Threads \cup {NoThread}]
      /\ \A n \in Monitors \ {m} : mutex'[n] = mutex[n]
      /\ cond' \in [Monitors -> SUBSET Threads]
      /\ \A n \in Monitors : cond'[n] = IF n = m THEN cond[m] \cup {t} ELSE cond[n]
  BY Zenon, <1>1, <1>4 DEF TypeInv
<1>6. TypeInv'
  BY Zenon, <1>1, <1>3, <1>5 DEF TypeInv, monitor_vars, thread_vars, stop_vars, local_vars
<1>7. PlaceInv'
  BY Zenon, <1>1, <1>3 DEF PlaceInv, InWait, Counted, local_vars
<1>8. SleepInv'
  BY <1>1, <1>2, <1>3, <1>5 DEF SleepInv, local_vars
<1>9. mutex[m] = t /\ owner[m] = NoThread
  BY Zenon, <1>1, <1>2 DEF OwnerHoldsMutex
<1>10. OwnerHoldsMutex'
  BY <1>1, <1>3, <1>5, <1>9, AloneIn DEF OwnerHoldsMutex, monitor_vars, local_vars
<1>11. \A n : Waiters(n)' = Waiters(n)
  BY Zenon, <1>1, <1>3, WaitersStay DEF CountedLabels, local_vars
<1>12. NotificationsBounded' /\ OwnUnnotified'
  BY Zenon, <1>1, <1>3, <1>11 DEF NotificationsBounded, OwnUnnotified, monitor_vars, local_vars
<1>13. RequestAgrees'
  BY Zenon, <1>1, <1>3, RequestKept
<1> QED
  BY Zenon, <1>3, <1>6, <1>7, <1>8, <1>10, <1>12, <1>13 DEF IInv

\* A thread that was woken takes the mutex again, and leaves or waits on.
LEMMA WakeStepInv ==
  ASSUME IInv, NEW t \in Threads, condvar_wake(t)
  PROVE  IInv'
<1>1. /\ TypeInv /\ PlaceInv /\ SleepInv /\ OwnUnnotified /\ OwnSlot
      /\ OwnerHoldsMutex /\ NotificationsBounded /\ RequestAgrees /\ pc[t] = "cv_woken"
      /\ UNCHANGED <<monitor_vars, cond, waited_monitor, stop_vars, call, mon, target, ret>>
  BY Zenon DEF IInv, condvar_wake
<1>2. PICK m \in Monitors : m = mon[t] /\ (m \in Objects \/ m = t)
  BY Zenon, <1>1, WaitPlace DEF InWait, Counted
<1>3. PICK l \in {"leave", "cv_check"} :
        /\ Goto(t, l)
        /\ l = "cv_check" => /\ call[t] # "park"
                             /\ ~(call[t] \in {"wait", "native_wait"} /\ notify_count[m] > 0)
  BY Zenon, <1>2 DEF condvar_wake
<1>4. /\ SameSetters /\ OwnSlot' /\ pc' \in [Threads -> Labels]
      /\ pc'[t] = l /\ \A s \in Threads \ {t} : pc'[s] = pc[s]
  BY Zenon, <1>1, <1>3, OneMoves DEF Labels, stop_vars
<1>5. Free(m) /\ mutex' = [mutex EXCEPT ![m] = t]
  BY Zenon, <1>2 DEF condvar_wake, Lock
<1>6. /\ mutex' \in [Monitors -> Threads \cup {NoThread}] /\ mutex'[m] = t
      /\ \A n \in Monitors \ {m} : mutex'[n] = mutex[n]
  BY Zenon, <1>1, <1>5 DEF TypeInv
<1>7. TypeInv'
  BY Zenon, <1>1, <1>4, <1>6 DEF TypeInv, monitor_vars, stop_vars
<1>8. PlaceInv'
  BY Zenon, <1>1, <1>4 DEF PlaceInv, InWait, Counted
<1>9. SleepInv'
  BY <1>1, <1>4 DEF SleepInv
<1>10. owner[m] = NoThread /\ mutex[m] \in {t, NoThread}
  BY Zenon, <1>5, FreeUnowned DEF Free
<1>11. OwnerHoldsMutex'
  BY <1>1, <1>2, <1>4, <1>6, <1>10, AloneIn DEF OwnerHoldsMutex, monitor_vars
<1>12. \A n : Waiters(n)' = Waiters(n)
  BY Zenon, <1>1, <1>4, WaitersStay DEF CountedLabels
<1>13. l = "cv_check" => notify_count[m] < wait_count[m]
  <2>1. SUFFICES ASSUME l = "cv_check" PROVE notify_count[m] < wait_count[m]
    BY Zenon
  <2>2. wait_count[m] \in Nat /\ notify_count[m] \in Nat
    BY Zenon, <1>1 DEF TypeInv
  <2>3. notify_count[m] = 0
    <3>1. CASE call[t] \in {"wait", "native_wait"}
      BY <1>3, <2>1, <2>2, <3>1
    <3>2. CASE call[t] = "sleep"
      BY Zenon, <1>1, <1>2, <3>2 DEF PlaceInv, InWait, Counted, OwnUnnotified
    <3> QED
      BY Zenon, <1>1, <1>3, <2>1, <3>1, <3>2 DEF PlaceInv, InWait, Counted
  <2>4. wait_count[m] # 0
    <3>1. t \in Waiters(m)
      BY Zenon, <1>1, <1>2 DEF Waiters
    <3> QED
      BY Zenon, <1>1, <3>1, WaitersFinite, FS_EmptySet DEF NotificationsBounded
  <2> QED
    BY <2>2, <2>3, <2>4
<1>14. NotificationsBounded' /\ OwnUnnotified'
  BY Zenon, <1>1, <1>2, <1>4, <1>12, <1>13 DEF NotificationsBounded, OwnUnnotified, monitor_vars
<1>15. RequestAgrees'
  BY Zenon, <1>1, <1>4, RequestKept
<1> QED
  BY Zenon, <1>4, <1>7, <1>8, <1>9, <1>11, <1>14, <1>15 DEF IInv

-----------------------------------------------------------------------------
(* The way out *)

\* Whoever leaves takes itself out of the count, and a notification with it if need be.
LEMMA LeaveCounts ==
  ASSUME IInv, NEW t \in Threads, NEW m \in Monitors, m = mon[t], pc[t] = "leave",
         pc'[t] \notin CountedLabels,
         \A s \in Threads \ {t} : pc'[s] = pc[s] /\ mon'[s] = mon[s],
         wait_count' = [wait_count EXCEPT ![m] = @ - 1],
         NEW k \in Nat, notify_count' = [notify_count EXCEPT ![m] = k], k <= notify_count[m],
         k < wait_count[m]
  PROVE  /\ NotificationsBounded' /\ OwnUnnotified'
         /\ wait_count' \in [Monitors -> Nat] /\ notify_count' \in [Monitors -> Nat]
<1>1. TypeInv /\ NotificationsBounded /\ OwnUnnotified /\ OwnerHoldsMutex
  BY Zenon DEF IInv
<1>2. /\ wait_count[m] \in Nat /\ notify_count[m] \in Nat /\ wait_count[m] - 1 \in Nat
  BY <1>1 DEF TypeInv
<1>3. /\ wait_count' \in [Monitors -> Nat] /\ notify_count' \in [Monitors -> Nat]
      /\ wait_count'[m] = wait_count[m] - 1 /\ notify_count'[m] = k
      /\ \A n \in Monitors \ {m} :
           wait_count'[n] = wait_count[n] /\ notify_count'[n] = notify_count[n]
  BY Zenon, <1>1, <1>2 DEF TypeInv
<1>4. /\ Cardinality(Waiters(m)') = Cardinality(Waiters(m)) - 1
      /\ \A n : n # m => Waiters(n)' = Waiters(n)
  BY WaitersLeave DEF CountedLabels
<1>5. \A n \in Monitors : /\ wait_count'[n] = Cardinality(Waiters(n)')
                          /\ notify_count'[n] <= wait_count'[n]
  BY <1>1, <1>2, <1>3, <1>4 DEF NotificationsBounded
<1>6. mutex[m] = t
  BY Zenon, <1>1 DEF OwnerHoldsMutex
<1>7. \A s \in Threads : pc'[s] = "cv_check" => notify_count'[mon'[s]] < wait_count'[mon'[s]]
  BY <1>1, <1>3, <1>6, AloneIn DEF NotificationsBounded, CountedLabels
<1>8. OwnUnnotified'
  BY <1>1, <1>2, <1>3 DEF OwnUnnotified, Monitors
<1> QED
  BY Zenon, <1>3, <1>5, <1>7, <1>8 DEF NotificationsBounded

\* Giving up the mutex of m, or owning m with its mutex.
LEMMA LeaveOwner ==
  ASSUME IInv, NEW t \in Threads, NEW m \in Monitors,
         mutex[m] \in {t, NoThread}, owner[m] = NoThread,
         pc'[t] \notin {"cv_check", "cv_sleep", "leave"},
         \A s \in Threads \ {t} : pc'[s] = pc[s] /\ mon'[s] = mon[s],
         NEW x \in {t, NoThread}, NEW y \in {x, NoThread},
         mutex' = [mutex EXCEPT ![m] = x], owner' = [owner EXCEPT ![m] = y]
  PROVE  /\ OwnerHoldsMutex' /\ mutex' \in [Monitors -> Threads \cup {NoThread}]
         /\ owner' \in [Monitors -> Threads \cup {NoThread}]
<1>1. TypeInv /\ OwnerHoldsMutex
  BY Zenon DEF IInv
<1>2. /\ mutex' \in [Monitors -> Threads \cup {NoThread}] /\ mutex'[m] = x
      /\ owner' \in [Monitors -> Threads \cup {NoThread}] /\ owner'[m] = y
      /\ \A n \in Monitors \ {m} : mutex'[n] = mutex[n] /\ owner'[n] = owner[n]
  BY <1>1 DEF TypeInv
<1>3. OwnerHoldsMutex'
  BY <1>1, <1>2, AloneIn DEF OwnerHoldsMutex
<1> QED
  BY Zenon, <1>2, <1>3

\* The end of a wait forgets its monitor.
LEMMA ReturnMoves ==
  ASSUME TypeInv, NEW t \in Threads, Return(t)
  PROVE  /\ Goto(t, "run")
         /\ call' \in [Threads -> {"none", "wait", "native_wait", "park", "sleep"}]
         /\ mon' \in [Threads -> Monitors \cup {NoMonitor}]
         /\ \A s \in Threads \ {t} : mon'[s] = mon[s] /\ call'[s] = call[s]
BY Zenon DEF Return, TypeInv

\* The callback of t alone is run.
LEMMA PassOthers ==
  ASSUME TypeInv, NEW t \in Threads, PassCallback(t)
  PROVE  \A s \in Threads \ {t} : safepoint_callback'[s] = safepoint_callback[s]
BY Zenon DEF TypeInv, PassCallback, RunCallback, stop_vars

\* A thread that moves out of its wait disturbs no other place.
LEMMA LeavePlace ==
  ASSUME IInv, NEW t \in Threads, pc[t] # "cv_asleep", pc'[t] \in {"run", "poll", "relock", "left"},
         \A s \in Threads \ {t} : pc'[s] = pc[s] /\ mon'[s] = mon[s] /\ call'[s] = call[s],
         pc'[t] # "run" => InWait(t) /\ mon'[t] = mon[t] /\ call'[t] = call[t],
         pc'[t] \in {"poll", "relock"} => call[t] \in {"wait", "native_wait"},
         pc'[t] = "left" => call[t] \in {"park", "sleep"},
         cond' = cond
  PROVE  PlaceInv' /\ SleepInv'
<1>1. PlaceInv /\ SleepInv
  BY Zenon DEF IInv
<1>2. PlaceInv'
  BY <1>1 DEF PlaceInv, InWait, Counted
<1>3. SleepInv'
  BY <1>1 DEF SleepInv
<1> QED
  BY Zenon, <1>2, <1>3

\* A wait ends: its thread owns the monitor again, or gives the mutex up once more.
LEMMA WaitLeaveInv ==
  ASSUME IInv, NEW t \in Threads, monitor_wait_leave(t)
  PROVE  IInv'
<1>1. /\ TypeInv /\ PlaceInv /\ OwnSlot /\ OwnerHoldsMutex /\ NotificationsBounded /\ RequestAgrees
      /\ pc[t] = "leave" /\ call[t] \in {"wait", "native_wait"}
      /\ NotWaiting(t, {"IN_MONITOR_WAIT"}) /\ UNCHANGED <<cond, stop_vars, target, ret>>
  BY Zenon DEF IInv, monitor_wait_leave
<1>2. PICK m \in Monitors : m = mon[t]
  BY Zenon, <1>1, WaitPlace DEF InWait, Counted
<1>3. mutex[m] = t /\ owner[m] = NoThread
  BY Zenon, <1>1, <1>2 DEF OwnerHoldsMutex
<1>4. PICK k \in Nat : /\ notify_count' = [notify_count EXCEPT ![m] = k] /\ k <= notify_count[m]
                       /\ k < wait_count[m]
  <2>1. wait_count[m] \in Nat /\ notify_count[m] \in Nat /\ notify_count[m] <= wait_count[m]
    BY Zenon, <1>1 DEF TypeInv, NotificationsBounded
  <2>2. wait_count[m] # 0
    <3>1. t \in Waiters(m)
      BY Zenon, <1>1, <1>2 DEF Waiters
    <3> QED
      BY Zenon, <1>1, <3>1, WaitersFinite, FS_EmptySet DEF NotificationsBounded
  <2> DEFINE k == IF Consumes(t) THEN notify_count[m] - 1 ELSE notify_count[m]
  <2>3. k \in Nat /\ k <= notify_count[m] /\ k < wait_count[m]
    BY <1>2, <2>1, <2>2 DEF Consumes
  <2>4. notify_count' = [notify_count EXCEPT ![m] = k]
    BY Zenon, <1>1, <1>2 DEF monitor_wait_leave, TypeInv
  <2> HIDE DEF k
  <2> QED
    BY Zenon, <2>3, <2>4
<1>5. /\ wait_count' = [wait_count EXCEPT ![m] = @ - 1]
      /\ waited_monitor' \in [Threads -> Monitors \cup {NoMonitor}]
  BY Zenon, <1>1, <1>2 DEF NotWaiting, TypeInv
<1>6. PICK l \in {"run", "poll"}, x \in {t, NoThread}, y \in {t, NoThread} :
        /\ Goto(t, l) /\ y \in {x, NoThread}
        /\ mutex' = [mutex EXCEPT ![m] = x] /\ owner' = [owner EXCEPT ![m] = y]
        /\ call' \in [Threads -> {"none", "wait", "native_wait", "park", "sleep"}]
        /\ mon' \in [Threads -> Monitors \cup {NoMonitor}]
        /\ \A s \in Threads \ {t} : mon'[s] = mon[s] /\ call'[s] = call[s]
        /\ l = "poll" => mon'[t] = mon[t] /\ call'[t] = call[t]
  <2>1. CASE Regain(t) /\ UNCHANGED mutex
    <3>1. mutex' = [mutex EXCEPT ![m] = t] /\ owner' = [owner EXCEPT ![m] = t]
      BY Zenon, <1>1, <1>2, <1>3, <2>1 DEF Regain, TypeInv
    <3> QED
      BY Zenon, <1>1, <2>1, <3>1, ReturnMoves DEF Regain
  <2>2. CASE /\ Unlock(t, mon[t]) /\ Goto(t, "poll")
             /\ UNCHANGED <<recursion_count, owner, local_vars>>
    <3>1. mutex' = [mutex EXCEPT ![m] = NoThread] /\ owner' = [owner EXCEPT ![m] = NoThread]
      BY Zenon, <1>1, <1>2, <1>3, <2>2 DEF Unlock, TypeInv
    <3> QED
      BY Zenon, <1>1, <2>2, <3>1 DEF TypeInv, local_vars
  <2> QED
    BY Zenon, <2>1, <2>2 DEF monitor_wait_leave
<1>7. /\ SameSetters /\ OwnSlot' /\ pc' \in [Threads -> Labels]
      /\ pc'[t] = l /\ \A s \in Threads \ {t} : pc'[s] = pc[s]
  BY Zenon, <1>1, <1>6, OneMoves DEF Labels, stop_vars
<1>8. /\ NotificationsBounded' /\ OwnUnnotified'
      /\ wait_count' \in [Monitors -> Nat] /\ notify_count' \in [Monitors -> Nat]
  <2>1. /\ pc'[t] \notin CountedLabels
        /\ \A s \in Threads \ {t} : pc'[s] = pc[s] /\ mon'[s] = mon[s]
    BY Zenon, <1>6, <1>7 DEF CountedLabels
  <2> QED
    BY Zenon, <1>1, <1>2, <1>4, <1>5, <2>1, LeaveCounts
<1>9. /\ OwnerHoldsMutex' /\ mutex' \in [Monitors -> Threads \cup {NoThread}]
      /\ owner' \in [Monitors -> Threads \cup {NoThread}]
  <2>1. /\ mutex[m] \in {t, NoThread} /\ pc'[t] \notin {"cv_check", "cv_sleep", "leave"}
        /\ \A s \in Threads \ {t} : pc'[s] = pc[s] /\ mon'[s] = mon[s]
    BY Zenon, <1>3, <1>6, <1>7
  <2> QED
    BY Zenon, <1>3, <1>6, <2>1, LeaveOwner
<1>10. PlaceInv' /\ SleepInv'
  BY Zenon, <1>1, <1>6, <1>7, LeavePlace DEF InWait, Counted
<1>11. TypeInv'
  BY Zenon, <1>1, <1>5, <1>6, <1>7, <1>8, <1>9 DEF TypeInv, stop_vars
<1>12. RequestAgrees'
  BY Zenon, <1>1, <1>7, RequestKept
<1> QED
  BY Zenon, <1>7, <1>8, <1>9, <1>10, <1>11, <1>12 DEF IInv

\* ... passes the safe points ...
LEMMA WaitPollInv ==
  ASSUME IInv, NEW t \in Threads, monitor_wait_poll(t)
  PROVE  IInv'
<1>1. /\ TypeInv /\ PlaceInv /\ NotificationsBounded /\ OwnUnnotified /\ OwnSlot /\ RequestAgrees
      /\ OwnerHoldsMutex /\ pc[t] = "poll" /\ PassCallback(t) /\ Goto(t, "relock")
      /\ UNCHANGED <<mutex, monitor_vars, cond, thread_vars, local_vars, target, ret>>
  BY Zenon DEF IInv, monitor_wait_poll
<1>2. UNCHANGED <<mon, call>>
  BY Zenon, <1>1 DEF local_vars
<1>3. /\ SameSetters /\ OwnSlot' /\ pc' \in [Threads -> Labels]
      /\ pc'[t] = "relock" /\ \A s \in Threads \ {t} : pc'[s] = pc[s]
  BY Zenon, <1>1, PassOthers, OneMoves DEF Labels
<1>4. OwnerHoldsMutex'
  BY Zenon, <1>1, <1>2, <1>3 DEF OwnerHoldsMutex, monitor_vars
<1>5. PlaceInv' /\ SleepInv'
  <2>1. InWait(t) /\ call[t] \in {"wait", "native_wait"}
    BY Zenon, <1>1 DEF PlaceInv, InWait
  <2> QED
    BY Zenon, <1>1, <1>2, <1>3, <2>1, LeavePlace
<1>6. \A n : Waiters(n)' = Waiters(n)
  BY Zenon, <1>1, <1>2, <1>3 DEF Waiters
<1>7. NotificationsBounded' /\ OwnUnnotified'
  BY Zenon, <1>1, <1>2, <1>3, <1>6 DEF NotificationsBounded, OwnUnnotified, monitor_vars
<1>8. /\ RequestAgrees' /\ request' \in [Threads -> 0 .. RequestModulus - 1]
      /\ safepoint_callback' \in [Threads -> BOOLEAN]
  BY Zenon, <1>1, <1>3, CallbackPasses
<1>9. TypeInv'
  BY Zenon, <1>1, <1>2, <1>3, <1>8 DEF TypeInv, monitor_vars, thread_vars
<1> QED
  BY Zenon, <1>3, <1>4, <1>5, <1>7, <1>8, <1>9 DEF IInv

\* ... and takes it again behind them.
LEMMA WaitRelockInv ==
  ASSUME IInv, NEW t \in Threads, monitor_wait_relock(t)
  PROVE  IInv'
<1>1. /\ TypeInv /\ NotificationsBounded /\ OwnUnnotified /\ OwnSlot /\ RequestAgrees
      /\ pc[t] = "relock" /\ Return(t)
      /\ UNCHANGED <<wait_count, notify_count, cond, thread_vars, stop_vars, target, ret>>
  BY Zenon DEF IInv, monitor_wait_relock, Regain
<1>2. PICK m \in Monitors : m = mon[t]
  BY Zenon, <1>1, WaitPlace DEF InWait, Counted
<1>3. Free(m) /\ mutex' = [mutex EXCEPT ![m] = t] /\ owner' = [owner EXCEPT ![m] = t]
  BY Zenon, <1>2 DEF monitor_wait_relock, Lock, Regain
<1>4. /\ Goto(t, "run")
      /\ call' \in [Threads -> {"none", "wait", "native_wait", "park", "sleep"}]
      /\ mon' \in [Threads -> Monitors \cup {NoMonitor}]
      /\ \A s \in Threads \ {t} : mon'[s] = mon[s] /\ call'[s] = call[s]
  BY Zenon, <1>1, ReturnMoves
<1>5. /\ SameSetters /\ OwnSlot' /\ pc' \in [Threads -> Labels]
      /\ pc'[t] = "run" /\ \A s \in Threads \ {t} : pc'[s] = pc[s]
  BY Zenon, <1>1, <1>4, OneMoves DEF Labels, stop_vars
<1>6. /\ OwnerHoldsMutex' /\ mutex' \in [Monitors -> Threads \cup {NoThread}]
      /\ owner' \in [Monitors -> Threads \cup {NoThread}]
  BY Zenon, <1>3, <1>4, <1>5, FreeUnowned, LeaveOwner DEF Free
<1>7. PlaceInv' /\ SleepInv'
  BY Zenon, <1>1, <1>4, <1>5, LeavePlace
<1>8. \A n : Waiters(n)' = Waiters(n)
  BY Zenon, <1>1, <1>4, <1>5 DEF Waiters
<1>9. NotificationsBounded' /\ OwnUnnotified'
  BY Zenon, <1>1, <1>4, <1>5, <1>8 DEF NotificationsBounded, OwnUnnotified
<1>10. RequestAgrees'
  BY Zenon, <1>1, <1>5, RequestKept
<1>11. TypeInv'
  BY Zenon, <1>1, <1>4, <1>5, <1>6 DEF TypeInv, thread_vars, stop_vars
<1> QED
  BY Zenon, <1>5, <1>6, <1>7, <1>9, <1>10, <1>11 DEF IInv

\* hythread_park and hythread_sleep release their monitor.
LEMMA ParkLeaveInv ==
  ASSUME IInv, NEW t \in Threads, park_leave(t)
  PROVE  IInv'
<1>1. /\ TypeInv /\ PlaceInv /\ OwnSlot /\ OwnUnnotified /\ OwnerHoldsMutex
      /\ NotificationsBounded /\ RequestAgrees
      /\ pc[t] = "leave" /\ call[t] \in {"park", "sleep"} /\ Goto(t, "left")
      /\ UNCHANGED <<owner, notify_count, cond, stop_vars, local_vars, target, ret>>
  BY Zenon DEF IInv, park_leave
<1>2. t \in Monitors /\ mon[t] = t
  BY Zenon, <1>1 DEF PlaceInv, InWait, Counted, Monitors
<1>3. mutex[t] = t /\ owner[t] = NoThread
  BY Zenon, <1>1, <1>2 DEF OwnerHoldsMutex
<1>4. /\ mutex' = [mutex EXCEPT ![t] = NoThread] /\ owner' = [owner EXCEPT ![t] = NoThread]
  BY Zenon, <1>1, <1>2, <1>3 DEF park_leave, Unlock, TypeInv
<1>5. /\ wait_count' = [wait_count EXCEPT ![t] = @ - 1]
      /\ waited_monitor' \in [Threads -> Monitors \cup {NoMonitor}]
  BY Zenon, <1>1, <1>2 DEF park_leave, NotWaiting, TypeInv
<1>6. /\ notify_count' = [notify_count EXCEPT ![t] = 0] /\ notify_count[t] = 0
      /\ 0 < wait_count[t]
  <2>1. t \in Waiters(t)
    BY Zenon, <1>1, <1>2 DEF Waiters
  <2>2. wait_count[t] \in Nat /\ wait_count[t] # 0
    BY Zenon, <1>1, <1>2, <2>1, WaitersFinite, FS_EmptySet DEF NotificationsBounded, TypeInv
  <2> QED
    BY <1>1, <1>2, <2>2 DEF OwnUnnotified, TypeInv
<1>7. /\ SameSetters /\ OwnSlot' /\ pc' \in [Threads -> Labels]
      /\ pc'[t] = "left" /\ \A s \in Threads \ {t} : pc'[s] = pc[s]
  BY Zenon, <1>1, OneMoves DEF Labels, stop_vars
<1>8. UNCHANGED <<mon, call>>
  BY Zenon, <1>1 DEF local_vars
<1>9. /\ NotificationsBounded' /\ OwnUnnotified'
      /\ wait_count' \in [Monitors -> Nat] /\ notify_count' \in [Monitors -> Nat]
  <2>1. PICK k \in Nat : /\ notify_count' = [notify_count EXCEPT ![t] = k] /\ k <= notify_count[t]
                         /\ k < wait_count[t]
    <3>1. 0 \in Nat /\ 0 <= notify_count[t]
      BY <1>6
    <3> QED
      BY Zenon, <1>6, <3>1
  <2>2. /\ pc'[t] \notin CountedLabels /\ t = mon[t]
        /\ \A s \in Threads \ {t} : pc'[s] = pc[s] /\ mon'[s] = mon[s]
    BY Zenon, <1>2, <1>7, <1>8 DEF CountedLabels
  <2> QED
    BY Zenon, <1>1, <1>2, <1>5, <2>1, <2>2, LeaveCounts
<1>10. /\ OwnerHoldsMutex' /\ mutex' \in [Monitors -> Threads \cup {NoThread}]
       /\ owner' \in [Monitors -> Threads \cup {NoThread}]
  BY Zenon, <1>2, <1>3, <1>4, <1>7, <1>8, LeaveOwner
<1>11. PlaceInv' /\ SleepInv'
  BY Zenon, <1>1, <1>7, <1>8, LeavePlace DEF InWait, Counted
<1>12. TypeInv'
  BY Zenon, <1>1, <1>5, <1>7, <1>8, <1>9, <1>10 DEF TypeInv, stop_vars
<1>13. RequestAgrees'
  BY Zenon, <1>1, <1>7, RequestKept
<1> QED
  BY Zenon, <1>7, <1>9, <1>10, <1>11, <1>12, <1>13 DEF IInv

\* ... and return behind a safe point.
LEMMA ParkReturnInv ==
  ASSUME IInv, NEW t \in Threads, park_return(t)
  PROVE  IInv'
<1>1. /\ TypeInv /\ NotificationsBounded /\ OwnUnnotified /\ OwnSlot /\ RequestAgrees
      /\ OwnerHoldsMutex /\ pc[t] = "left" /\ PassCallback(t) /\ Return(t)
      /\ UNCHANGED <<mutex, monitor_vars, cond, waited_monitor, target, ret>>
  BY Zenon DEF IInv, park_return
<1>2. /\ Goto(t, "run")
      /\ call' \in [Threads -> {"none", "wait", "native_wait", "park", "sleep"}]
      /\ mon' \in [Threads -> Monitors \cup {NoMonitor}]
      /\ \A s \in Threads \ {t} : mon'[s] = mon[s] /\ call'[s] = call[s]
  BY Zenon, <1>1, ReturnMoves
<1>3. /\ SameSetters /\ OwnSlot' /\ pc' \in [Threads -> Labels]
      /\ pc'[t] = "run" /\ \A s \in Threads \ {t} : pc'[s] = pc[s]
  BY Zenon, <1>1, <1>2, PassOthers, OneMoves DEF Labels
<1>4. OwnerHoldsMutex'
  BY Zenon, <1>1, <1>2, <1>3 DEF OwnerHoldsMutex, monitor_vars
<1>5. PlaceInv' /\ SleepInv'
  BY Zenon, <1>1, <1>2, <1>3, LeavePlace
<1>6. \A n : Waiters(n)' = Waiters(n)
  BY Zenon, <1>1, <1>2, <1>3 DEF Waiters
<1>7. NotificationsBounded' /\ OwnUnnotified'
  BY Zenon, <1>1, <1>2, <1>3, <1>6 DEF NotificationsBounded, OwnUnnotified, monitor_vars
<1>8. /\ RequestAgrees' /\ request' \in [Threads -> 0 .. RequestModulus - 1]
      /\ safepoint_callback' \in [Threads -> BOOLEAN]
  BY Zenon, <1>1, <1>3, CallbackPasses
<1>9. TypeInv'
  BY Zenon, <1>1, <1>2, <1>3, <1>8 DEF TypeInv, monitor_vars
<1> QED
  BY Zenon, <1>3, <1>4, <1>5, <1>7, <1>8, <1>9 DEF IInv

-----------------------------------------------------------------------------
(* The theorems *)

\* The invariant holds at the start.
LEMMA InitInv == Init => IInv
<1> SUFFICES ASSUME Init PROVE IInv
  BY Zenon
<1>1. /\ \A t \in Threads : pc[t] = "run" /\ request[t] = 0 /\ ~safepoint_callback[t]
      /\ \A m \in Monitors : /\ mutex[m] = NoThread /\ owner[m] = NoThread /\ cond[m] = {}
                             /\ wait_count[m] = 0 /\ notify_count[m] = 0
      /\ Threads \subseteq Monitors
  BY Zenon DEF Init, Monitors
<1>2. TypeInv
  BY ModulusPositive DEF Init, TypeInv, Labels
<1>3. PlaceInv /\ SleepInv /\ OwnUnnotified /\ OwnSlot /\ OwnerHoldsMutex
  BY Zenon, <1>1 DEF PlaceInv, SleepInv, OwnUnnotified, OwnSlot, OwnerHoldsMutex, InWait, Counted
<1>4. NotificationsBounded
  <2>1. \A m \in Monitors : Waiters(m) = {}
    BY Zenon, <1>1 DEF Waiters
  <2> QED
    BY <1>1, <2>1, FS_EmptySet DEF NotificationsBounded
<1>5. ASSUME NEW t \in Threads PROVE RequestAt(t)
  <2>1. Setters(t) = {} /\ request[t] + 0 = 0
    BY <1>1 DEF Setters
  <2> QED
    BY Zenon, <1>1, <2>1, FS_EmptySet, ModSmall DEF RequestAt
<1> QED
  BY Zenon, <1>2, <1>3, <1>4, <1>5, Agrees DEF IInv

\* Every step keeps the invariant.
LEMMA NextInv == IInv /\ [Next]_vars => IInv'
<1> SUFFICES ASSUME IInv, [Next]_vars PROVE IInv'
  BY Zenon
<1>1. CASE \E t \in Threads, m \in Objects :
             \/ monitor_enter(t, m) \/ monitor_exit(t, m) \/ monitor_notify(t, m)
             \/ monitor_notify_all(t, m) \/ monitor_wait(t, m)
  BY Zenon, <1>1, MonitorEnterInv, NotifyInv, MonitorWaitInv
<1>2. CASE \E t \in Threads : \/ hythread_park(t) \/ thread_sleep(t) \/ condvar_timeout(t)
                              \/ condvar_spurious(t) \/ exception_safe_point(t)
  BY Zenon, <1>2, ParkInv, EndSleepInv, SafePointInv
<1>3. CASE \E t \in Threads : WaitStep(t)
  BY Zenon, <1>3, CheckInv, SleepStepInv, WakeStepInv, WaitLeaveInv, WaitPollInv, WaitRelockInv,
     ParkLeaveInv, ParkReturnInv DEF WaitStep
<1>4. CASE \E t \in Threads : WakeStep(t)
  BY Zenon, <1>4, UnparkNotifyInv, WakerMovesInv, InterruptReadInv, InterruptTryInv,
     CallbackRequestInv
     DEF WakeStep
<1>5. CASE \E u \in Threads, t \in Targets :
             hythread_unpark(u, t) \/ hythread_interrupt(u, t) \/ set_callback(u, t)
  BY Zenon, <1>5, NamesAssumption, UnparkInv, InterruptInv, SetCallbackInv
<1>6. CASE \E m \in Monitors : hythread_interrupter(m)
  BY Zenon, <1>6, InterrupterInv
<1>7. CASE UNCHANGED vars
  <2>1. /\ UNCHANGED <<mutex, monitor_vars, cond, thread_vars, stop_vars, local_vars>>
        /\ UNCHANGED <<target, ret, pc>>
    BY Zenon, <1>7 DEF vars
  <2>2. /\ \A m \in Monitors, t \in Threads :
             t \in cond'[m] <=> t \in cond[m] /\ pc'[t] = "cv_asleep"
        /\ (\A t \in Threads : Moves(t)) /\ SameSetters
    BY Zenon, <2>1 DEF IInv, SleepInv, Moves, SameSetters, local_vars
  <2>3. PlaceInv' /\ SleepInv' /\ OwnerHoldsMutex' /\ NotificationsBounded' /\ OwnUnnotified'
    BY Zenon, <2>1, <2>2, MovesCount DEF monitor_vars, local_vars
  <2>4. TypeInv' /\ OwnSlot'
    BY Zenon, <2>1 DEF IInv, TypeInv, OwnSlot, monitor_vars, thread_vars, stop_vars, local_vars
  <2>5. RequestAgrees'
    BY Zenon, <2>1, <2>2, RequestKept DEF IInv
  <2> QED
    BY Zenon, <2>3, <2>4, <2>5 DEF IInv
<1> QED
  BY Zenon, <1>1, <1>2, <1>3, <1>4, <1>5, <1>6, <1>7 DEF Next

\* The inductive invariant holds in every reachable state: the waiters are where their counts
\* and the conditions say, and a callback that is set is requested once.
THEOREM Invariance == Spec => []IInv
BY InitInv, NextInv, PTL DEF Spec

\* hythread_monitor_wait: whichever way a thread comes back, by notification, timeout,
\* interrupt or for no reason, and with or without a pending request, it owns the monitor
\* only with the mutex in its hands.
THEOREM OwnersHold == Spec => []OwnerHoldsMutex
<1>1. IInv => OwnerHoldsMutex
  BY Zenon DEF IInv
<1> QED
  BY <1>1, Invariance, PTL

\* monitor_wait_impl, hythread_monitor_notify and hythread_monitor_notify_all: wait_count is
\* exact and notify_count never exceeds it, for any number of threads.
THEOREM NotificationsCounted == Spec => []NotificationsBounded
<1>1. IInv => NotificationsBounded
  BY Zenon DEF IInv
<1> QED
  BY <1>1, Invariance, PTL

\* hythread_set_safepoint_callback and hythread_exception_safe_point: request, modulo its
\* width, is the callbacks set and not run, whatever number of threads set them at once.
THEOREM RequestsCounted == Spec => []RequestAgrees
<1>1. IInv => RequestAgrees
  BY Zenon DEF IInv
<1> QED
  BY <1>1, Invariance, PTL
===============================================================================
