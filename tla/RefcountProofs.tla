--------------------------- MODULE RefcountProofs ---------------------------
(***************************************************************************)
(* Proofs about Refcount, for any threads, any int width and up to         *)
(* 2^width references.                                                     *)
(***************************************************************************)
EXTENDS Refcount, FiniteSetTheorems, TLAPS

(* A thread between the load and the fetch_sub still owns its reference.   *)
InReleaseOwns ==
  \A t \in Thread : pc[t] = "sub" =>
    releasing[t] \in Ref /\ owner[releasing[t]] = t

(* The inductive invariant about counting.                                 *)
CountInv ==
  /\ TypeOK
  /\ CountExact
  /\ SoleDisposer
  /\ NoStaleOne
  /\ InReleaseOwns

-----------------------------------------------------------------------------
(* Counting modulo the width of an int.                                    *)

(* Wrap commutes with adding and subtracting one, and tells a single       *)
(* reference from any other number up to 2(IntMax+1).                      *)
LEMMA WrapFacts ==
  ASSUME NEW n \in 1 .. 2 * IntMax + 2
  PROVE  /\ Wrap(n) \in CInt
         /\ Wrap(n) = 1 <=> n = 1
         /\ Wrap(Wrap(n) - 1) = Wrap(n - 1)
         /\ Wrap(n - 1) \in CInt
         /\ n + 1 =< 2 * IntMax + 2 => Wrap(Wrap(n) + 1) = Wrap(n + 1)
BY IntMaxAssumption DEF Wrap, CInt

LEMMA OutstandingFinite ==
  /\ IsFiniteSet(Outstanding)
  /\ Cardinality(Outstanding) \in 0 .. 2 * IntMax + 2
  /\ Outstanding # {} => Cardinality(Outstanding) >= 1
<1>1. Outstanding \in SUBSET Ref
  BY DEF Outstanding
<1>2. /\ IsFiniteSet(Outstanding)
      /\ Cardinality(Outstanding) =< Cardinality(Ref)
  BY <1>1, RefAssumption, FS_Subset
<1>3. Cardinality(Outstanding) \in Nat /\ Cardinality(Ref) \in Nat
  BY <1>2, RefAssumption, FS_CardinalityType
<1>4. Outstanding # {} => Cardinality(Outstanding) # 0
  BY <1>2, FS_EmptySet
<1> QED
  BY <1>2, <1>3, <1>4, RefAssumption, IntMaxAssumption

(* A counter of 1 means a single reference.                                *)
LEMMA OneMeansLast ==
  ASSUME TypeOK, CountExact, count = 1, NEW r \in Outstanding
  PROVE  Outstanding = {r}
<1>1. Cardinality(Outstanding) \in 1 .. 2 * IntMax + 2
  BY OutstandingFinite, IntMaxAssumption
<1>2. Cardinality(Outstanding) = 1
  BY <1>1, WrapFacts DEF CountExact
<1> QED
  BY <1>2, OutstandingFinite, FS_Singleton

(* A new reference: one more is outstanding.                               *)
LEMMA OneMore ==
  ASSUME TypeOK, NEW t \in Thread, NEW s \in Ref, owner[s] = NoThread,
         owner' = [owner EXCEPT ![s] = t]
  PROVE  /\ Outstanding' = Outstanding \cup {s}
         /\ Cardinality(Outstanding') = Cardinality(Outstanding) + 1
         /\ Cardinality(Outstanding') =< 2 * IntMax + 2
<1>1. Outstanding' = Outstanding \cup {s} /\ s \notin Outstanding
  BY NullAssumption DEF Outstanding, TypeOK
<1>2. Outstanding' \in SUBSET Ref
  BY DEF Outstanding
<1>3. Cardinality(Outstanding') =< Cardinality(Ref)
  BY <1>2, RefAssumption, FS_Subset
<1>4. Cardinality(Outstanding') = Cardinality(Outstanding) + 1
  BY <1>1, OutstandingFinite, FS_AddElement
<1>5. Cardinality(Ref) \in Nat
  BY RefAssumption, FS_CardinalityType
<1> QED
  BY <1>1, <1>3, <1>4, <1>5, OutstandingFinite, RefAssumption, IntMaxAssumption

(* A reference given up: one less is outstanding.                          *)
LEMMA OneLess ==
  ASSUME TypeOK, NEW r \in Outstanding,
         owner' = [owner EXCEPT ![r] = NoThread]
  PROVE  /\ Outstanding' = Outstanding \ {r}
         /\ Cardinality(Outstanding') = Cardinality(Outstanding) - 1
<1>1. Outstanding' = Outstanding \ {r}
  BY DEF Outstanding, TypeOK
<1> QED
  BY <1>1, OutstandingFinite, FS_RemoveElement
-----------------------------------------------------------------------------
(* One step of a fetch_sub by the owner of r, whichever decrement does it. *)
LEMMA FetchSubStep ==
  ASSUME CountInv, NEW t \in Thread, NEW r \in Ref, owner[r] = t,
         FetchSubAcqRel(t), owner' = [owner EXCEPT ![r] = NoThread]
  PROVE  /\ count' \in CInt
         /\ readable' \in [Thread -> SUBSET CInt]
         /\ rel' \in SUBSET Thread
         /\ seen' \in [Thread -> SUBSET Thread]
         /\ owner' \in [Ref -> Thread \cup {NoThread}]
         /\ CountExact'
         /\ NoStaleOne'
         /\ count = 1 => Outstanding = {r} /\ Outstanding' = {}
<1> DEFINE n == Cardinality(Outstanding)
<1>1. r \in Outstanding
  BY NullAssumption DEF Outstanding
<1>2. n \in 1 .. 2 * IntMax + 2 /\ count = Wrap(n)
  BY <1>1, OutstandingFinite DEF CountInv, CountExact
<1>3. /\ Outstanding' = Outstanding \ {r}
      /\ Cardinality(Outstanding') = n - 1
  BY <1>1, OneLess DEF CountInv
<1>4. count' = Wrap(n - 1) /\ count' \in CInt
  BY <1>2, WrapFacts DEF FetchSubAcqRel, StoreLatest
<1>5. /\ readable' \in [Thread -> SUBSET CInt]
      /\ rel' \in SUBSET Thread
      /\ seen' \in [Thread -> SUBSET Thread]
      /\ owner' \in [Ref -> Thread \cup {NoThread}]
  BY <1>4 DEF CountInv, TypeOK, FetchSubAcqRel, StoreLatest
<1>6. CountExact'
  BY <1>3, <1>4 DEF CountExact
<1>7. count = 1 => Outstanding = {r} /\ Outstanding' = {}
  BY <1>1, <1>3, OneMeansLast DEF CountInv
<1>8. NoStaleOne'
  <2> SUFFICES ASSUME NEW u \in Thread, NEW q \in Ref,
                      owner'[q] = u, 1 \in readable'[u]
               PROVE  count' = 1
    BY DEF NoStaleOne
  <2>1. q # r /\ owner[q] = u
    BY NullAssumption DEF CountInv, TypeOK
  <2>2. q \in Outstanding
    BY <2>1, NullAssumption DEF Outstanding
  <2>3. count # 1
    BY <1>7, <2>1, <2>2
  <2>4. 1 \notin readable[u]
    BY <2>1, <2>3 DEF CountInv, NoStaleOne
  <2> QED
    BY <2>4 DEF FetchSubAcqRel, StoreLatest
<1> QED
  BY <1>4, <1>5, <1>6, <1>7, <1>8

LEMMA InitCountInv == Init => CountInv
<1> SUFFICES ASSUME Init PROVE CountInv
  OBVIOUS
<1>1. Outstanding = {}
  BY DEF Init, Outstanding
<1>2. TypeOK
  BY IntMaxAssumption DEF Init, TypeOK, CInt
<1> QED
  BY <1>1, <1>2, NullAssumption
  DEF Init, CountInv, CountExact, SoleDisposer, NoStaleOne, InReleaseOwns

(* Every operation preserves the invariant, one lemma for each.            *)

LEMMA RefcountInitStep ==
  ASSUME CountInv, NEW t \in Thread, NEW r \in Ref, RefcountInit(t, r)
  PROVE  CountInv'
<1> USE DEF CountInv, RefcountInit
<1>1. TypeOK'
  BY IntMaxAssumption DEF TypeOK, CInt
<1>2. owner[r] = NoThread /\ Cardinality(Outstanding) = 0
  BY OutstandingFinite, FS_EmptySet DEF Outstanding
<1>3. Cardinality(Outstanding') = 1
  <2>1. Cardinality(Outstanding') = Cardinality(Outstanding) + 1
    BY <1>2, OneMore
  <2> QED
    BY <1>2, <2>1
<1>4. CountExact'
  BY <1>3, IntMaxAssumption DEF CountExact, Wrap
<1>5. SoleDisposer' /\ NoStaleOne' /\ InReleaseOwns'
  BY DEF SoleDisposer, NoStaleOne, InReleaseOwns, Idle, TypeOK
<1> QED
  BY <1>1, <1>4, <1>5

LEMMA IncrementStep ==
  ASSUME CountInv, NEW t \in Thread, NEW r \in Ref, NEW s \in Ref,
         Increment(t, r, s)
  PROVE  CountInv'
<1> DEFINE n == Cardinality(Outstanding)
<1> USE DEF CountInv, Increment, Owns, Idle, FetchAddRelaxed, StoreLatest
<1>1. r \in Outstanding
  BY NullAssumption DEF Outstanding
<1>2. n \in 1 .. 2 * IntMax + 2 /\ count = Wrap(n)
  BY <1>1, OutstandingFinite DEF CountExact
<1>3. Cardinality(Outstanding') = n + 1 /\ n + 1 =< 2 * IntMax + 2
  BY OneMore
<1>4. count' = Wrap(n + 1) /\ count' \in CInt /\ count' # 1
  <2>1. n + 1 \in 1 .. 2 * IntMax + 2 /\ n + 1 # 1
    BY <1>2, <1>3
  <2> QED
    BY <1>2, <1>3, <2>1, WrapFacts
<1>5. TypeOK'
  BY <1>4 DEF TypeOK
<1>6. CountExact'
  BY <1>3, <1>4 DEF CountExact
<1>7. SoleDisposer'
  BY <1>1 DEF SoleDisposer
<1>8. NoStaleOne'
  <2> SUFFICES ASSUME NEW u \in Thread, NEW q \in Ref,
                      owner'[q] = u, 1 \in readable'[u]
               PROVE  FALSE
    BY DEF NoStaleOne
  <2>1. u # t /\ 1 \in readable[u]
    BY <1>4
  <2>2. owner[q] = u /\ q # r
    BY <2>1 DEF TypeOK
  <2>3. q \in Outstanding
    BY <2>2, NullAssumption DEF Outstanding
  <2>4. count = 1
    BY <2>1, <2>2 DEF NoStaleOne
  <2> QED
    BY <1>1, <2>2, <2>3, <2>4, OneMeansLast
<1>9. InReleaseOwns'
  BY NullAssumption DEF InReleaseOwns, TypeOK
<1> QED
  BY <1>5, <1>6, <1>7, <1>8, <1>9

LEMMA DecrementStep ==
  ASSUME CountInv, NEW t \in Thread, NEW r \in Ref, Decrement(t, r)
  PROVE  CountInv'
<1> USE DEF CountInv, Decrement, Owns, Idle, AfterSub
<1>1. r \in Outstanding
  BY NullAssumption DEF Outstanding
<1>2. TypeOK'
  BY FetchSubStep DEF TypeOK
<1>3. CountExact' /\ NoStaleOne'
  BY FetchSubStep
<1>4. InReleaseOwns'
  BY DEF InReleaseOwns, TypeOK
<1>5. SoleDisposer'
  <2> SUFFICES ASSUME NEW w \in Thread, pc'[w] = "dispose"
               PROVE  /\ Outstanding' = {}
                      /\ \A u \in Thread \ {w} : pc'[u] = "idle"
    BY DEF SoleDisposer
  <2>1. w = t /\ count = 1
    BY <1>1 DEF SoleDisposer, TypeOK
  <2>2. Outstanding = {r} /\ Outstanding' = {}
    BY <2>1, FetchSubStep
  <2>3. \A u \in Thread \ {t} : pc[u] = "idle"
    BY <1>1, <2>2, NullAssumption
    DEF SoleDisposer, InReleaseOwns, TypeOK, Outstanding
  <2> QED
    BY <2>1, <2>2, <2>3 DEF TypeOK
<1> QED
  BY <1>2, <1>3, <1>4, <1>5

LEMMA SkewedLoadStep ==
  ASSUME CountInv, NEW t \in Thread, NEW r \in Ref, SkewedLoad(t, r)
  PROVE  CountInv'
<1> USE DEF CountInv, SkewedLoad, Owns, Idle, memory
<1>1. r \in Outstanding
  BY NullAssumption DEF Outstanding
<1>2. CASE 1 \in readable[t] /\ pc' = [pc EXCEPT ![t] = "dispose"]
           /\ owner' = [owner EXCEPT ![r] = NoThread] /\ UNCHANGED releasing
  <2>1. Outstanding = {r}
    BY <1>1, <1>2, OneMeansLast DEF NoStaleOne
  <2>2. Outstanding' = {}
    BY <1>1, <1>2, <2>1, OneLess
  <2>3. \A u \in Thread \ {t} : pc[u] = "idle"
    BY <1>1, <2>1, NullAssumption
    DEF SoleDisposer, InReleaseOwns, TypeOK, Outstanding
  <2>4. TypeOK'
    BY <1>2 DEF TypeOK
  <2>5. NoStaleOne'
    BY <1>2, NullAssumption DEF NoStaleOne, TypeOK
  <2> QED
    BY <1>2, <2>2, <2>3, <2>4, <2>5
    DEF CountExact, SoleDisposer, InReleaseOwns, TypeOK
<1>3. CASE pc' = [pc EXCEPT ![t] = "sub"]
           /\ releasing' = [releasing EXCEPT ![t] = r] /\ UNCHANGED owner
  <2>1. Outstanding' = Outstanding
    BY <1>3 DEF Outstanding
  <2>2. TypeOK' /\ NoStaleOne' /\ InReleaseOwns'
    BY <1>3 DEF TypeOK, NoStaleOne, InReleaseOwns
  <2> QED
    BY <1>1, <1>3, <2>1, <2>2 DEF CountExact, SoleDisposer, TypeOK
<1> QED
  BY <1>2, <1>3

LEMMA SkewedSubStep ==
  ASSUME CountInv, NEW t \in Thread, SkewedSub(t)
  PROVE  CountInv'
<1> DEFINE r == releasing[t]
<1> USE DEF CountInv, SkewedSub, AfterSub
<1>1. r \in Ref /\ owner[r] = t
  BY DEF InReleaseOwns
<1>2. r \in Outstanding
  BY <1>1, NullAssumption DEF Outstanding
<1>3. TypeOK'
  BY <1>1, FetchSubStep DEF TypeOK
<1>4. CountExact' /\ NoStaleOne'
  BY <1>1, FetchSubStep
<1>5. InReleaseOwns'
  BY <1>1 DEF InReleaseOwns, TypeOK
<1>6. SoleDisposer'
  <2> SUFFICES ASSUME NEW w \in Thread, pc'[w] = "dispose"
               PROVE  /\ Outstanding' = {}
                      /\ \A u \in Thread \ {w} : pc'[u] = "idle"
    BY DEF SoleDisposer, Idle
  <2>1. w = t /\ count = 1
    BY <1>2 DEF SoleDisposer, TypeOK
  <2>2. Outstanding = {r} /\ Outstanding' = {}
    BY <1>1, <2>1, FetchSubStep
  <2>3. \A u \in Thread \ {t} : pc[u] = "idle"
    BY <1>1, <1>2, <2>2, NullAssumption
    DEF SoleDisposer, InReleaseOwns, TypeOK, Outstanding
  <2> QED
    BY <2>1, <2>2, <2>3 DEF TypeOK
<1> QED
  BY <1>3, <1>4, <1>5, <1>6

LEMMA UseStep ==
  ASSUME CountInv, NEW t \in Thread, Use(t)
  PROVE  CountInv'
BY DEF CountInv, Use, TypeOK, CountExact, SoleDisposer, NoStaleOne,
       InReleaseOwns, Outstanding, Idle

LEMMA SendStep ==
  ASSUME CountInv, NEW t \in Thread, NEW u \in Thread, NEW r \in Ref,
         Send(t, u, r)
  PROVE  CountInv'
<1> USE DEF CountInv, Send, Owns, Idle
<1>1. Outstanding' = Outstanding
  BY NullAssumption DEF Outstanding, TypeOK
<1>2. TypeOK'
  BY DEF TypeOK
<1>3. NoStaleOne'
  BY DEF NoStaleOne, TypeOK
<1>4. InReleaseOwns'
  BY DEF InReleaseOwns, TypeOK
<1> QED
  BY <1>1, <1>2, <1>3, <1>4 DEF CountExact, SoleDisposer

LEMMA DisposeStep ==
  ASSUME CountInv, NEW t \in Thread, Dispose(t)
  PROVE  CountInv'
BY DEF CountInv, Dispose, memory, TypeOK, CountExact, SoleDisposer,
       NoStaleOne, InReleaseOwns, Outstanding, Idle

LEMMA NextCountInv == CountInv /\ [Next]_vars => CountInv'
<1> SUFFICES ASSUME CountInv, [Next]_vars PROVE CountInv'
  OBVIOUS
<1>1. ASSUME NEW t \in Thread, Client(t) PROVE CountInv'
  BY <1>1, UseStep, DisposeStep, RefcountInitStep, IncrementStep, SendStep
  DEF Client
<1>2. ASSUME NEW t \in Thread, Plain(t) PROVE CountInv'
  BY <1>2, DecrementStep DEF Plain
<1>3. ASSUME NEW t \in Thread, Skewed(t) PROVE CountInv'
  BY <1>3, SkewedSubStep, SkewedLoadStep DEF Skewed
<1>4. CASE UNCHANGED vars
  BY <1>4 DEF vars, memory, CountInv, TypeOK, CountExact, SoleDisposer,
              NoStaleOne, InReleaseOwns, Outstanding, Idle
<1> QED
  BY <1>1, <1>2, <1>3, <1>4 DEF Next

(* The counting invariant holds however increments, plain and skewed       *)
(* decrements, hand-overs and disposals of any number of threads           *)
(* interleave.                                                             *)
THEOREM CountInvariant == Spec => []CountInv
BY InitCountInv, NextCountInv, PTL DEF Spec

(* Every variable of Refcount keeps its type; the counter stays an int.    *)
THEOREM TypeCorrect == Spec => []TypeOK
BY CountInvariant, PTL DEF CountInv

(* The counter is the number of outstanding references modulo the width of *)
(* an int.                                                                 *)
THEOREM CountIsExact == Spec => []CountExact
BY CountInvariant, PTL DEF CountInv

(* Only one thread is ever told to dispose of an object, when nobody else  *)
(* has a reference to it or is inside a decrement.                         *)
THEOREM DisposerIsAlone == Spec => []SoleDisposer
BY CountInvariant, PTL DEF CountInv

(* The relaxed load of the skewed decrement never shows an outdated 1.     *)
THEOREM LoadedOneIsCurrent == Spec => []NoStaleOne
BY CountInvariant, PTL DEF CountInv

-----------------------------------------------------------------------------
(* Happens-before.                                                         *)

(* While the object has an owner, the last access of every thread is       *)
(* either released through the counter or known to some owner.             *)
Covered ==
  Outstanding # {} =>
    \A u \in Thread :
      u \in rel \/ \E r \in Ref : owner[r] # NoThread /\ u \in seen[owner[r]]

(* The inductive invariant about happens-before.                           *)
OrderInv ==
  /\ CountInv
  /\ \A t \in Thread : t \in seen[t]
  /\ Covered
  /\ AcquireWouldOrder

LEMMA InitOrderInv == Init => OrderInv
<1> SUFFICES ASSUME Init PROVE OrderInv
  OBVIOUS
<1> QED
  BY InitCountInv DEF Init, OrderInv, Covered, AcquireWouldOrder, Outstanding

(* Nobody disposes while a reference is outstanding.                       *)
LEMMA OwnedNotDisposed ==
  ASSUME CountInv, NEW r \in Ref, owner[r] # NoThread, NEW t \in Thread
  PROVE  pc[t] # "dispose"
BY DEF CountInv, SoleDisposer, Outstanding

(* The thread that gives up the last reference has, together with what was *)
(* released before, every access in its past.                              *)
LEMMA LastOwnerCovers ==
  ASSUME OrderInv, NEW t \in Thread, NEW r \in Ref, owner[r] = t,
         Outstanding = {r}
  PROVE  seen[t] \cup rel = Thread
BY NullAssumption DEF OrderInv, CountInv, TypeOK, Covered, Outstanding

(* A fetch_sub keeps what is covered covered.                              *)
LEMMA FetchSubOrder ==
  ASSUME OrderInv, NEW t \in Thread, NEW r \in Ref, owner[r] = t,
         FetchSubAcqRel(t), owner' = [owner EXCEPT ![r] = NoThread]
  PROVE  /\ \A u \in Thread : u \in seen'[u]
         /\ Covered'
         /\ count = 1 => seen'[t] = Thread
<1> USE DEF OrderInv, FetchSubAcqRel, StoreLatest
<1>1. \A u \in Thread : u \in seen'[u]
  BY DEF CountInv, TypeOK
<1>2. Covered'
  <2> SUFFICES ASSUME NEW u \in Thread, u \notin rel',
                      NEW q \in Ref, owner'[q] # NoThread
               PROVE  \E p \in Ref : owner'[p] # NoThread /\ u \in seen'[owner'[p]]
    BY DEF Covered, Outstanding
  <2>1. u \notin rel /\ u \notin seen[t]
    OBVIOUS
  <2>2. PICK p \in Ref : owner[p] # NoThread /\ u \in seen[owner[p]]
    BY <2>1, NullAssumption DEF Covered, Outstanding
  <2>3. p # r /\ owner[p] # t /\ owner[p] \in Thread
    BY <2>1, <2>2 DEF CountInv, TypeOK
  <2>4. owner'[p] = owner[p] /\ u \in seen'[owner'[p]]
    BY <2>2, <2>3 DEF CountInv, TypeOK
  <2> QED
    BY <2>2, <2>4
<1>3. count = 1 => seen'[t] = Thread
  <2> SUFFICES ASSUME count = 1 PROVE seen'[t] = Thread
    OBVIOUS
  <2>1. Outstanding = {r}
    BY FetchSubStep
  <2> QED
    BY <2>1, LastOwnerCovers DEF CountInv, TypeOK
<1> QED
  BY <1>1, <1>2, <1>3

LEMMA ClientOrder ==
  ASSUME OrderInv, NEW t \in Thread, Client(t), CountInv'
  PROVE  OrderInv'
<1> USE DEF OrderInv
<1>1. CASE Use(t)
  <2> USE <1>1 DEF Use
  <2>1. PICK r \in Ref : owner[r] = t
    OBVIOUS
  <2>2. AcquireWouldOrder'
    BY <2>1, NullAssumption, OwnedNotDisposed DEF AcquireWouldOrder
  <2>3. \A u \in Thread : u \in seen'[u]
    BY DEF CountInv, TypeOK
  <2>4. Covered'
    BY <2>1, NullAssumption DEF Covered, Outstanding, CountInv, TypeOK
  <2> QED
    BY <2>2, <2>3, <2>4
<1>2. CASE Dispose(t)
  BY <1>2 DEF Dispose, memory, CountInv, TypeOK, Covered, Outstanding,
              AcquireWouldOrder
<1>3. ASSUME NEW r \in Ref, RefcountInit(t, r) PROVE OrderInv'
  BY <1>3, NullAssumption
  DEF RefcountInit, Idle, CountInv, TypeOK, Covered, Outstanding,
      AcquireWouldOrder
<1>4. ASSUME NEW r \in Ref, NEW s \in Ref, Increment(t, r, s) PROVE OrderInv'
  <2> USE <1>4 DEF Increment, Owns, Idle, FetchAddRelaxed, StoreLatest
  <2>1. AcquireWouldOrder'
    BY DEF AcquireWouldOrder
  <2>2. Covered'
    BY NullAssumption DEF Covered, Outstanding, CountInv, TypeOK
  <2> QED
    BY <2>1, <2>2
<1>5. ASSUME NEW r \in Ref, NEW u \in Thread, Send(t, u, r) PROVE OrderInv'
  <2> USE <1>5 DEF Send, Owns, Idle
  <2>1. AcquireWouldOrder'
    BY NullAssumption, OwnedNotDisposed DEF AcquireWouldOrder
  <2>2. \A v \in Thread : v \in seen'[v]
    BY DEF CountInv, TypeOK
  <2>3. Covered'
    <3> SUFFICES ASSUME NEW v \in Thread, v \notin rel
                 PROVE  \E p \in Ref : /\ owner'[p] # NoThread
                                       /\ v \in seen'[owner'[p]]
      BY DEF Covered
    <3>1. PICK p \in Ref : owner[p] # NoThread /\ v \in seen[owner[p]]
      BY NullAssumption DEF Covered, Outstanding
    <3>2. CASE p = r
      BY <3>1, <3>2, NullAssumption DEF CountInv, TypeOK
    <3>3. CASE p # r
      BY <3>1, <3>3 DEF CountInv, TypeOK
    <3> QED
      BY <3>2, <3>3
  <2> QED
    BY <2>1, <2>2, <2>3
<1> QED
  BY <1>1, <1>2, <1>3, <1>4, <1>5 DEF Client

LEMMA PlainOrder ==
  ASSUME OrderInv, NEW t \in Thread, Plain(t), CountInv'
  PROVE  OrderInv' /\ (pc'[t] = "dispose" => seen'[t] = Thread)
<1>1. PICK r \in Ref : Decrement(t, r)
  BY DEF Plain
<1> USE <1>1 DEF OrderInv, Decrement, Owns, Idle, AfterSub
<1>2. /\ \A u \in Thread : u \in seen'[u]
      /\ Covered'
      /\ count = 1 => seen'[t] = Thread
  BY FetchSubOrder
<1>3. pc'[t] = "dispose" => seen'[t] = Thread
  BY <1>2 DEF CountInv, TypeOK
<1>4. AcquireWouldOrder'
  <2> SUFFICES ASSUME NEW w \in Thread, pc'[w] = "dispose"
               PROVE  seen'[w] \cup rel' = Thread
    BY DEF AcquireWouldOrder
  <2>1. w = t
    BY NullAssumption, OwnedNotDisposed DEF CountInv, TypeOK
  <2> QED
    BY <1>3, <2>1 DEF CountInv, TypeOK
<1> QED
  BY <1>2, <1>3, <1>4

LEMMA SkewedOrder ==
  ASSUME OrderInv, NEW t \in Thread, Skewed(t), CountInv'
  PROVE  OrderInv'
<1> USE DEF OrderInv
<1>1. CASE SkewedSub(t)
  <2> USE <1>1 DEF SkewedSub, AfterSub
  <2>1. releasing[t] \in Ref /\ owner[releasing[t]] = t
    BY DEF CountInv, InReleaseOwns
  <2>2. /\ \A u \in Thread : u \in seen'[u]
        /\ Covered'
        /\ count = 1 => seen'[t] = Thread
    BY <2>1, FetchSubOrder
  <2>3. AcquireWouldOrder'
    <3> SUFFICES ASSUME NEW w \in Thread, pc'[w] = "dispose"
                 PROVE  seen'[w] \cup rel' = Thread
      BY DEF AcquireWouldOrder
    <3>1. w = t
      BY <2>1, NullAssumption, OwnedNotDisposed DEF CountInv, TypeOK
    <3> QED
      BY <2>2, <3>1 DEF CountInv, TypeOK
  <2> QED
    BY <2>2, <2>3
<1>2. ASSUME NEW r \in Ref, SkewedLoad(t, r) PROVE OrderInv'
  <2> USE <1>2 DEF SkewedLoad, Owns, Idle, memory
  <2>1. CASE owner' = [owner EXCEPT ![r] = NoThread] /\ 1 \in readable[t]
             /\ pc' = [pc EXCEPT ![t] = "dispose"]
    <3>1. Outstanding = {r}
      BY <2>1, NullAssumption, OneMeansLast
      DEF CountInv, NoStaleOne, Outstanding
    <3>2. Outstanding' = {}
      BY <2>1, <3>1 DEF Outstanding, CountInv, TypeOK
    <3>3. seen[t] \cup rel = Thread
      BY <3>1, LastOwnerCovers
    <3>4. AcquireWouldOrder'
      BY <2>1, <3>3, NullAssumption, OwnedNotDisposed
      DEF AcquireWouldOrder, CountInv, TypeOK
    <3> QED
      BY <3>2, <3>4 DEF Covered
  <2>2. CASE UNCHANGED owner /\ pc' = [pc EXCEPT ![t] = "sub"]
    BY <2>2 DEF Covered, Outstanding, AcquireWouldOrder, CountInv, TypeOK
  <2> QED
    BY <2>1, <2>2
<1> QED
  BY <1>1, <1>2 DEF Skewed

LEMMA NextOrderInv == OrderInv /\ [Next]_vars => OrderInv'
<1> SUFFICES ASSUME OrderInv, [Next]_vars PROVE OrderInv'
  OBVIOUS
<1>1. CountInv'
  BY NextCountInv DEF OrderInv
<1>2. CASE UNCHANGED vars
  BY <1>1, <1>2 DEF vars, memory, OrderInv, Covered, Outstanding,
                    AcquireWouldOrder
<1> QED
  BY <1>1, <1>2, ClientOrder, PlainOrder, SkewedOrder DEF Next

(* Whatever mix of plain and skewed decrements is used, an acquire of the  *)
(* counter's latest value would put every earlier access to the object     *)
(* before its disposal: the release half of the decrements suffices, and   *)
(* only the acquire half is missing from the skewed decrement's shortcut.  *)
THEOREM AcquireSuffices == Spec => []AcquireWouldOrder
<1>1. Spec => []OrderInv
  BY InitOrderInv, NextOrderInv, PTL DEF Spec
<1> QED
  BY <1>1, PTL DEF OrderInv

(* A thread that a fetch_sub, of either decrement, tells to dispose has    *)
(* every access to the object in its past.                                 *)
THEOREM FetchSubDisposalOrdered == Spec => SubOrders
<1> DEFINE Orders == \A t \in Thread :
       pc[t] # "dispose" /\ pc'[t] = "dispose" /\ count' # count => seen'[t] = Thread
<1>1. OrderInv /\ [Next]_vars => Orders
  <2> SUFFICES ASSUME OrderInv, [Next]_vars, NEW w \in Thread,
                      pc[w] # "dispose", pc'[w] = "dispose", count' # count
               PROVE  seen'[w] = Thread
    OBVIOUS
  <2>1. CASE UNCHANGED vars
    BY <2>1 DEF vars
  <2>2. ASSUME NEW t \in Thread, Client(t) PROVE FALSE
    BY <2>2 DEF Client, Use, Dispose, RefcountInit, Increment, Send, OrderInv,
                CountInv, TypeOK
  <2>3. ASSUME NEW t \in Thread, NEW r \in Ref, Decrement(t, r)
        PROVE  seen'[w] = Thread
    <3>1. w = t /\ count = 1
      BY <2>3 DEF Decrement, AfterSub, OrderInv, CountInv, TypeOK
    <3> QED
      BY <2>3, <3>1, FetchSubOrder DEF Decrement, Owns
  <2>4. ASSUME NEW t \in Thread, NEW r \in Ref, SkewedLoad(t, r) PROVE FALSE
    BY <2>4 DEF SkewedLoad, memory
  <2>5. ASSUME NEW t \in Thread, SkewedSub(t) PROVE seen'[w] = Thread
    <3>1. w = t /\ count = 1
      BY <2>5 DEF SkewedSub, AfterSub, OrderInv, CountInv, TypeOK
    <3>2. releasing[t] \in Ref /\ owner[releasing[t]] = t
      BY <2>5 DEF SkewedSub, OrderInv, CountInv, InReleaseOwns
    <3> QED
      BY <2>5, <3>1, <3>2, FetchSubOrder DEF SkewedSub
  <2> QED
    BY <2>1, <2>2, <2>3, <2>4, <2>5 DEF Next, Plain, Skewed
<1>2. Spec => []OrderInv
  BY InitOrderInv, NextOrderInv, PTL DEF Spec
<1> QED
  BY <1>1, <1>2, PTL DEF Spec, SubOrders

(* When all releases use u7_refcount_decrement, the disposal of the object *)
(* happens after every access to it by any thread.                         *)
THEOREM PlainDisposalIsOrdered == PlainSpec => []DisposalOrdered
<1> DEFINE PInv == OrderInv /\ DisposalOrdered
<1>1. Init => PInv
  BY InitOrderInv DEF Init, DisposalOrdered
<1>2. PInv /\ [PlainNext]_vars => PInv'
  <2> SUFFICES ASSUME PInv, [PlainNext]_vars PROVE PInv'
    OBVIOUS
  <2>1. OrderInv'
    BY NextOrderInv DEF PlainNext, Next
  <2>2. ASSUME NEW t \in Thread, Plain(t) PROVE DisposalOrdered'
    <3>1. pc'[t] = "dispose" => seen'[t] = Thread
      BY <2>1, <2>2, PlainOrder DEF OrderInv
    <3>2. \A w \in Thread \ {t} : pc'[w] # "dispose"
      BY <2>2, NullAssumption, OwnedNotDisposed
      DEF Plain, Decrement, Owns, OrderInv, CountInv, TypeOK
    <3> QED
      BY <3>1, <3>2 DEF DisposalOrdered
  <2>3. ASSUME NEW t \in Thread, Client(t) PROVE DisposalOrdered'
    <3>1. CASE Dispose(t)
      BY <3>1 DEF Dispose, memory, DisposalOrdered, OrderInv, CountInv, TypeOK
    <3>2. CASE Use(t)
      BY <3>2, NullAssumption, OwnedNotDisposed
      DEF Use, DisposalOrdered, OrderInv
    <3>3. ASSUME NEW r \in Ref, RefcountInit(t, r) PROVE DisposalOrdered'
      BY <3>3 DEF RefcountInit, Idle, DisposalOrdered
    <3>4. ASSUME NEW r \in Ref, NEW s \in Ref, Increment(t, r, s)
          PROVE DisposalOrdered'
      BY <3>4 DEF Increment, FetchAddRelaxed, DisposalOrdered
    <3>5. ASSUME NEW r \in Ref, NEW u \in Thread, Send(t, u, r)
          PROVE DisposalOrdered'
      BY <3>5, NullAssumption, OwnedNotDisposed
      DEF Send, Owns, DisposalOrdered, OrderInv
    <3> QED
      BY <2>3, <3>1, <3>2, <3>3, <3>4, <3>5 DEF Client
  <2>4. CASE UNCHANGED vars
    BY <2>1, <2>4 DEF vars, memory, DisposalOrdered
  <2> QED
    BY <2>1, <2>2, <2>3, <2>4 DEF PlainNext
<1> QED
  BY <1>1, <1>2, PTL DEF PlainSpec

-----------------------------------------------------------------------------
(* Shared ownership.                                                       *)

(* A step that gives up the reference r of t, and has t dispose exactly    *)
(* when it was the last, is a Drop of the abstract specification.          *)
LEMMA GivingUpIsDrop ==
  ASSUME CountInv, NEW t \in Thread, NEW r \in Ref, owner[r] = t,
         owner' = [owner EXCEPT ![r] = NoThread],
         NEW d \in {"idle", "dispose"}, pc' = [pc EXCEPT ![t] = d],
         d = "dispose" <=> Outstanding = {r}
  PROVE  Shared!Drop(t, r)
<1>1. pc[t] # "dispose"
  BY NullAssumption, OwnedNotDisposed
<1>2. Shared!Outstanding = Outstanding
  BY DEF Shared!Outstanding, Outstanding
<1>3. {u \in Thread : pc'[u] = "dispose"}
        = IF Outstanding = {r} THEN {u \in Thread : pc[u] = "dispose"} \cup {t}
          ELSE {u \in Thread : pc[u] = "dispose"}
  BY <1>1 DEF CountInv, TypeOK
<1> QED
  BY <1>2, <1>3 DEF Shared!Drop

LEMMA FetchSubLast ==
  ASSUME CountInv, NEW r \in Outstanding
  PROVE  count = 1 <=> Outstanding = {r}
<1>1. ASSUME Outstanding = {r} PROVE count = 1
  <2>1. Cardinality(Outstanding) = 1 /\ Outstanding # {}
    BY <1>1, FS_Singleton
  <2> QED
    BY <2>1, IntMaxAssumption DEF CountInv, CountExact, Wrap
<1> QED
  BY <1>1, OneMeansLast DEF CountInv

LEMMA StepIsShared == CountInv /\ [Next]_vars => [Shared!Next]_(Shared!vars)
<1> SUFFICES ASSUME CountInv, [Next]_vars
             PROVE  Shared!Next \/ UNCHANGED Shared!vars
  OBVIOUS
<1> USE DEF Shared!vars
<1>1. Shared!Outstanding = Outstanding
  BY DEF Shared!Outstanding, Outstanding
<1>2. ASSUME NEW t \in Thread, NEW r \in Ref, Decrement(t, r)
      PROVE  Shared!Drop(t, r)
  <2>1. r \in Outstanding /\ owner[r] = t
    BY <1>2, NullAssumption DEF Decrement, Owns, Outstanding
  <2>2. AfterSub(t) \in {"idle", "dispose"}
        /\ (AfterSub(t) = "dispose" <=> Outstanding = {r})
    BY <2>1, FetchSubLast DEF AfterSub
  <2> QED
    BY <1>2, <2>1, <2>2, GivingUpIsDrop DEF Decrement
<1>3. ASSUME NEW t \in Thread, SkewedSub(t)
      PROVE  \E r \in Ref : Shared!Drop(t, r)
  <2>1. PICK r \in Ref : r = releasing[t]
    BY <1>3 DEF SkewedSub, CountInv, InReleaseOwns
  <2>2. r \in Outstanding /\ owner[r] = t
    BY <1>3, <2>1, NullAssumption
    DEF SkewedSub, CountInv, InReleaseOwns, Outstanding
  <2>3. AfterSub(t) \in {"idle", "dispose"}
        /\ (AfterSub(t) = "dispose" <=> Outstanding = {r})
    BY <2>2, FetchSubLast DEF AfterSub
  <2> QED
    BY <1>3, <2>1, <2>2, <2>3, GivingUpIsDrop DEF SkewedSub
<1>4. ASSUME NEW t \in Thread, NEW r \in Ref, SkewedLoad(t, r)
      PROVE  Shared!Drop(t, r) \/ UNCHANGED Shared!vars
  <2> USE <1>4 DEF SkewedLoad, Owns, Idle
  <2>1. CASE 1 \in readable[t] /\ owner' = [owner EXCEPT ![r] = NoThread]
             /\ pc' = [pc EXCEPT ![t] = "dispose"]
    <3>1. Outstanding = {r}
      BY <2>1, NullAssumption, OneMeansLast
      DEF CountInv, NoStaleOne, Outstanding
    <3> QED
      BY <2>1, <3>1, GivingUpIsDrop
  <2>2. CASE UNCHANGED owner /\ pc' = [pc EXCEPT ![t] = "sub"]
    BY <2>2 DEF CountInv, TypeOK
  <2> QED
    BY <2>1, <2>2
<1>5. ASSUME NEW t \in Thread, Client(t)
      PROVE  Shared!Next \/ UNCHANGED Shared!vars
  <2>1. CASE Use(t)
    BY <2>1 DEF Use
  <2>2. CASE Dispose(t)
    <3>1. Shared!Dispose(t)
      BY <2>2 DEF Dispose, Shared!Dispose, CountInv, TypeOK
    <3> QED
      BY <3>1 DEF Shared!Next
  <2>3. ASSUME NEW r \in Ref, RefcountInit(t, r) PROVE Shared!Next
    <3>1. Shared!Create(t, r)
      BY <1>1, <2>3 DEF RefcountInit, Idle, Shared!Create
    <3> QED
      BY <3>1 DEF Shared!Next
  <2>4. ASSUME NEW r \in Ref, NEW s \in Ref, Increment(t, r, s)
        PROVE Shared!Next
    <3>1. Shared!Share(t, r, s)
      BY <2>4 DEF Increment, Owns, Shared!Share
    <3> QED
      BY <3>1 DEF Shared!Next
  <2>5. ASSUME NEW r \in Ref, NEW u \in Thread, Send(t, u, r)
        PROVE Shared!Next
    <3>1. Shared!Hand(t, u, r)
      BY <2>5 DEF Send, Owns, Shared!Hand
    <3> QED
      BY <3>1 DEF Shared!Next
  <2> QED
    BY <1>5, <2>1, <2>2, <2>3, <2>4, <2>5 DEF Client
<1>6. CASE UNCHANGED vars
  BY <1>6 DEF vars
<1>7. ASSUME NEW t \in Thread, Plain(t) PROVE Shared!Next
  BY <1>2, <1>7 DEF Plain, Shared!Next
<1>8. ASSUME NEW t \in Thread, Skewed(t)
      PROVE  Shared!Next \/ UNCHANGED Shared!vars
  <2>1. ASSUME NEW r \in Ref, SkewedLoad(t, r)
        PROVE  Shared!Next \/ UNCHANGED Shared!vars
    <3>1. CASE Shared!Drop(t, r)
      BY <3>1 DEF Shared!Next
    <3> QED
      BY <1>4, <2>1, <3>1
  <2>2. CASE SkewedSub(t)
    <3>1. \E r \in Ref : Shared!Drop(t, r)
      BY <1>3, <2>2
    <3> QED
      BY <3>1 DEF Shared!Next
  <2> QED
    BY <1>8, <2>1, <2>2 DEF Skewed
<1> QED
  BY <1>5, <1>6, <1>7, <1>8 DEF Next

(* u7_refcount implements shared ownership: exactly the thread that gives  *)
(* up the last reference is told to dispose, under every interleaving of   *)
(* the atomic operations and for every value a relaxed load may return.    *)
THEOREM RefcountImplementsOwnership == Spec => ImplementsOwnership
<1>1. Init => Shared!Init
  BY DEF Init, Shared!Init
<1> QED
  BY <1>1, StepIsShared, CountInvariant, PTL
  DEF Spec, ImplementsOwnership, Shared!Spec

(* No interleaving of releases leaves an object without a disposer: the    *)
(* step that drops the last reference has its thread dispose.              *)
THEOREM SomeoneDisposes == Spec => LastReleaseDisposes
<1> DEFINE Elects == Outstanding # {} /\ Outstanding' = {} =>
                       \E t \in Thread : pc'[t] = "dispose"
<1>1. CountInv /\ [Next]_vars => Elects
  <2> SUFFICES ASSUME CountInv, [Next]_vars,
                      NEW q \in Outstanding, Outstanding' = {}
               PROVE  \E t \in Thread : pc'[t] = "dispose"
    OBVIOUS
  <2>1. CASE UNCHANGED Shared!vars
    BY <2>1 DEF Shared!vars, Outstanding
  <2>2. ASSUME NEW t \in Thread, NEW r \in Ref, Shared!Drop(t, r)
        PROVE  pc'[t] = "dispose"
    <3>1. r = q
      BY <2>2 DEF Shared!Drop, Outstanding, CountInv, TypeOK
    <3>2. Outstanding = {r}
      BY <2>2, <3>1 DEF Shared!Drop, Outstanding, CountInv, TypeOK
    <3>3. t \in {u \in Thread : pc'[u] = "dispose"}
      BY <2>2, <3>2 DEF Shared!Drop, Shared!Outstanding, Outstanding
    <3> QED
      BY <3>3
  <2>3. ASSUME NEW t \in Thread, NEW r \in Ref,
               \/ Shared!Dispose(t)
               \/ Shared!Create(t, r)
               \/ \E s \in Ref : Shared!Share(t, r, s)
               \/ \E u \in Thread : Shared!Hand(t, u, r)
        PROVE  FALSE
    BY <2>3, NullAssumption
    DEF Shared!Dispose, Shared!Create, Shared!Share, Shared!Hand, Outstanding,
        CountInv, TypeOK
  <2> QED
    BY <2>1, <2>2, <2>3, StepIsShared DEF Shared!Next, Outstanding
<1> QED
  BY <1>1, CountInvariant, PTL DEF Spec, LastReleaseDisposes
=============================================================================
