--------------------------- MODULE SpinlockProofs ---------------------------
(***************************************************************************)
(* Proofs about Spinlock, for any threads, any number of processors and    *)
(* any limits of the backoff.                                              *)
(***************************************************************************)
EXTENDS Spinlock, TLAPS

(* The types of what the lock itself is made of.                           *)
LockTypes ==
  /\ flag \in BOOLEAN
  /\ pc \in [Thread -> {"idle", "spin", "backoff", "critical"}]
  /\ rel \in SUBSET Thread
  /\ seen \in [Thread -> SUBSET Thread]

(* While the flag is clear nobody holds the lock, and every access under   *)
(* it has been released through the flag.                                  *)
ClearMeansFree ==
  ~flag => rel = Thread /\ \A t \in Thread : pc[t] # "critical"

LockInv == LockTypes /\ ClearMeansFree /\ MutualExclusion /\ CriticalOrdered

LEMMA InitLockInv == Init => LockInv
BY DEF Init, LockInv, LockTypes, ClearMeansFree, MutualExclusion, CriticalOrdered

(* A test-and-set by t that enters the critical section only if the flag   *)
(* was clear.                                                              *)
LEMMA TestAndSetStep ==
  ASSUME LockInv, NEW t \in Thread, pc[t] # "critical", TestAndSet(t),
         NEW waiting \in {"idle", "backoff"},
         pc' = [pc EXCEPT ![t] = IF Obtained THEN "critical" ELSE waiting]
  PROVE  LockInv'
<1> USE DEF LockInv, TestAndSet, Obtained
<1>1. LockTypes' /\ ClearMeansFree'
  BY DEF LockTypes, ClearMeansFree
<1>2. CASE flag
  BY <1>1, <1>2 DEF LockTypes, MutualExclusion, CriticalOrdered
<1>3. CASE ~flag
  <2>1. seen'[t] = Thread
    BY <1>3 DEF LockTypes, ClearMeansFree
  <2>2. \A u \in Thread : pc'[u] = "critical" <=> u = t
    BY <1>3 DEF LockTypes, ClearMeansFree
  <2> QED
    BY <1>1, <2>1, <2>2 DEF MutualExclusion, CriticalOrdered
<1> QED
  BY <1>2, <1>3 DEF LockTypes

(* A step that leaves the flag, the order of accesses and the set of       *)
(* holders alone.                                                          *)
LEMMA OutsideStep ==
  ASSUME LockInv, UNCHANGED <<flag, rel, seen>>,
         pc' \in [Thread -> {"idle", "spin", "backoff", "critical"}],
         \A t \in Thread : pc'[t] = "critical" <=> pc[t] = "critical"
  PROVE  LockInv'
BY DEF LockInv, LockTypes, ClearMeansFree, MutualExclusion, CriticalOrdered

LEMMA NextLockInv == LockInv /\ [Next]_vars => LockInv'
<1> SUFFICES ASSUME LockInv, [Next]_vars PROVE LockInv'
  OBVIOUS
<1>1. ASSUME NEW t \in Thread, Trylock(t) PROVE LockInv'
  BY <1>1, TestAndSetStep DEF Trylock
<1>2. ASSUME NEW t \in Thread, Spin(t) PROVE LockInv'
  BY <1>2, TestAndSetStep DEF Spin
<1>3. ASSUME NEW t \in Thread, Lock(t) PROVE LockInv'
  BY <1>3, OutsideStep DEF Lock, order, LockInv, LockTypes
<1>4. ASSUME NEW t \in Thread, Backoff(t) PROVE LockInv'
  BY <1>4, OutsideStep DEF Backoff, order, LockInv, LockTypes
<1>5. ASSUME NEW t \in Thread, Block(t) \/ Wake(t) PROVE LockInv'
  BY <1>5, OutsideStep DEF Block, Wake, order, LockInv, LockTypes
<1>6. ASSUME NEW t \in Thread, Access(t) PROVE LockInv'
  <2> USE <1>6 DEF Access, LockInv
  <2>1. LockTypes' /\ ClearMeansFree'
    BY DEF LockTypes, ClearMeansFree
  <2>2. MutualExclusion' /\ CriticalOrdered'
    BY DEF LockTypes, MutualExclusion, CriticalOrdered
  <2> QED
    BY <2>1, <2>2
<1>7. ASSUME NEW t \in Thread, Unlock(t) PROVE LockInv'
  <2> USE <1>7 DEF Unlock, Clear, LockInv
  <2>1. \A u \in Thread : pc'[u] # "critical"
    BY DEF LockTypes, MutualExclusion
  <2>2. rel' = Thread
    BY DEF CriticalOrdered
  <2> QED
    BY <2>1, <2>2
    DEF LockTypes, ClearMeansFree, MutualExclusion, CriticalOrdered
<1>8. CASE UNCHANGED vars
  BY <1>8, OutsideStep DEF vars, order, LockInv, LockTypes
<1> QED
  BY <1>1, <1>2, <1>3, <1>4, <1>5, <1>6, <1>7, <1>8 DEF Next

LEMMA LockInvariant == Spec => []LockInv
BY InitLockInv, NextLockInv, PTL DEF Spec

(* u7_spinlock excludes: of any number of threads that lock, try to lock,  *)
(* back off and unlock, at most one holds the lock.                        *)
THEOREM LockExcludes == Spec => []MutualExclusion
BY LockInvariant, PTL DEF LockInv

(* The memory orders of u7_spinlock suffice: whoever holds the lock has    *)
(* every earlier access to the protected data in its past.                 *)
THEOREM LockOrders == Spec => []CriticalOrdered
BY LockInvariant, PTL DEF LockInv

-----------------------------------------------------------------------------
(* The backoff counter and the scheduler's queue have their types as well. *)
SchedTypes ==
  /\ k \in [Thread -> 0 .. YieldLimit]
  /\ running \in SUBSET Thread
  /\ ready \in Seq(Thread)

LEMMA SleepTypes ==
  ASSUME SchedTypes, NEW t \in Thread, Sleep(t) \/ Yield(t)
  PROVE  running' \in SUBSET Thread /\ ready' \in Seq(Thread)
<1> USE DEF SchedTypes
<1>1. CASE ready = <<>>
  BY <1>1 DEF Sleep, Yield, sched
<1>2. CASE ready # <<>>
  <2>1. Head(ready) \in Thread /\ Tail(ready) \in Seq(Thread)
    BY <1>2
  <2>2. Append(Tail(ready), t) \in Seq(Thread)
    BY <2>1
  <2> QED
    BY <1>2, <2>1, <2>2 DEF Sleep, Yield
<1> QED
  BY <1>1, <1>2

LEMMA NextKType ==
  ASSUME NEW n \in 0 .. YieldLimit
  PROVE  NextK(n) \in 0 .. YieldLimit
BY LimitAssumption DEF NextK

LEMMA SchedTypesStep == LockInv /\ SchedTypes /\ [Next]_vars => SchedTypes'
<1> SUFFICES ASSUME LockInv, SchedTypes, [Next]_vars PROVE SchedTypes'
  OBVIOUS
<1>1. ASSUME NEW t \in Thread,
             Trylock(t) \/ Spin(t) \/ Access(t) \/ Unlock(t)
      PROVE  SchedTypes'
  BY <1>1 DEF Trylock, Spin, Access, Unlock, sched, SchedTypes
<1>2. ASSUME NEW t \in Thread, Lock(t) PROVE SchedTypes'
  BY <1>2, LimitAssumption DEF Lock, sched, SchedTypes
<1>3. ASSUME NEW t \in Thread, Block(t) PROVE SchedTypes'
  BY <1>3, SleepTypes DEF Block, SchedTypes
<1>4. ASSUME NEW t \in Thread, Wake(t) PROVE SchedTypes'
  <2>1. \/ running' = running \cup {t} /\ ready' = ready
        \/ running' = running /\ ready' = Append(ready, t)
    BY <1>4 DEF Wake
  <2>2. Append(ready, t) \in Seq(Thread)
    BY DEF SchedTypes
  <2>3. k' = k
    BY <1>4 DEF Wake
  <2> QED
    BY <2>1, <2>2, <2>3 DEF SchedTypes
<1>5. ASSUME NEW t \in Thread, Backoff(t) PROVE SchedTypes'
  <2>1. k' \in [Thread -> 0 .. YieldLimit]
    BY <1>5, NextKType DEF Backoff, SchedTypes
  <2>2. running' \in SUBSET Thread /\ ready' \in Seq(Thread)
    BY <1>5, SleepTypes DEF Backoff, SchedTypes, sched
  <2> QED
    BY <2>1, <2>2 DEF SchedTypes
<1>6. CASE UNCHANGED vars
  BY <1>6 DEF vars, sched, SchedTypes
<1> QED
  BY <1>1, <1>2, <1>3, <1>4, <1>5, <1>6 DEF Next

(* The backoff counter never leaves 0 .. YieldLimit, however long a thread *)
(* waits and whatever the limits; the other variables have their types.    *)
THEOREM TypeCorrect == Spec => []TypeOK
<1>1. Init => SchedTypes
  BY LimitAssumption DEF Init, SchedTypes
<1>2. LockInv /\ SchedTypes => TypeOK
  BY DEF LockInv, LockTypes, SchedTypes, TypeOK
<1> QED
  BY <1>1, <1>2, SchedTypesStep, LockInvariant, PTL DEF Spec

-----------------------------------------------------------------------------
(* The flag implements the abstract lock.                                  *)

(* A test-and-set obtains the lock only when nobody holds it.              *)
LEMMA ObtainedMeansFree == LockInv /\ Obtained => Critical = {}
BY DEF LockInv, ClearMeansFree, Obtained, Critical

LEMMA MutexStep == LockInv /\ [Next]_vars => [M!Next]_(M!vars)
<1> SUFFICES ASSUME LockInv, [Next]_vars PROVE M!Next \/ UNCHANGED M!vars
  OBVIOUS
<1> USE DEF LockInv, LockTypes
<1>1. ASSUME NEW t \in Thread, Trylock(t) PROVE M!Next \/ UNCHANGED M!vars
  <2>1. CASE Obtained
    <3>1. M!Trylock(t)
      BY <1>1, <2>1, ObtainedMeansFree
      DEF Trylock, M!Trylock, Critical, Waiting
    <3> QED
      BY <3>1 DEF M!Next
  <2>2. CASE ~Obtained
    BY <1>1, <2>2 DEF Trylock, M!vars, Critical, Waiting
  <2> QED
    BY <2>1, <2>2
<1>2. ASSUME NEW t \in Thread, Spin(t) PROVE M!Next \/ UNCHANGED M!vars
  <2>1. CASE Obtained
    <3>1. M!Acquire(t)
      BY <1>2, <2>1, ObtainedMeansFree
      DEF Spin, M!Acquire, Critical, Waiting
    <3> QED
      BY <3>1 DEF M!Next
  <2>2. CASE ~Obtained
    BY <1>2, <2>2 DEF Spin, M!vars, Critical, Waiting
  <2> QED
    BY <2>1, <2>2
<1>3. ASSUME NEW t \in Thread, Lock(t) PROVE M!Next \/ UNCHANGED M!vars
  <2>1. M!Lock(t)
    BY <1>3 DEF Lock, M!Lock, Critical, Waiting
  <2> QED
    BY <2>1 DEF M!Next
<1>4. ASSUME NEW t \in Thread, Unlock(t) PROVE M!Next \/ UNCHANGED M!vars
  <2>1. Critical = {t}
    BY <1>4 DEF Unlock, MutualExclusion, Critical
  <2>2. M!Unlock(t)
    BY <1>4, <2>1 DEF Unlock, M!Unlock, Critical, Waiting
  <2> QED
    BY <2>2 DEF M!Next
<1>5. ASSUME NEW t \in Thread, Backoff(t) PROVE UNCHANGED M!vars
  BY <1>5 DEF Backoff, M!vars, Critical, Waiting
<1>6. ASSUME NEW t \in Thread, Access(t) \/ Block(t) \/ Wake(t)
      PROVE  UNCHANGED M!vars
  BY <1>6 DEF Access, Block, Wake, M!vars, Critical, Waiting
<1>7. CASE UNCHANGED vars
  BY <1>7 DEF vars, M!vars, Critical, Waiting
<1> QED
  BY <1>1, <1>2, <1>3, <1>4, <1>5, <1>6, <1>7 DEF Next

(* The safety part of ImplementsMutex: for any threads, processors and     *)
(* limits the flag is taken only by a thread that finds it free, and given *)
(* back only by its holder.                                                *)
THEOREM RefinesMutex == Spec => M!Init /\ [][M!Next]_(M!vars)
<1>1. Init => M!Init
  BY DEF Init, M!Init, Critical, Waiting
<1> QED
  BY <1>1, MutexStep, LockInvariant, PTL DEF Spec
=============================================================================
