------------------------------ MODULE Spinlock ------------------------------
(***************************************************************************)
(* u7_spinlock (public/spinlock.h, spinlock.c), outside Apple's platforms: *)
(* a test-and-set lock whose waiters back off.                             *)
(*                                                                         *)
(* Happens-before is kept as in Refcount: u \in seen[t] when the last      *)
(* access of u to the data the lock protects happens before what t does    *)
(* next, u \in rel when it was released through the flag's latest value.   *)
(*                                                                         *)
(* The backoff matters when threads compete for processors, so these are   *)
(* part of the model: Cpus processors, a queue of threads ready to run,    *)
(* and no preemption inside an operation of the lock.  A thread leaves its *)
(* processor by sched_yield, by nanosleep, or by blocking in its own code. *)
(***************************************************************************)
EXTENDS Integers, Sequences, FiniteSets

CONSTANTS
  Thread,      (* the threads that use the lock                           *)
  Cpus,        (* the number of processors                                *)
  PauseLimit,  (* 16: below it the thread only counts or pauses           *)
  YieldLimit   (* 32: below it the thread yields or naps; then it sleeps  *)

ASSUME CpusAssumption == Cpus \in Nat \ {0}

ASSUME LimitAssumption ==
  PauseLimit \in Nat /\ YieldLimit \in Nat /\ PauseLimit =< YieldLimit

VARIABLES
  flag,     (* u7_spinlock.flag                                           *)
  pc,       (* where each thread is                                       *)
  k,        (* the local variable of u7_spinlock_lock                     *)
  rel,      (* the accesses released through the flag                     *)
  seen,     (* the accesses that happen before each thread's next step    *)
  running,  (* the threads on a processor                                 *)
  ready     (* the threads that wait for a processor, in order            *)

order == <<rel, seen>>
sched == <<running, ready>>
vars == <<flag, pc, k, order, sched>>

-----------------------------------------------------------------------------
(* Processors.                                                             *)

(* t goes to the end of the queue, if somebody else is in it.              *)
Yield(t) ==
  IF ready = <<>> THEN UNCHANGED sched
  ELSE /\ running' = (running \ {t}) \cup {Head(ready)}
       /\ ready' = Append(Tail(ready), t)

(* t leaves its processor until it wakes up.                               *)
Sleep(t) ==
  IF ready = <<>> THEN running' = running \ {t} /\ UNCHANGED ready
  ELSE /\ running' = (running \ {t}) \cup {Head(ready)}
       /\ ready' = Tail(ready)

Asleep(t) == t \notin running /\ \A i \in DOMAIN ready : ready[i] # t

(* The end of a sleep or of whatever t was blocked in.                     *)
Wake(t) ==
  /\ Asleep(t)
  /\ IF Cardinality(running) < Cpus
       THEN running' = running \cup {t} /\ UNCHANGED ready
       ELSE ready' = Append(ready, t) /\ UNCHANGED running
  /\ UNCHANGED <<flag, pc, k, order>>

-----------------------------------------------------------------------------
(* The operations of the lock.                                             *)

(* The initialised lock (U7_SPINLOCK_INIT or u7_spinlock_init) is shared   *)
(* before anything else happens.                                           *)
Init ==
  /\ flag = FALSE
  /\ pc = [t \in Thread |-> "idle"]
  /\ k = [t \in Thread |-> 0]
  /\ rel = Thread
  /\ seen = [t \in Thread |-> Thread]
  /\ running = {}
  /\ ready = <<>>

(* atomic_flag_test_and_set with acquire order; it continues the release   *)
(* sequence of the last clear.                                             *)
TestAndSet(t) ==
  /\ flag' = TRUE
  /\ seen' = [seen EXCEPT ![t] = @ \cup rel]
  /\ UNCHANGED rel

(* Mutant of Obtained: the result is not negated.                          *)
ObtainedInverted == flag

(* The test-and-set found the flag clear.                                  *)
Obtained == ~flag

(* u7_spinlock_trylock.                                                    *)
Trylock(t) ==
  /\ t \in running /\ pc[t] = "idle"
  /\ TestAndSet(t)
  /\ pc' = [pc EXCEPT ![t] = IF Obtained THEN "critical" ELSE "idle"]
  /\ UNCHANGED <<k, sched>>

(* The call of u7_spinlock_lock.                                           *)
Lock(t) ==
  /\ t \in running /\ pc[t] = "idle"
  /\ pc' = [pc EXCEPT ![t] = "spin"]
  /\ k' = [k EXCEPT ![t] = 0]
  /\ UNCHANGED <<flag, order, sched>>

(* The condition of its loop.                                              *)
Spin(t) ==
  /\ t \in running /\ pc[t] = "spin"
  /\ TestAndSet(t)
  /\ pc' = [pc EXCEPT ![t] = IF Obtained THEN "critical" ELSE "backoff"]
  /\ UNCHANGED <<k, sched>>

(* Mutant of NextK: below PauseLimit the counter is returned as it was.    *)
NextKStuck(n) == IF PauseLimit =< n /\ n < YieldLimit THEN n + 1 ELSE n

(* Mutant of NextK: the comparison that ends the counting is dropped.      *)
NextKUnbounded(n) == n + 1

(* What u7_spinlock_internal_yield_k returns for n.                        *)
NextK(n) == IF n < YieldLimit THEN n + 1 ELSE n

(* u7_spinlock_internal_yield_k, the body of the loop.                     *)
Backoff(t) ==
  /\ t \in running /\ pc[t] = "backoff"
  /\ IF k[t] < PauseLimit THEN UNCHANGED sched
     ELSE IF k[t] < YieldLimit /\ k[t] % 2 = 1 THEN Yield(t)
     ELSE Sleep(t)
  /\ k' = [k EXCEPT ![t] = NextK(@)]
  /\ pc' = [pc EXCEPT ![t] = "spin"]
  /\ UNCHANGED <<flag, order>>

(* Mutant of Clear: no memory order.                                       *)
ClearRelaxed(t) == flag' = FALSE /\ rel' = {}

(* atomic_flag_clear with release order starts a release sequence.         *)
Clear(t) == flag' = FALSE /\ rel' = seen[t]

(* u7_spinlock_unlock.                                                     *)
Unlock(t) ==
  /\ t \in running /\ pc[t] = "critical"
  /\ Clear(t)
  /\ pc' = [pc EXCEPT ![t] = "idle"]
  /\ UNCHANGED <<k, seen, sched>>

-----------------------------------------------------------------------------
(* What the users of the lock do.                                          *)

(* A non-atomic access to the protected data.                              *)
Access(t) ==
  /\ t \in running /\ pc[t] = "critical"
  /\ seen' = [u \in Thread |-> IF u = t THEN seen[u] ELSE seen[u] \ {t}]
  /\ rel' = rel \ {t}
  /\ UNCHANGED <<flag, pc, k, sched>>

(* A thread blocks, or is preempted, in its own code.                      *)
Block(t) ==
  /\ t \in running /\ pc[t] \in {"idle", "critical"}
  /\ Sleep(t)
  /\ UNCHANGED <<flag, pc, k, order>>

Next ==
  \E t \in Thread :
    \/ Trylock(t) \/ Lock(t) \/ Spin(t) \/ Backoff(t) \/ Unlock(t)
    \/ Access(t) \/ Block(t) \/ Wake(t)

Spec == Init /\ [][Next]_vars

(* A thread on a processor runs inside the lock's operations, sleeps end,  *)
(* critical sections end, and a thread outside them does not keep its      *)
(* processor for ever.                                                     *)
Fairness ==
  \A t \in Thread :
    /\ WF_vars(Spin(t) \/ Backoff(t))
    /\ WF_vars(Wake(t))
    /\ SF_vars(Unlock(t))
    /\ WF_vars(Block(t) /\ pc[t] = "idle")

FairSpec == Spec /\ Fairness

-----------------------------------------------------------------------------
(* Properties.                                                             *)

(* Every variable has its type; the backoff stays at most at YieldLimit.   *)
TypeOK ==
  /\ flag \in BOOLEAN
  /\ pc \in [Thread -> {"idle", "spin", "backoff", "critical"}]
  /\ k \in [Thread -> 0 .. YieldLimit]
  /\ rel \in SUBSET Thread
  /\ seen \in [Thread -> SUBSET Thread]
  /\ running \in SUBSET Thread
  /\ ready \in Seq(Thread)

(* At most one thread is between a lock or a successful trylock and its    *)
(* unlock.                                                                 *)
MutualExclusion ==
  \A t, u \in Thread : pc[t] = "critical" /\ pc[u] = "critical" => t = u

(* Whoever holds the lock has every earlier access under the lock in its   *)
(* past: the protected data is free of races (the acquire order of the     *)
(* test-and-set against the release order of the clear).                   *)
CriticalOrdered ==
  \A t \in Thread : pc[t] = "critical" => seen[t] = Thread

(* The flag implements an abstract lock: threads hold it one at a time,    *)
(* trylock and lock take it only when it is free, and while threads wait   *)
(* a free lock is taken by somebody: no lost release, no deadlock between  *)
(* the backoffs.                                                           *)
Critical == {t \in Thread : pc[t] = "critical"}
Waiting == {t \in Thread : pc[t] \in {"spin", "backoff"}}
M == INSTANCE Mutex WITH holder <- Critical, waiting <- Waiting
ImplementsMutex == M!Spec

(* The waiters' backoff lets the holder have a processor and finish, also  *)
(* when the waiters occupy all of them (u7_spinlock_internal_yield_k).     *)
HolderFinishes ==
  \A t \in Thread : pc[t] = "critical" ~> pc[t] # "critical"
=============================================================================
