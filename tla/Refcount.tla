------------------------------ MODULE Refcount ------------------------------
(***************************************************************************)
(* u7_refcount (public/refcount.h): one atomic_int that counts the         *)
(* references to an object, used by several threads under the C11 memory   *)
(* model.                                                                  *)
(*                                                                         *)
(* The counter is an atomic location.  Read-modify-write operations act on *)
(* its latest value; a relaxed load may return any value that coherence    *)
(* still lets the thread see (readable).  Happens-before is kept as sets:  *)
(* u \in seen[t] when the last access of thread u to the counted object    *)
(* happens before what thread t does next, and u \in rel when it happens   *)
(* before whatever follows an acquire of the counter's latest value.       *)
(*                                                                         *)
(* References are individuals (Ref), so that the number outstanding is the *)
(* cardinality of a set and the bound on it is explicit.                   *)
(***************************************************************************)
EXTENDS Integers, FiniteSets

CONSTANTS
  Thread,    (* threads that use the object                               *)
  Ref,       (* references that can be outstanding at once                *)
  IntMax,    (* INT_MAX; an int ranges over -(IntMax+1)..IntMax           *)
  NoThread,  (* owner of a reference that is not outstanding              *)
  NoRef      (* what a thread that is not inside a release is releasing   *)

ASSUME IntMaxAssumption == IntMax \in Nat \ {0}

ASSUME NullAssumption == NoThread \notin Thread /\ NoRef \notin Ref

(* The counter wraps modulo 2(IntMax+1) = 2^32: up to that many references *)
(* can be told apart from a single one.                                    *)
ASSUME RefAssumption ==
  IsFiniteSet(Ref) /\ Cardinality(Ref) =< 2 * IntMax + 2

VARIABLES
  count,     (* the latest value of u7_refcount.count                     *)
  readable,  (* the values of count that a load by each thread may return *)
  rel,       (* the accesses released through the latest value of count   *)
  seen,      (* the accesses that happen before each thread's next step   *)
  owner,     (* the thread that owns each reference                       *)
  pc,        (* where each thread is                                      *)
  releasing  (* the reference a thread inside skewed_decrement gives up   *)

memory == <<count, readable, rel, seen>>
vars == <<memory, owner, pc, releasing>>

CInt == -(IntMax + 1) .. IntMax

(* Mutant of Wrap: arithmetic that does not wrap.                          *)
NoWrap(n) == n

(* Atomic signed arithmetic wraps around silently, here by one step.       *)
Wrap(n) ==
  IF n > IntMax THEN n - (2 * IntMax + 2)
  ELSE IF n < -(IntMax + 1) THEN n + (2 * IntMax + 2)
  ELSE n

Outstanding == {r \in Ref : owner[r] # NoThread}

Idle(t) == pc[t] = "idle"
Owns(t, r) == Idle(t) /\ owner[r] = t

-----------------------------------------------------------------------------
(* The atomic operations.                                                  *)

(* A read-modify-write leaves its thread with the value v it wrote as the  *)
(* only one to read; the others may read v besides what they could before. *)
StoreLatest(t, v) ==
  /\ count' = v
  /\ readable' = [u \in Thread |-> IF u = t THEN {v} ELSE readable[u] \cup {v}]

(* Mutant of FetchAddRelaxed: a load and a store instead of one            *)
(* read-modify-write, so that the sum may start from an older value.       *)
LoadThenStore(t) ==
  /\ \E v \in readable[t] : StoreLatest(t, Wrap(v + 1))
  /\ UNCHANGED <<rel, seen>>

(* Relaxed: continues the release sequence of rel and adds nothing to it.  *)
FetchAddRelaxed(t) ==
  /\ StoreLatest(t, Wrap(count + 1))
  /\ UNCHANGED <<rel, seen>>

(* Mutant of FetchSubAcqRel: the acquire half dropped.                     *)
FetchSubRelease(t) ==
  /\ StoreLatest(t, Wrap(count - 1))
  /\ rel' = rel \cup seen[t]
  /\ UNCHANGED seen

(* Mutant of FetchSubAcqRel: the release half dropped.                     *)
FetchSubAcquire(t) ==
  /\ StoreLatest(t, Wrap(count - 1))
  /\ seen' = [seen EXCEPT ![t] = @ \cup rel]
  /\ UNCHANGED rel

(* Acquire-release: t learns what was released, and releases what it saw.  *)
FetchSubAcqRel(t) ==
  /\ StoreLatest(t, Wrap(count - 1))
  /\ seen' = [seen EXCEPT ![t] = @ \cup rel]
  /\ rel' = rel \cup seen[t]

-----------------------------------------------------------------------------
(* The operations of public/refcount.h.                                    *)

Init ==
  /\ count = 0
  /\ readable = [t \in Thread |-> {0}]
  /\ rel = Thread
  /\ seen = [t \in Thread |-> Thread]
  /\ owner = [r \in Ref |-> NoThread]
  /\ pc = [t \in Thread |-> "idle"]
  /\ releasing = [t \in Thread |-> NoRef]

(* u7_refcount_init on a new object, in fresh memory.  The creator writes  *)
(* the rest of the object after the counter, hence rel without t.          *)
RefcountInit(t, r) ==
  /\ Outstanding = {} /\ \A u \in Thread : Idle(u)
  /\ count' = 1
  /\ readable' = [u \in Thread |-> {1}]
  /\ rel' = Thread \ {t}
  /\ seen' = [u \in Thread |-> IF u = t THEN Thread ELSE Thread \ {t}]
  /\ owner' = [owner EXCEPT ![r] = t]
  /\ UNCHANGED <<pc, releasing>>

(* u7_refcount_increment by the owner of r; s is the new reference.        *)
Increment(t, r, s) ==
  /\ Owns(t, r) /\ owner[s] = NoThread
  /\ FetchAddRelaxed(t)
  /\ owner' = [owner EXCEPT ![s] = t]
  /\ UNCHANGED <<pc, releasing>>

(* Mutant of AfterSub: tests the value left behind, not the one replaced.  *)
AfterSubOnNewValue(t) == IF Wrap(count - 1) = 1 THEN "dispose" ELSE "idle"

(* What the fetch_sub told its caller: FALSE means "dispose".              *)
AfterSub(t) == IF count = 1 THEN "dispose" ELSE "idle"

(* u7_refcount_decrement.                                                  *)
Decrement(t, r) ==
  /\ Owns(t, r)
  /\ FetchSubAcqRel(t)
  /\ owner' = [owner EXCEPT ![r] = NoThread]
  /\ pc' = [pc EXCEPT ![t] = AfterSub(t)]
  /\ UNCHANGED releasing

(* u7_refcount_skewed_decrement, the relaxed load.  Reading 1 ends the     *)
(* call with FALSE and leaves the counter alone.                           *)
SkewedLoad(t, r) ==
  /\ Owns(t, r)
  /\ \/ /\ 1 \in readable[t]
        /\ owner' = [owner EXCEPT ![r] = NoThread]
        /\ pc' = [pc EXCEPT ![t] = "dispose"]
        /\ UNCHANGED releasing
     \/ /\ readable[t] # {1}
        /\ pc' = [pc EXCEPT ![t] = "sub"]
        /\ releasing' = [releasing EXCEPT ![t] = r]
        /\ UNCHANGED owner
  /\ UNCHANGED memory

(* u7_refcount_skewed_decrement, the fetch_sub after a load other than 1.  *)
SkewedSub(t) ==
  /\ pc[t] = "sub"
  /\ FetchSubAcqRel(t)
  /\ owner' = [owner EXCEPT ![releasing[t]] = NoThread]
  /\ pc' = [pc EXCEPT ![t] = AfterSub(t)]
  /\ releasing' = [releasing EXCEPT ![t] = NoRef]

-----------------------------------------------------------------------------
(* What the users of the counter do around these operations.               *)

(* A non-atomic access to the object by an owner of a reference.           *)
Use(t) ==
  /\ Idle(t) /\ \E r \in Ref : owner[r] = t
  /\ seen' = [u \in Thread |-> IF u = t THEN seen[u] ELSE seen[u] \ {t}]
  /\ rel' = rel \ {t}
  /\ UNCHANGED <<count, readable, owner, pc, releasing>>

(* Mutant of Send: the pointer passes without synchronisation.             *)
SendRelaxed(t, u, r) ==
  /\ Owns(t, r) /\ Idle(u) /\ u # t
  /\ owner' = [owner EXCEPT ![r] = u]
  /\ UNCHANGED <<memory, pc, releasing>>

(* A reference passes to another thread by some synchronising means (a     *)
(* lock, a thread's start or end), which orders t's past before u's future *)
(* and brings u's view of the counter up to t's.                           *)
Send(t, u, r) ==
  /\ Owns(t, r) /\ Idle(u) /\ u # t
  /\ seen' = [seen EXCEPT ![u] = @ \cup seen[t]]
  /\ readable' = [readable EXCEPT ![u] = @ \cap readable[t]]
  /\ owner' = [owner EXCEPT ![r] = u]
  /\ UNCHANGED <<count, rel, pc, releasing>>

(* The thread that was told FALSE disposes of the object.                  *)
Dispose(t) ==
  /\ pc[t] = "dispose"
  /\ pc' = [pc EXCEPT ![t] = "idle"]
  /\ UNCHANGED <<memory, owner, releasing>>

Client(t) ==
  \/ Use(t)
  \/ Dispose(t)
  \/ \E r \in Ref :
       \/ RefcountInit(t, r)
       \/ \E s \in Ref : Increment(t, r, s)
       \/ \E u \in Thread : Send(t, u, r)

Plain(t) == \E r \in Ref : Decrement(t, r)

Skewed(t) == SkewedSub(t) \/ \E r \in Ref : SkewedLoad(t, r)

(* Clients that use the plain decrement only, the skewed one only (as      *)
(* u7_error_release does), or either.                                      *)
PlainNext == \E t \in Thread : Client(t) \/ Plain(t)
SkewedNext == \E t \in Thread : Client(t) \/ Skewed(t)
Next == \E t \in Thread : Client(t) \/ Plain(t) \/ Skewed(t)

PlainSpec == Init /\ [][PlainNext]_vars
SkewedSpec == Init /\ [][SkewedNext]_vars
Spec == Init /\ [][Next]_vars

-----------------------------------------------------------------------------
(* Properties.                                                             *)

(* Every variable has its type; in particular count stays a C int.         *)
TypeOK ==
  /\ count \in CInt
  /\ readable \in [Thread -> SUBSET CInt]
  /\ rel \in SUBSET Thread
  /\ seen \in [Thread -> SUBSET Thread]
  /\ owner \in [Ref -> Thread \cup {NoThread}]
  /\ pc \in [Thread -> {"idle", "sub", "dispose"}]
  /\ releasing \in [Thread -> Ref \cup {NoRef}]

(* While references are outstanding the counter is their number, modulo    *)
(* the width of an int: no interleaving of increments and decrements loses *)
(* one, also when the number exceeds INT_MAX (public/refcount.h, the       *)
(* fetch_add and the two fetch_subs).                                      *)
CountExact == Outstanding # {} => count = Wrap(Cardinality(Outstanding))

(* A thread that was told to dispose is alone: nobody owns a reference,    *)
(* nobody is between the load and the fetch_sub, and nobody else was told  *)
(* the same (both decrements return false at most once per object).        *)
SoleDisposer ==
  \A t \in Thread : pc[t] = "dispose" =>
    /\ Outstanding = {}
    /\ \A u \in Thread \ {t} : Idle(u)

(* The relaxed load of the skewed decrement may be out of date, but never  *)
(* shows a 1 that is no longer true to a thread that owns a reference.     *)
NoStaleOne ==
  \A t \in Thread, r \in Ref :
    owner[r] = t /\ 1 \in readable[t] => count = 1

(* The step that drops the last reference elects its thread to dispose, so *)
(* no interleaving of releases leaves an object without a disposer.        *)
LastReleaseDisposes ==
  [][Outstanding # {} /\ Outstanding' = {} =>
       \E t \in Thread : pc'[t] = "dispose"]_vars

(* Every access of another thread to the object happens before its         *)
(* disposal: disposing does not race with an earlier use.                  *)
DisposalOrdered ==
  \A t \in Thread : pc[t] = "dispose" => seen[t] = Thread

(* The fetch_sub of either decrement that elects a disposer also orders:   *)
(* only the relaxed load of 1 leaves earlier accesses unordered.           *)
SubOrders ==
  [][\A t \in Thread :
       pc[t] # "dispose" /\ pc'[t] = "dispose" /\ count' # count => seen'[t] = Thread]_vars

(* The accesses that the disposer has not synchronised with have all been  *)
(* released through the counter: one acquire of its latest value (an       *)
(* acquire load in the skewed decrement) would order them.                 *)
AcquireWouldOrder ==
  \A t \in Thread : pc[t] = "dispose" => seen[t] \cup rel = Thread

(* The counter implements shared ownership (Ownership): a thread between   *)
(* its load and its fetch_sub still owns the reference it is giving up.    *)
Shared == INSTANCE Ownership WITH disposing <- {t \in Thread : pc[t] = "dispose"}
ImplementsOwnership == Shared!Spec
=============================================================================
