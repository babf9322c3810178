----------------------------- MODULE ErrorChain -----------------------------
(***************************************************************************)
(* The ownership of u7_error values (error.c, public/error.h): variables   *)
(* of several threads that share chains of payloads, each with a reference *)
(* counter, and the loop of u7_error_release that takes chains apart.      *)
(*                                                                         *)
(* A u7_error is represented by its payload: error_code is nonzero exactly *)
(* when there is one.  Messages are left out: a payload owns its message,  *)
(* and ErrorChain leaves open whether one could be made.  Payloads are     *)
(* those of the errno category, the only one in the library.               *)
(*                                                                         *)
(* The counter is the one of Refcount.  For a thread that owns a reference *)
(* the relaxed load of the skewed decrement shows 1 only when it is true   *)
(* (Refcount!NoStaleOne), and may show an older value when it is.          *)
(*                                                                         *)
(* A variable is used by one thread at a time, as the program that uses    *)
(* the library sees to, and by several in turn.                            *)
(***************************************************************************)
EXTENDS Integers, FiniteSets

CONSTANTS
  Thread,    (* threads                                                   *)
  Var,       (* the u7_error variables of the program                     *)
  Payload,   (* heap addresses malloc may return for a payload            *)
  Fallback,  (* u7_errno_category_static_fallback_payload                 *)
  Null,      (* the payload pointer of u7_ok()                            *)
  NoVar      (* the variable assigned to by a thread that is in no call   *)

ASSUME PayloadAssumption ==
  Fallback \notin Payload /\ Null \notin Payload \cup {Fallback}

ASSUME FiniteAssumption == IsFiniteSet(Thread) /\ IsFiniteSet(Var) /\ IsFiniteSet(Payload)

ASSUME VarAssumption == NoVar \notin Var

VARIABLES
  held,    (* the payload of each variable                                *)
  live,    (* the payloads that are allocated                             *)
  count,   (* the reference counter of each payload                       *)
  cause,   (* the cause of each payload                                   *)
  pc,      (* where each thread is in u7_error_release                    *)
  cur,     (* payload: the local variable of that loop                    *)
  next,    (* cause_payload: the other one, Null while it has no value    *)
  dest,    (* the variable the call in progress assigns to at its end     *)
  result   (* what it assigns: no error or the fallback                   *)

heap == <<live, count, cause>>
loop == <<pc, cur, next, dest, result>>
vars == <<held, heap, loop>>

Object == Payload \cup {Fallback}
Idle(t) == pc[t] = "idle"

(* The variable a call is about to assign to no longer owns what it holds, *)
(* and no other call uses it.                                              *)
Overwritten(v) == \E t \in Thread : dest[t] = v

-----------------------------------------------------------------------------
(* The references to an object: the variables that own it, the payloads it *)
(* is the cause of, the release loops that are about to give it up, and    *)
(* for the fallback the one it was initialised with.                       *)

VarsTo(p) == {v \in Var : held[v] = p /\ ~Overwritten(v)}
CausesTo(p) == {q \in live : cause[q] = p}
LoopsAt(p) == {t \in Thread : pc[t] \in {"load", "sub"} /\ cur[t] = p}

Refs(p) ==
  Cardinality(VarsTo(p)) + Cardinality(CausesTo(p)) + Cardinality(LoopsAt(p))
  + IF p = Fallback THEN 1 ELSE 0

-----------------------------------------------------------------------------
Init ==
  /\ held = [v \in Var |-> Null]
  /\ live = {}
  /\ count = [p \in Object |-> IF p = Fallback THEN 1 ELSE 0]
  /\ cause = [p \in Object |-> Null]
  /\ pc = [t \in Thread |-> "idle"]
  /\ cur = [t \in Thread |-> Null]
  /\ next = [t \in Thread |-> Null]
  /\ dest = [t \in Thread |-> NoVar]
  /\ result = [t \in Thread |-> Null]

(* Mutant of Retain: the copy is not counted.                              *)
NotRetain(p) == UNCHANGED count

(* u7_refcount_increment, of a payload if there is one.                    *)
Retain(p) ==
  IF p = Null THEN UNCHANGED count ELSE count' = [count EXCEPT ![p] = @ + 1]

(* w = u7_error_acquire(v).                                                *)
Acquire(t, v, w) ==
  /\ Idle(t) /\ ~Overwritten(v) /\ ~Overwritten(w) /\ held[w] = Null
  /\ Retain(held[v])
  /\ held' = [held EXCEPT ![w] = held[v]]
  /\ UNCHANGED <<live, cause, loop>>

(* w = u7_error_move(&v).                                                  *)
Move(t, v, w) ==
  /\ Idle(t) /\ ~Overwritten(v) /\ ~Overwritten(w) /\ held[w] = Null
  /\ held' = [held EXCEPT ![w] = held[v], ![v] = Null]
  /\ UNCHANGED <<heap, loop>>

(* The call of u7_error_release on v, inside an operation that in the end  *)
(* assigns r to v.                                                         *)
Release(t, v, r) ==
  /\ Idle(t) /\ ~Overwritten(v)
  /\ pc' = [pc EXCEPT ![t] = "load"]
  /\ cur' = [cur EXCEPT ![t] = held[v]]
  /\ dest' = [dest EXCEPT ![t] = v]
  /\ result' = [result EXCEPT ![t] = r]
  /\ UNCHANGED <<held, heap, next>>

(* u7_error_clear(&v).                                                     *)
Clear(t, v) == Release(t, v, Null)

(* v = u7_errorf_with_cause(category, 0, v, ...), asserts compiled out: no *)
(* error, the cause is released.                                           *)
ErrorfZero(t, v) == Release(t, v, Null)

(* v = u7_errorf_with_cause(category, code, v, ...): a new payload takes   *)
(* over the reference to the cause.  Without a cause it is u7_errorf.      *)
Errorf(t, v, p) ==
  /\ Idle(t) /\ ~Overwritten(v) /\ p \notin live
  /\ live' = live \cup {p}
  /\ count' = [count EXCEPT ![p] = 1]
  /\ cause' = [cause EXCEPT ![p] = held[v]]
  /\ held' = [held EXCEPT ![v] = p]
  /\ UNCHANGED loop

(* Mutant of ErrorfFail: the fallback is returned without releasing the    *)
(* cause.                                                                  *)
ErrorfFailLeaks(t, v) ==
  /\ Idle(t) /\ ~Overwritten(v)
  /\ count' = [count EXCEPT ![Fallback] = @ + 1]
  /\ held' = [held EXCEPT ![v] = Fallback]
  /\ UNCHANGED <<live, cause, loop>>

(* The same when the message or the payload cannot be made: the cause is   *)
(* released, and v becomes a reference to the fallback.                    *)
ErrorfFail(t, v) == Release(t, v, Fallback)

-----------------------------------------------------------------------------
(* The loop of u7_error_release.                                           *)

(* The end of the loop without a payload, or the skewed decrement's load.  *)
Load(t) ==
  /\ pc[t] = "load"
  /\ \/ /\ cur[t] = Null
        /\ pc' = [pc EXCEPT ![t] = "return"]
     \/ /\ cur[t] # Null /\ count[cur[t]] = 1
        /\ pc' = [pc EXCEPT ![t] = "dispose"]
     \/ /\ cur[t] # Null
        /\ pc' = [pc EXCEPT ![t] = "sub"]
  /\ UNCHANGED <<held, heap, cur, next, dest, result>>

(* The skewed decrement's fetch_sub; TRUE ends the loop.                   *)
Sub(t) ==
  /\ pc[t] = "sub"
  /\ count' = [count EXCEPT ![cur[t]] = @ - 1]
  /\ IF count[cur[t]] = 1
       THEN pc' = [pc EXCEPT ![t] = "dispose"] /\ UNCHANGED cur
       ELSE pc' = [pc EXCEPT ![t] = "return"] /\ cur' = [cur EXCEPT ![t] = Null]
  /\ UNCHANGED <<held, live, cause, next, dest, result>>

(* Mutant of ReadCause: dispose_fn is called first.                        *)
ReadCauseLate(t) ==
  /\ pc[t] = "dispose"
  /\ live' = live \ {cur[t]}
  /\ cause' = [cause EXCEPT ![cur[t]] = Null]
  /\ pc' = [pc EXCEPT ![t] = "free"]
  /\ UNCHANGED <<held, count, cur, next, dest, result>>

(* The loop's body begins: cause_payload = payload->cause.payload.         *)
ReadCause(t) ==
  /\ pc[t] = "dispose"
  /\ next' = [next EXCEPT ![t] = cause[cur[t]]]
  /\ pc' = [pc EXCEPT ![t] = "free"]
  /\ UNCHANGED <<held, heap, cur, dest, result>>

(* Mutant of Onward: reads the cause again, in memory that is freed.       *)
OnwardReread(t) == cause'[cur[t]]

(* Where the loop goes on: with the cause, whose reference it takes over.  *)
Onward(t) == next[t]

(* Mutant of Dispose: the loop neither advances nor tests its condition.   *)
DisposeStays(t) ==
  /\ pc[t] = "free"
  /\ live' = live \ {cur[t]}
  /\ count' = [count EXCEPT ![cur[t]] = IF cur[t] = Fallback THEN @ ELSE 0]
  /\ cause' = [cause EXCEPT ![cur[t]] = Null]
  /\ next' = [next EXCEPT ![t] = Null]
  /\ pc' = [pc EXCEPT ![t] = "dispose"]
  /\ UNCHANGED <<held, cur, dest, result>>

(* dispose_fn frees the payload (the fallback has none), and the loop goes *)
(* on.  Freed memory is not to be used; here it holds zero and Null.       *)
Dispose(t) ==
  /\ pc[t] = "free"
  /\ live' = live \ {cur[t]}
  /\ count' = [count EXCEPT ![cur[t]] = IF cur[t] = Fallback THEN @ ELSE 0]
  /\ cause' = [cause EXCEPT ![cur[t]] = Null]
  /\ cur' = [cur EXCEPT ![t] = Onward(t)]
  /\ next' = [next EXCEPT ![t] = Null]
  /\ pc' = [pc EXCEPT ![t] = "load"]
  /\ UNCHANGED <<held, dest, result>>

(* Back in the caller of u7_error_release: the variable is assigned to,    *)
(* the fallback being acquired first.                                      *)
Return(t) ==
  /\ pc[t] = "return"
  /\ Retain(result[t])
  /\ held' = [held EXCEPT ![dest[t]] = result[t]]
  /\ pc' = [pc EXCEPT ![t] = "idle"]
  /\ dest' = [dest EXCEPT ![t] = NoVar]
  /\ result' = [result EXCEPT ![t] = Null]
  /\ UNCHANGED <<live, cause, cur, next>>

-----------------------------------------------------------------------------
Call(t) ==
  \E v \in Var :
    \/ Clear(t, v)
    \/ ErrorfZero(t, v)
    \/ ErrorfFail(t, v)
    \/ \E p \in Payload : Errorf(t, v, p)
    \/ \E w \in Var : Acquire(t, v, w) \/ Move(t, v, w)

Loop(t) == Load(t) \/ Sub(t) \/ ReadCause(t) \/ Dispose(t) \/ Return(t)

Next == \E t \in Thread : Call(t) \/ Loop(t)

(* A thread inside a call is scheduled; it need not make another.          *)
Fairness == \A t \in Thread : WF_vars(Loop(t))

Spec == Init /\ [][Next]_vars
FairSpec == Spec /\ Fairness

-----------------------------------------------------------------------------
(* Properties.                                                             *)

(* Every variable has its type.                                            *)
TypeOK ==
  /\ held \in [Var -> Object \cup {Null}]
  /\ live \in SUBSET Payload
  /\ count \in [Object -> Nat]
  /\ cause \in [Object -> Object \cup {Null}]
  /\ pc \in [Thread -> {"idle", "load", "sub", "dispose", "free", "return"}]
  /\ cur \in [Thread -> Object \cup {Null}]
  /\ next \in [Thread -> Object \cup {Null}]
  /\ dest \in [Thread -> Var \cup {NoVar}]
  /\ result \in [Thread -> {Null, Fallback}]

Disposing(p) == {t \in Thread : pc[t] \in {"dispose", "free"} /\ cur[t] = p}

(* The counter of every payload and of the fallback is the number of       *)
(* references to it: variables, causes and releases in progress; when one  *)
(* thread has been told to dispose there are none (u7_error_acquire,       *)
(* u7_error_release, u7_errno_category_make_payload_fn).                   *)
CountsReferences ==
  \A p \in live \cup {Fallback} :
    IF Disposing(p) = {} THEN count[p] = Refs(p)
    ELSE Refs(p) = 0 /\ Cardinality(Disposing(p)) = 1

(* No pointer that will still be followed is dangling: not that of a       *)
(* variable, nor a cause, nor those of a release loop, whose payload is    *)
(* there when its counter and its cause are read and when it is freed, and *)
(* whose cause_payload is there when the payload has been freed.           *)
NoDangling ==
  LET Valid == live \cup {Fallback, Null} IN
  /\ \A v \in Var : Overwritten(v) \/ held[v] \in Valid
  /\ \A p \in live : cause[p] \in Valid
  /\ \A t \in Thread : cur[t] \in Valid /\ next[t] \in Valid

(* Nothing leaks: every allocated payload is led to by some variable or by *)
(* some release in progress, through the causes.                           *)
NoLeak ==
  \A S \in SUBSET live :
    \/ S = {}
    \/ \E v \in Var : held[v] \in S /\ ~Overwritten(v)
    \/ \E t \in Thread : cur[t] \in S
    \/ \E q \in live \ S : cause[q] \in S

(* A release ends, however long the chain and whatever other threads do    *)
(* with the same chain meanwhile: the loop of u7_error_release terminates. *)
ReleaseReturns == \A t \in Thread : pc[t] # "idle" ~> pc[t] = "idle"

(* The counters implement the ownership rules of ErrorHeap: payloads are   *)
(* freed when no variable leads to them, never before, and eventually.     *)
Heap == INSTANCE ErrorHeap WITH
  held <- [v \in Var |-> IF Overwritten(v) THEN Null ELSE held[v]],
  cause <- [p \in Payload |-> cause[p]]
ImplementsHeap == Heap!Spec
=============================================================================
