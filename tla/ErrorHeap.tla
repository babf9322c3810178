----------------------------- MODULE ErrorHeap -----------------------------
(***************************************************************************)
(* What the ownership rules of u7_error promise, with no counters: error   *)
(* variables point to payloads, a payload points to its cause, and a       *)
(* payload is freed when, and only when, no variable leads to it any more. *)
(*                                                                         *)
(* ErrorChain implements this specification.                               *)
(***************************************************************************)
CONSTANTS
  Var,       (* the u7_error variables of the program                     *)
  Payload,   (* heap addresses of payloads                                *)
  Fallback,  (* the static fallback payload                               *)
  Null       (* the NULL payload of u7_ok()                               *)

VARIABLES
  held,   (* what each variable points to                                 *)
  live,   (* the payloads that are allocated                              *)
  cause   (* the cause of each allocated payload                          *)

vars == <<held, live, cause>>

Init ==
  /\ held = [v \in Var |-> Null]
  /\ live = {}
  /\ cause = [p \in Payload |-> Null]

(* p is in a set of payloads that no variable and no other payload enters. *)
Garbage(p) ==
  \E S \in SUBSET live :
    /\ p \in S
    /\ \A v \in Var : held[v] \notin S
    /\ \A q \in live \ S : cause[q] \notin S

(* A variable gets a new payload, whose cause is what it pointed to.       *)
New(v, p) ==
  /\ p \notin live
  /\ live' = live \cup {p}
  /\ cause' = [cause EXCEPT ![p] = held[v]]
  /\ held' = [held EXCEPT ![v] = p]

(* A variable without error receives a copy, a moved value, or the error   *)
(* that stands for one that could not be made.                             *)
Copy(v, w) ==
  /\ held[w] = Null
  /\ held' = [held EXCEPT ![w] = held[v]]
  /\ UNCHANGED <<live, cause>>

Move(v, w) ==
  /\ held[w] = Null
  /\ held' = [held EXCEPT ![w] = held[v], ![v] = Null]
  /\ UNCHANGED <<live, cause>>

Fail(v) ==
  /\ held[v] = Null
  /\ held' = [held EXCEPT ![v] = Fallback]
  /\ UNCHANGED <<live, cause>>

Clear(v) ==
  /\ held' = [held EXCEPT ![v] = Null]
  /\ UNCHANGED <<live, cause>>

Free(p) ==
  /\ p \in live /\ Garbage(p)
  /\ live' = live \ {p}
  /\ cause' = [cause EXCEPT ![p] = Null]
  /\ UNCHANGED held

Next ==
  \/ \E v \in Var :
       \/ Fail(v) \/ Clear(v)
       \/ \E p \in Payload : New(v, p)
       \/ \E w \in Var : Copy(v, w) \/ Move(v, w)
  \/ \E p \in Payload : Free(p)

(* Garbage does not stay for ever.                                         *)
Spec == Init /\ [][Next]_vars /\ \A p \in Payload : WF_vars(Free(p))
=============================================================================
