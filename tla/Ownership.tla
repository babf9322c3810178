----------------------------- MODULE Ownership -----------------------------
(***************************************************************************)
(* What shared ownership by reference counting promises, with no counter   *)
(* in sight.  An object is kept by a set of references, each owned by one  *)
(* thread.  The thread that drops the last reference, and nobody else, is  *)
(* told that there are no references outstanding and disposes of the       *)
(* object; until it has done so no new object takes its place.             *)
(*                                                                         *)
(* Refcount implements this specification.                                 *)
(***************************************************************************)
CONSTANTS
  Thread,    (* the threads that may own references               *)
  Ref,       (* the references that may be outstanding at a time  *)
  NoThread   (* the owner of a reference that is not outstanding  *)

VARIABLES
  owner,     (* the thread that owns each reference               *)
  disposing  (* the threads that were told to dispose             *)

vars == <<owner, disposing>>

Outstanding == {r \in Ref : owner[r] # NoThread}

Init ==
  /\ owner = [r \in Ref |-> NoThread]
  /\ disposing = {}

(* A new object starts with one reference, in the hands of its creator.    *)
Create(t, r) ==
  /\ Outstanding = {} /\ disposing = {}
  /\ owner' = [owner EXCEPT ![r] = t]
  /\ UNCHANGED disposing

(* The owner of a reference makes another one.                             *)
Share(t, r, s) ==
  /\ owner[r] = t /\ owner[s] = NoThread
  /\ owner' = [owner EXCEPT ![s] = t]
  /\ UNCHANGED disposing

(* A reference changes hands.                                              *)
Hand(t, u, r) ==
  /\ owner[r] = t
  /\ owner' = [owner EXCEPT ![r] = u]
  /\ UNCHANGED disposing

(* A reference goes away; the last one elects its thread to dispose.       *)
Drop(t, r) ==
  /\ owner[r] = t
  /\ owner' = [owner EXCEPT ![r] = NoThread]
  /\ disposing' = IF Outstanding = {r} THEN disposing \cup {t} ELSE disposing

Dispose(t) ==
  /\ t \in disposing
  /\ disposing' = disposing \ {t}
  /\ UNCHANGED owner

Next ==
  \E t \in Thread :
    \/ Dispose(t)
    \/ \E r \in Ref :
         \/ Create(t, r)
         \/ Drop(t, r)
         \/ \E s \in Ref : Share(t, r, s)
         \/ \E u \in Thread : Hand(t, u, r)

Spec == Init /\ [][Next]_vars
=============================================================================
