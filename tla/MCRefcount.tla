----------------------------- MODULE MCRefcount -----------------------------
(* Small instances of Refcount.                                            *)
EXTENDS Refcount, TLC

(* Threads, and the references besides, are interchangeable.               *)
Symmetry == Permutations(Thread) \cup Permutations(Ref)
=============================================================================
