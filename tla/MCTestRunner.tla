---------------------------- MODULE MCTestRunner ----------------------------
(* A small instance of TestRunner.                                         *)
EXTENDS TestRunner, TLC

CONSTANTS a, b, c, o, w, x

(* Three registered tests, c with the name of b, and one of a list of the  *)
(* program's own; a word that some of the names contain and one that none  *)
(* does.                                                                   *)
MCTest == {a, b, c}
MCOwnTest == {o}
MCName == a :> 2 @@ b :> 1 @@ c :> 1 @@ o :> 3
MCContains == w :> {a, c, o} @@ x :> {}
MCPattern == {w, x}
=============================================================================
