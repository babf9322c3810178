---------------------------- MODULE MCInitErrors ----------------------------
(* A small instance of InitErrors.                                         *)
EXTENDS InitErrors, TLC

CONSTANTS a, b, d

(* b and d tie in precedence and only the names order them; a comes last   *)
(* though no name is before its own, which is also the name of d.          *)
MCRecord == {a, b, d}
MCName == a :> 1 @@ b :> 2 @@ d :> 1
MCPrecedence == a :> 5 @@ b :> 0 @@ d :> 0
=============================================================================
