----------------------------- MODULE MCAssertEq -----------------------------
(* A small instance of AssertEq.                                           *)
EXTENDS AssertEq

MCPow2 == [e \in 0 .. 2 * W |-> 2 ^ e]
=============================================================================
