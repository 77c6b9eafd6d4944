---------------------------- MODULE MCPQHandshake ---------------------------
(***************************************************************************)
(* Instances of PQHandshake for TLC.                                       *)
(***************************************************************************)
EXTENDS PQHandshake

\* One side types, and both.
CalleeTypes == [s \in Sides |-> IF s = Caller THEN 1 ELSE 0]
BothType == [s \in Sides |-> 3]

MostFailures == {"malloc", "crypto", "thread"}
=============================================================================
