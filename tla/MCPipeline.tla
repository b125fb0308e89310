------------------------------ MODULE MCPipeline ------------------------------
(* Programs of a prefix of two, a projection and a reverse, in any order. *)
EXTENDS Pipeline

MCStages == {[op |-> "take", n |-> 2], [op |-> "select"], [op |-> "reverse"]}
=============================================================================
