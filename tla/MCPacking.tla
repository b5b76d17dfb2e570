------------------------------- MODULE MCPacking -------------------------------
(* Instances of Packing: the third position has a longer id. *)
EXTENDS Packing

MCIdBytes == [n \in 0 .. BatchSize |-> IF n < 2 THEN 1 ELSE 2]
================================================================================
