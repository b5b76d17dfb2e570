-------------------------------- MODULE Judged --------------------------------
(***************************************************************************)
(* What both evaluators promise whoever reads them, a scalar call of a     *)
(* chunk and a jev_stream of its input: the output is at every moment a    *)
(* prefix of the input, in order, each row with a complete judgment of its *)
(* own evidence and questions, by one model, or NULL when the row was.     *)
(***************************************************************************)
EXTENDS Naturals, Sequences

CONSTANTS Input, Null, Questions, Models

VARIABLE out

Results(key) ==
  IF key = Null THEN {Null}
  ELSE [key : {key}, answers : {1 .. Questions[key]}, model : Models]

Init == out = <<>>

Emit ==
  /\ Len(out) < Len(Input)
  /\ \E result \in Results(Input[Len(out) + 1]) : out' = Append(out, result)

Spec == Init /\ [][Emit]_out
================================================================================
