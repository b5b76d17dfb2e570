------------------------------- MODULE MCRequest -------------------------------
(* Instances of Request and RecordLatency. *)
EXTENDS RecordLatency

CONSTANTS r1, r2
MCQuestions == [r \in Requests |-> 2]
MCPayload   == [r \in Requests |-> IF r = r1 THEN 2 ELSE 3]
================================================================================
