------------------------------ MODULE MaxRegister ------------------------------
(***************************************************************************)
(* The total and the largest of the values recorded so far: what           *)
(* record_latency (src/jev_extension.cpp:657-663) promises.  Each value is *)
(* added once, and raises the maximum once and at once, later.             *)
(***************************************************************************)
EXTENDS Integers

CONSTANTS Requests

VARIABLES value, total, max, added, recorded

registerVars == <<total, max, added, recorded>>

Init == total = 0 /\ max = 0 /\ added = {} /\ recorded = {}

Add(r) ==
  /\ r \notin added
  /\ total' = total + value[r]
  /\ added' = added \cup {r}
  /\ UNCHANGED <<max, recorded>>

Record(r) ==
  /\ r \in added \ recorded
  /\ max' = IF max < value[r] THEN value[r] ELSE max
  /\ recorded' = recorded \cup {r}
  /\ UNCHANGED <<total, added>>

Next == \E r \in Requests : Add(r) \/ Record(r)

Spec == Init /\ [][Next]_registerVars
================================================================================
