------------------------------ MODULE LogicalCall ------------------------------
(***************************************************************************)
(* What Request (src/jev_extension.cpp:626) promises the evaluators that   *)
(* call it: one logical request is answered or fails after a bounded       *)
(* number of HTTP attempts, is final once it has ended, and is cut short   *)
(* by a cancellation: at most one attempt still starts after it.           *)
(***************************************************************************)
EXTENDS Integers

CONSTANTS Requests, MaxAttempts

VARIABLES
  result,     \* of each request: "none" yet, "answered", "failed"
  sent,       \* attempts started
  late,       \* attempts started after the cancellation
  cancelled   \* the query was interrupted, or its evaluation stopped

callVars == <<result, sent, late, cancelled>>

Init ==
  /\ result = [r \in Requests |-> "none"]
  /\ sent = [r \in Requests |-> 0]
  /\ late = [r \in Requests |-> 0]
  /\ cancelled = FALSE

Send(r) ==
  /\ result[r] = "none"
  /\ sent[r] < MaxAttempts
  /\ cancelled => late[r] = 0
  /\ sent' = [sent EXCEPT ![r] = @ + 1]
  /\ late' = IF cancelled THEN [late EXCEPT ![r] = 1] ELSE late
  /\ UNCHANGED <<result, cancelled>>

Answer(r) ==
  /\ result[r] = "none"
  /\ sent[r] > 0
  /\ result' = [result EXCEPT ![r] = "answered"]
  /\ UNCHANGED <<sent, late, cancelled>>

(* Without an attempt a request fails only because it was cancelled. *)
GiveUp(r) ==
  /\ result[r] = "none"
  /\ sent[r] > 0 \/ cancelled
  /\ result' = [result EXCEPT ![r] = "failed"]
  /\ UNCHANGED <<sent, late, cancelled>>

Cancel ==
  /\ cancelled' = TRUE
  /\ UNCHANGED <<result, sent, late>>

Next == Cancel \/ \E r \in Requests : Send(r) \/ Answer(r) \/ GiveUp(r)

Spec == Init /\ [][Next]_callVars
================================================================================
