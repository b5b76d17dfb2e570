----------------------------- MODULE RecordLatency -----------------------------
(***************************************************************************)
(* record_latency and AtomicMax of src/jev_extension.cpp, composed with    *)
(* Request: the requests that end at the same time add their time to       *)
(* total_latency_us and raise max_latency_us by compare-and-exchange,      *)
(* without a lock.  A request that is cut short in a delay records         *)
(* nothing.                                                                *)
(***************************************************************************)
EXTENDS Request

VARIABLES
  pc,             \* where in record_latency each request is
  current,        \* AtomicMax's local
  total, max      \* total_latency_us, max_latency_us

latencyVars   == <<pc, current, total, max>>
recordingVars == <<requestVars, latencyVars>>

RecordingInit ==
  /\ Init
  /\ pc = [r \in Requests |-> "add"]
  /\ current = [r \in Requests |-> 0]
  /\ total = 0 /\ max = 0

Records(r) == phase[r] \in {"answered", "failed"} /\ left[r] = 0

Added(r) == total + elapsed[r]

Add(r) ==
  /\ pc[r] = "add" /\ Records(r)
  /\ pc' = [pc EXCEPT ![r] = "load"]
  /\ total' = Added(r)
  /\ UNCHANGED <<current, max>>

Load(r) ==
  /\ pc[r] = "load"
  /\ pc' = [pc EXCEPT ![r] = "loop"]
  /\ current' = [current EXCEPT ![r] = max]
  /\ UNCHANGED <<total, max>>

Larger(r) ==
  /\ pc[r] = "loop" /\ current[r] >= elapsed[r]
  /\ pc' = [pc EXCEPT ![r] = "done"]
  /\ UNCHANGED <<current, total, max>>

(* mutant: the value is stored whatever it replaces *)
Unchanged(r) == TRUE

Expected(r) == max = current[r]

Exchange(r) ==
  /\ pc[r] = "loop" /\ current[r] < elapsed[r]
  /\ Expected(r)
  /\ max' = elapsed[r]
  /\ pc' = [pc EXCEPT ![r] = "done"]
  /\ UNCHANGED <<current, total>>

(* The exchange failed, the weak one perhaps for no reason. *)
(* mutant: what was found instead is not loaded *)
MissBlindly(r) ==
  /\ pc[r] = "loop" /\ current[r] < elapsed[r]
  /\ UNCHANGED latencyVars

Miss(r) ==
  /\ pc[r] = "loop" /\ current[r] < elapsed[r]
  /\ current' = [current EXCEPT ![r] = max]
  /\ UNCHANGED <<pc, total, max>>

LatencyStep(r) ==
  /\ Add(r) \/ Load(r) \/ Larger(r) \/ Exchange(r) \/ Miss(r)
  /\ UNCHANGED requestVars

RecordingNext ==
  \/ Next /\ UNCHANGED latencyVars
  \/ \E r \in Requests : LatencyStep(r)

RecordingSpec == RecordingInit /\ [][RecordingNext]_recordingVars

(* The Gate lets a request in (GateNeverWaits), a transfer ends by its     *)
(* timeout, a delay passes, and a weak exchange does not fail for no       *)
(* reason for ever.                                                        *)
RecordingFairSpec ==
  /\ RecordingSpec
  /\ \A r \in Requests : /\ WF_requestVars(Proceed(r) /\ UNCHANGED latencyVars)
                         /\ WF_latencyVars(LatencyStep(r))

-----------------------------------------------------------------------------
(* Properties *)

(* Type invariant.                                                         *)
LatencyTypeOK ==
  /\ pc \in [Requests -> {"add", "load", "loop", "done"}]
  /\ current \in [Requests -> Nat]
  /\ total \in Nat /\ max \in Nat

Register == INSTANCE MaxRegister
              WITH value <- elapsed, added    <- { r \in Requests : pc[r] # "add" },
                                     recorded <- { r \in Requests : pc[r] = "done" }

(***************************************************************************)
(* AtomicMax is a maximum (jev_extension.cpp:73-77, 661-662): however the  *)
(* calls overlap, each takes effect at once, by its exchange or by finding *)
(* a larger value, none is lost to a smaller one, and none is before its   *)
(* value is in the total.                                                  *)
(***************************************************************************)
ImplementsMaxRegister == Register!Spec

(* The maximum that jev_stats shows is never ahead of the total:           *)
(* record_latency adds before it raises (jev_extension.cpp:661-662),       *)
(* whoever else is between the two.                                        *)
MaxWithinTotal == max <= total

(* Every request ends, and one that was not cut short in a delay has then  *)
(* recorded its latency: no exchange is tried for ever, because a failure  *)
(* that has a reason means that max has grown (jev_extension.cpp:75).      *)
EveryRequestRecords ==
  <>(\A r \in Requests : phase[r] \in Ended /\ (Records(r) => pc[r] = "done"))
================================================================================
