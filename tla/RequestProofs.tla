----------------------------- MODULE RequestProofs -----------------------------
(***************************************************************************)
(* Request keeps its types and the promise of LogicalCall, for every       *)
(* number of requests and retries, every delay and every width.            *)
(***************************************************************************)
EXTENDS RecordLatency, SumTheorems, TLAPS

(***************************************************************************)
(* Why at most one attempt starts after the cancellation: a request that   *)
(* has started one is in a transfer curl will abort, or waits with some    *)
(* delay left, and the next look at the flag is its last step.             *)
(***************************************************************************)
PhaseOK(r) ==
  /\ phase[r] = "wait" => attempt[r] < Retries
  /\ phase[r] \in {"gate", "refused"} => attempt[r] = 0 /\ sent[r] = 0
  /\ phase[r] = "ready" => sent[r] = attempt[r]
  /\ phase[r] \in {"transfer", "wait"} => sent[r] = attempt[r] + 1
  /\ phase[r] = "transfer" /\ heard[r] = {} => retryAfter[r] = Absent
  /\ retryAfter[r] >= 0 => \E h \in heard[r] : retryAfter[r] = DelayAsked(h, Absent)
  /\ retryAfter[r] < 0 => \/ \A h \in heard[r] : h < 0
                          \/ \E h \in heard[r] : h >= 0 /\ DelayAsked(h, Absent) < 0

LateOK(r) ==
  late[r] # 0 =>
    /\ cancelled /\ late[r] = 1
    /\ phase[r] \in {"transfer", "wait", "answered", "failed"}
    /\ phase[r] = "transfer" => doomed[r]
    /\ phase[r] = "wait" => left[r] > 0

CallInv == TypeOK /\ \A r \in Requests : PhaseOK(r) /\ LateOK(r)

LEMMA BackoffBounds ==
  ASSUME TypeOK, NEW r \in Requests
  PROVE  /\ Backoff(r) \in 1 .. Cap
         /\ \A j \in Jitters(r) : j \in Nat /\ j <= Most(1, Backoff(r) \div 4) - 1
<1>1. attempt[r] \in 0 .. Retries
  BY DEF TypeOK
<1>2. 2 ^ attempt[r] \in Nat /\ Base * 2 ^ attempt[r] \in 1 .. IntMax
  BY <1>1, ShiftAssumption
<1>3. Cap \in Nat /\ Base \in Nat \ {0} /\ Base <= Cap /\ IntMax \in Nat
  BY RequestAssumption
<1>4. Backoff(r) \in 1 .. Cap
  BY <1>2, <1>3 DEF Backoff, Least
<1> QED
  BY <1>3, <1>4 DEF Jitters, Most

LEMMA AskedIsInt ==
  ASSUME NEW h \in Headers, NEW old \in Int
  PROVE  DelayAsked(h, old) \in Int
<1>1. h \in Int /\ Second \in Int /\ IntMax \in Nat /\ HeaderMax \in Int
  BY RequestAssumption
<1>2. h * Second \in Int
  BY <1>1
<1>3. Int64(h * Second) \in Int
  <2>1. 2 * (IntMax + 1) \in Nat \ {0}
    BY <1>1
  <2>2. (h * Second + IntMax + 1) % (2 * (IntMax + 1)) \in Int
    BY <1>1, <1>2, <2>1
  <2> QED
    BY <1>1, <2>2 DEF Int64
<1> QED
  BY <1>1, <1>3 DEF DelayAsked, Least

LEMMA DelayBounds ==
  ASSUME TypeOK, NEW r \in Requests, NEW j \in Jitters(r)
  PROVE  /\ Delay(r, j) \in 0 .. Cap
         /\ retryAfter[r] < 0 => Delay(r, j) > 0
<1>1. Backoff(r) \in 1 .. Cap /\ j \in Nat
  BY BackoffBounds
<1>2. retryAfter[r] \in Int /\ Cap \in Nat
  BY RequestAssumption DEF TypeOK
<1> QED
  BY <1>1, <1>2 DEF Delay, Least

LEMMA PlusIsNat ==
  ASSUME TypeOK, NEW by, \A m \in DOMAIN by : by[m] \in Nat
  PROVE  Plus(by) \in [Counters -> Nat]
BY DEF Plus, TypeOK

LEMMA InitCall == Init => CallInv
<1> SUFFICES ASSUME Init PROVE CallInv
  OBVIOUS
<1>1. Cap \in Nat /\ Retries \in Nat /\ BodyMax \in Nat
  BY RequestAssumption
<1>2. /\ attempt \in [Requests -> 0 .. Retries] /\ body \in [Requests -> 0 .. BodyMax]
      /\ left \in [Requests -> 0 .. Cap] /\ retryAfter \in [Requests -> Int]
  BY <1>1 DEF Init, Absent
<1>3. phase \in [Requests -> Phases] /\ metrics \in [Counters -> Nat] /\ cancelled \in BOOLEAN
  BY DEF Init, Phases
<1>4. TypeOK
  BY <1>2, <1>3 DEF Init, TypeOK
<1>5. ASSUME NEW r \in Requests PROVE PhaseOK(r) /\ LateOK(r)
  BY DEF Init, PhaseOK, LateOK, Absent
<1> QED
  BY <1>4, <1>5 DEF CallInv

LEMMA FinishCall ==
  ASSUME CallInv, NEW r \in Requests, NEW code, NEW status, Finish(r, code, status)
  PROVE  CallInv'
<1> USE DEF CallInv
<1> USE RequestAssumption
<1>1. /\ Spent(r) \in Nat /\ body[r] \in Nat /\ attempt[r] \in 0 .. Retries /\ Retries \in Nat
      /\ phase[r] = "transfer" /\ PhaseOK(r) /\ LateOK(r)
  BY DEF TypeOK, Spent, Finish
<1>2. UNCHANGED <<body, retryAfter, doomed, heard, cancelled, sent, late, delivered>>
      /\ elapsed' = [elapsed EXCEPT ![r] = Spent(r)]
  BY DEF Finish, transfer, history
<1>3. CASE Succeed(r, code, status)
  <2>1. metrics' \in [Counters -> Nat]
    <3>1. CASE \E n \in Tokens : metrics' = Plus([response_bytes |-> body[r], tokens |-> n])
      <4>1. PICK n \in Tokens : metrics' = Plus([response_bytes |-> body[r], tokens |-> n])
        BY <3>1
      <4>2. n \in Nat
        OBVIOUS
      <4> QED
        BY <1>1, <4>1, <4>2, PlusIsNat
    <3>2. CASE metrics' = Plus([response_bytes |-> body[r], errors |-> 1])
      BY <1>1, <3>2, PlusIsNat
    <3> QED
      BY <1>3, <3>1, <3>2 DEF Succeed
  <2>2. TypeOK'
    BY <1>1, <1>2, <1>3, <2>1 DEF TypeOK, Succeed, Go, Phases, Ended
  <2>3. ASSUME NEW q \in Requests PROVE PhaseOK(q)' /\ LateOK(q)'
    BY <1>1, <1>2, <1>3 DEF TypeOK, Succeed, Go, PhaseOK, LateOK, DelayAsked, Int64
  <2> QED
    BY <2>2, <2>3
<1>4. CASE GiveUp(r, code, status)
  <2>1. metrics' \in [Counters -> Nat]
    BY <1>1, <1>4, PlusIsNat DEF GiveUp
  <2>2. TypeOK'
    BY <1>1, <1>2, <1>4, <2>1 DEF TypeOK, GiveUp, Go, Phases, Ended
  <2>3. ASSUME NEW q \in Requests PROVE PhaseOK(q)' /\ LateOK(q)'
    BY <1>1, <1>2, <1>4 DEF TypeOK, GiveUp, Go, PhaseOK, LateOK, DelayAsked, Int64
  <2> QED
    BY <2>2, <2>3
<1>5. CASE Retry(r, code, status)
  <2>1. metrics' \in [Counters -> Nat]
    BY <1>1, <1>5, PlusIsNat DEF Retry, RetryCount
  <2>2. PICK j \in Jitters(r) : left' = [left EXCEPT ![r] = Delay(r, j)]
    BY <1>5 DEF Retry
  <2>3. Delay(r, j) \in 0 .. Cap /\ (retryAfter[r] < 0 => Delay(r, j) > 0)
    BY DelayBounds
  <2>4. attempt[r] < Retries
    BY <1>1, <1>5 DEF Retry, LastAttempt
  <2>5. TypeOK'
    BY <1>1, <1>2, <1>5, <2>1, <2>2, <2>3 DEF TypeOK, Retry, Go, Phases
  <2>6. ASSUME NEW q \in Requests PROVE PhaseOK(q)'
    BY <1>1, <1>2, <1>5, <2>4 DEF TypeOK, Retry, Go, PhaseOK, DelayAsked, Int64
  <2>7. late[r] # 0 => retryAfter[r] < 0
    <3>1. code # Aborted
      BY <1>5 DEF Retry, Retryable, Aborted, OK, Lost
    <3>2. doomed[r] => heard[r] = {}
      BY <3>1 DEF Finish, Outcome
    <3> QED
      BY <1>1, <3>2 DEF PhaseOK, LateOK, Absent
  <2>8. ASSUME NEW q \in Requests PROVE LateOK(q)'
    BY <1>1, <1>2, <1>5, <2>2, <2>3, <2>7 DEF TypeOK, Retry, Go, LateOK
  <2> QED
    BY <2>5, <2>6, <2>8
<1> QED
  BY <1>3, <1>4, <1>5 DEF Finish

LEMMA HeaderCall ==
  ASSUME CallInv, NEW r \in Requests, NEW h \in Headers, Header(r, h)
  PROVE  CallInv'
<1> USE DEF CallInv
<1>1. retryAfter[r] \in Int /\ h \in Int /\ phase[r] = "transfer" /\ PhaseOK(r) /\ LateOK(r)
  BY RequestAssumption DEF TypeOK, Header
<1>2. DelayAsked(h, retryAfter[r]) \in Int
  BY <1>1, AskedIsInt
<1>3. TypeOK'
  BY <1>1, <1>2 DEF TypeOK, Header, history
<1>4. ASSUME NEW q \in Requests, PhaseOK(q) PROVE PhaseOK(q)'
  <2>1. /\ retryAfter'[q] = IF q = r THEN DelayAsked(h, retryAfter[r]) ELSE retryAfter[q]
        /\ heard'[q] = IF q = r THEN heard[r] \cup {h} ELSE heard[q]
    BY DEF Header, TypeOK
  <2>2. DelayAsked(h, retryAfter[r]) = IF h < 0 THEN retryAfter[r] ELSE DelayAsked(h, Absent)
    BY DEF DelayAsked
  <2>3. retryAfter'[q] >= 0 => \E g \in heard'[q] : retryAfter'[q] = DelayAsked(g, Absent)
    BY <1>4, <2>1, <2>2 DEF PhaseOK
  <2>4. retryAfter'[q] < 0 => \/ \A g \in heard'[q] : g < 0
                             \/ \E g \in heard'[q] : g >= 0 /\ DelayAsked(g, Absent) < 0
    <3>1. CASE q # r
      BY <1>4, <2>1, <3>1 DEF PhaseOK
    <3>2. CASE q = r /\ h < 0
      BY <1>1, <2>1, <2>2, <3>2 DEF PhaseOK
    <3>3. CASE q = r /\ h >= 0
      BY <1>1, <2>1, <2>2, <3>3
    <3> QED
      BY <1>1, <3>1, <3>2, <3>3
  <2> HIDE DEF DelayAsked
  <2> QED
    BY <1>1, <1>4, <2>1, <2>3, <2>4 DEF PhaseOK, Header, history
<1>5. ASSUME NEW q \in Requests, LateOK(q) PROVE LateOK(q)'
  BY <1>5 DEF LateOK, Header, history
<1> QED
  BY <1>3, <1>4, <1>5

LEMMA StepCall ==
  ASSUME CallInv, NEW r \in Requests, Enter(r) \/ Send(r) \/ Poll(r) \/ CutShort(r) \/ Again(r)
  PROVE  CallInv'
<1> USE DEF CallInv
<1> USE RequestAssumption
<1>1. PhaseOK(r) /\ LateOK(r) /\ Questions[r] \in Nat /\ Payload[r] \in Nat
  OBVIOUS
<1>2. CASE Enter(r)
  <2>1. metrics' \in [Counters -> Nat]
    BY <1>1, <1>2, PlusIsNat DEF Enter, TypeOK
  <2>2. TypeOK'
    BY <1>2, <2>1 DEF TypeOK, Enter, Go, Phases, Ended, transfer, history
  <2>3. ASSUME NEW q \in Requests, PhaseOK(q), LateOK(q) PROVE PhaseOK(q)' /\ LateOK(q)'
    BY <1>1, <1>2, <2>3 DEF TypeOK, Enter, Go, transfer, history, PhaseOK, LateOK, DelayAsked, Int64
  <2> QED
    BY <2>2, <2>3
<1>3. CASE Send(r)
  <2>1. metrics' \in [Counters -> Nat]
    BY <1>1, <1>3, PlusIsNat DEF Send
  <2>2. TypeOK'
    BY <1>3, <2>1 DEF TypeOK, Send, Go, Phases, Forget, Absent
  <2>3. ASSUME NEW q \in Requests, PhaseOK(q), LateOK(q) PROVE PhaseOK(q)' /\ LateOK(q)'
    BY <1>1, <1>3, <2>3 DEF TypeOK, Send, Go, Forget, Absent, PhaseOK, LateOK, DelayAsked, Int64
  <2> QED
    BY <2>2, <2>3
<1>4. CASE Poll(r)
  <2>1. Most(0, left[r] - PollEvery) \in 0 .. Cap
    BY DEF TypeOK, Most
  <2>2. TypeOK'
    BY <1>4, <2>1 DEF TypeOK, Poll, transfer, history
  <2>3. ASSUME NEW q \in Requests, PhaseOK(q), LateOK(q) PROVE PhaseOK(q)' /\ LateOK(q)'
    BY <1>1, <1>4, <2>3 DEF TypeOK, Poll, Stopped, transfer, history, PhaseOK, LateOK, DelayAsked, Int64
  <2> QED
    BY <2>2, <2>3
<1>5. CASE CutShort(r)
  <2>1. TypeOK'
    BY <1>5 DEF TypeOK, CutShort, Go, Phases, Ended, transfer, history
  <2>2. ASSUME NEW q \in Requests, PhaseOK(q), LateOK(q) PROVE PhaseOK(q)' /\ LateOK(q)'
    BY <1>1, <1>5, <2>2 DEF TypeOK, CutShort, Go, transfer, history, PhaseOK, LateOK, DelayAsked, Int64
  <2> QED
    BY <2>1, <2>2
<1>6. CASE Again(r)
  <2>1. attempt[r] + 1 \in 0 .. Retries
    BY <1>1, <1>6 DEF TypeOK, Again, PhaseOK
  <2>2. TypeOK'
    BY <1>6, <2>1 DEF TypeOK, Again, Go, Phases, transfer, history
  <2>3. ASSUME NEW q \in Requests, PhaseOK(q), LateOK(q) PROVE PhaseOK(q)' /\ LateOK(q)'
    BY <1>1, <1>6, <2>3 DEF TypeOK, Again, Go, transfer, history, PhaseOK, LateOK, DelayAsked, Int64
  <2> QED
    BY <2>2, <2>3
<1> QED
  BY <1>2, <1>3, <1>4, <1>5, <1>6

LEMMA NextCall == CallInv /\ [Next]_requestVars => CallInv'
<1> SUFFICES ASSUME CallInv, [Next]_requestVars PROVE CallInv'
  OBVIOUS
<1>1. ASSUME NEW r \in Requests, Proceed(r) PROVE CallInv'
  BY <1>1, StepCall, FinishCall DEF Proceed, FinishAny
<1>2. ASSUME NEW r \in Requests, NEW h \in Headers, Header(r, h) PROVE CallInv'
  BY <1>2, HeaderCall
<1>3. ASSUME NEW r \in Requests, NEW n \in Chunks, Write(r, n) PROVE CallInv'
  <2>1. body[r] + n \in 0 .. BodyMax /\ delivered + n \in Nat
    BY <1>3, RequestAssumption DEF CallInv, TypeOK, Write
  <2> QED
    BY <1>3, <2>1 DEF CallInv, TypeOK, PhaseOK, LateOK, Write, history, DelayAsked, Int64
<1>4. CASE Cancel
  BY <1>4 DEF CallInv, TypeOK, PhaseOK, LateOK, Cancel, transfer, history, DelayAsked, Int64
<1>5. CASE UNCHANGED requestVars
  BY <1>5 DEF CallInv, TypeOK, PhaseOK, LateOK, requestVars, transfer, history, DelayAsked, Int64
<1> QED
  BY <1>1, <1>2, <1>3, <1>4, <1>5 DEF Next, Over

LEMMA CallInvariant == Spec => []CallInv
BY InitCall, NextCall, PTL DEF Spec

(* The types hold, and no delay exceeds jev_retry_max_delay_ms, whatever a *)
(* provider sends and whatever overflows (jev_extension.cpp:545-696).      *)
THEOREM RequestTypeCorrect == Spec => []TypeOK
BY CallInvariant, PTL DEF CallInv

(* Every delay is one the attempt before it asked for                      *)
(* (jev_extension.cpp:668, 687-696).                                       *)
THEOREM DelaysAreAsked == Spec => DelayOfThisAttempt
<1> DEFINE Asked(r) == phase[r] = "transfer" /\ phase'[r] = "wait" => OwnDelay(r, left'[r])
<1>1. ASSUME CallInv, [Next]_requestVars, NEW r \in Requests,
             phase[r] = "transfer", phase'[r] = "wait"
      PROVE  Asked(r)
  <2>1. PICK code, status : Finish(r, code, status)
    <3>1. phase \in [Requests -> Phases] /\ phase' # phase
      BY <1>1 DEF CallInv, TypeOK
    <3>2. PICK q \in Requests : Proceed(q)
      BY <1>1, <3>1 DEF Next, Header, Write, Cancel, Over, requestVars
    <3>3. ~Enter(q) /\ ~Send(q) /\ ~Poll(q) /\ ~CutShort(q) /\ ~Again(q)
      BY <1>1, <3>1 DEF Enter, Send, Poll, CutShort, Again, Go
    <3>4. PICK code, status : Finish(q, code, status)
      BY <3>2, <3>3 DEF Proceed, FinishAny
    <3>5. q = r
      BY <1>1, <3>1, <3>4 DEF Finish, Succeed, GiveUp, Retry, Go
    <3> QED
      BY <3>4, <3>5
  <2>2. Retry(r, code, status)
    BY <1>1, <2>1 DEF Finish, Succeed, GiveUp, Go, CallInv, TypeOK
  <2>3. PICK j \in Jitters(r) : left' = [left EXCEPT ![r] = Delay(r, j)]
    BY <2>2 DEF Retry
  <2>4. left'[r] = Delay(r, j)
    BY <1>1, <2>3 DEF CallInv, TypeOK
  <2>5. retryAfter[r] \in Int /\ PhaseOK(r)
    BY <1>1 DEF CallInv, TypeOK
  <2>6. CASE retryAfter[r] < 0
    <3>1. left'[r] = Least(Backoff(r) + j, Cap)
      BY <2>4, <2>5, <2>6 DEF Delay
    <3>2. Asking(r) = {} \/ \E h \in heard[r] : h >= 0 /\ DelayAsked(h, Absent) < 0
      <4>1. CASE \A h \in heard[r] : h < 0
        BY <4>1 DEF Asking, DelayAsked, Absent
      <4> QED
        BY <2>5, <2>6, <4>1 DEF PhaseOK
    <3> QED
      BY <3>1, <3>2 DEF OwnDelay
  <2>7. CASE retryAfter[r] >= 0
    <3>1. PICK h \in heard[r] : retryAfter[r] = DelayAsked(h, Absent)
      BY <2>5, <2>7 DEF PhaseOK
    <3>2. left'[r] = Least(retryAfter[r], Cap)
      BY <2>4, <2>7 DEF Delay
    <3>3. h \in Asking(r)
      BY <2>7, <3>1 DEF Asking
    <3> QED
      BY <3>1, <3>2, <3>3 DEF OwnDelay
  <2> QED
    BY <2>5, <2>6, <2>7
<1>2. CallInv /\ [Next]_requestVars => [\A r \in Requests : Asked(r)]_requestVars
  BY <1>1
<1> QED
  BY <1>2, CallInvariant, PTL DEF Spec, DelayOfThisAttempt

(***************************************************************************)
(* Request implements LogicalCall (jev_extension.cpp:626-717): at most     *)
(* 1 + jev_max_retries attempts, one of them at most after a cancellation, *)
(* and one final result.                                                   *)
(***************************************************************************)
LEMMA ResultOf ==
  ASSUME NEW r \in Requests, NEW p, CallInv, Go(r, p)
  PROVE  Result' = [Result EXCEPT ![r] = CASE p = "answered" -> "answered"
                                           [] p \in {"failed", "refused"} -> "failed"
                                           [] OTHER -> "none"]
BY DEF Go, Result, CallInv, TypeOK

THEOREM RequestImplementsLogicalCall == Spec => ImplementsLogicalCall
<1>1. Init => Promise!Init
  BY DEF Init, Promise!Init, Result
<1>2. ASSUME CallInv, [Next]_requestVars PROVE [Promise!Next]_Promise!callVars
  <2> USE DEF Promise!callVars
  <2>1. ASSUME NEW r \in Requests, Proceed(r) PROVE [Promise!Next]_Promise!callVars
    <3>1. PhaseOK(r) /\ LateOK(r) /\ attempt[r] \in 0 .. Retries /\ Retries \in Nat
      BY <1>2, RequestAssumption DEF CallInv, TypeOK
    <3>2. CASE Enter(r)
      <4>1. CASE cancelled
        <5>1. Promise!GiveUp(r)
          BY <1>2, <3>2, <4>1, ResultOf DEF Enter, Promise!GiveUp, Result, history
        <5> QED
          BY <5>1 DEF Promise!Next
      <4>2. CASE ~cancelled
        <5>1. Result' = Result
          BY <1>2, <3>2, <4>2 DEF Enter, Go, Result, CallInv, TypeOK
        <5> QED
          BY <3>2, <5>1 DEF Enter, history
      <4> QED
        BY <4>1, <4>2
    <3>3. CASE Send(r)
      <4>1. Result' = Result /\ Result[r] = "none"
        BY <1>2, <3>3 DEF Send, Go, Result, CallInv, TypeOK
      <4>2. sent[r] < Retries + 1 /\ late[r] = 0
        BY <3>1, <3>3 DEF Send, PhaseOK, LateOK
      <4>3. late' = IF cancelled THEN [late EXCEPT ![r] = 1] ELSE late
        <5>1. late \in [Requests -> Nat] /\ cancelled \in BOOLEAN
              /\ late' = [late EXCEPT ![r] = IF cancelled THEN late[r] + 1 ELSE late[r]]
          BY <1>2, <3>3 DEF Send, CallInv, TypeOK
        <5>2. CASE cancelled
          BY <4>2, <5>1, <5>2
        <5>3. CASE ~cancelled
          BY <5>1, <5>3
        <5> QED
          BY <5>2, <5>3
      <4>4. Promise!Send(r)
        BY <3>3, <4>1, <4>2, <4>3 DEF Send, Promise!Send
      <4> QED
        BY <4>4 DEF Promise!Next
    <3>4. ASSUME NEW code, NEW status, Finish(r, code, status)
          PROVE  [Promise!Next]_Promise!callVars
      <4>1. sent[r] > 0 /\ Result[r] = "none"
        BY <3>1, <3>4 DEF Finish, PhaseOK, Result
      <4>2. CASE Go(r, "answered")
        <5>1. Promise!Answer(r)
          BY <1>2, <3>4, <4>1, <4>2, ResultOf DEF Finish, Promise!Answer, history
        <5> QED
          BY <5>1 DEF Promise!Next
      <4>3. CASE Go(r, "failed")
        <5>1. Promise!GiveUp(r)
          BY <1>2, <3>4, <4>1, <4>3, ResultOf DEF Finish, Promise!GiveUp, history
        <5> QED
          BY <5>1 DEF Promise!Next
      <4>4. CASE Go(r, "wait")
        <5>1. Result' = Result
          BY <1>2, <3>4, <4>4 DEF Finish, Go, Result, CallInv, TypeOK
        <5> QED
          BY <3>4, <5>1 DEF Finish, history
      <4> QED
        BY <3>4, <4>2, <4>3, <4>4 DEF Finish, Succeed, GiveUp, Retry
    <3>5. CASE Poll(r)
      BY <3>5 DEF Poll, Result, history
    <3>6. CASE CutShort(r)
      <4>1. sent[r] > 0 /\ Result[r] = "none"
        BY <3>1, <3>6 DEF CutShort, PhaseOK, Result
      <4>2. Promise!GiveUp(r)
        BY <1>2, <3>6, <4>1, ResultOf DEF CutShort, Promise!GiveUp, history
      <4> QED
        BY <4>2 DEF Promise!Next
    <3>7. CASE Again(r)
      <4>1. Result' = Result
        BY <1>2, <3>7 DEF Again, Go, Result, CallInv, TypeOK
      <4> QED
        BY <3>7, <4>1 DEF Again, history
    <3> QED
      BY <2>1, <3>2, <3>3, <3>4, <3>5, <3>6, <3>7 DEF Proceed, FinishAny
  <2>2. ASSUME NEW r \in Requests, NEW h \in Headers, Header(r, h)
        PROVE  UNCHANGED Promise!callVars
    BY <2>2 DEF Header, Result, history
  <2>3. ASSUME NEW r \in Requests, NEW n \in Chunks, Write(r, n)
        PROVE  UNCHANGED Promise!callVars
    BY <2>3 DEF Write, Result, history
  <2>4. CASE Cancel
    BY <2>4 DEF Cancel, Promise!Next, Promise!Cancel, Result, history
  <2>5. CASE UNCHANGED requestVars
    BY <2>5 DEF requestVars, Result, history
  <2> QED
    BY <1>2, <2>1, <2>2, <2>3, <2>4, <2>5 DEF Next, Over
<1> QED
  BY <1>1, <1>2, CallInvariant, PTL DEF Spec, ImplementsLogicalCall, Promise!Spec

-----------------------------------------------------------------------------
(***************************************************************************)
(* RecordLatency: AtomicMax is linearizable and the total stays ahead of   *)
(* it, for any number of requests, however long they take.                 *)
(***************************************************************************)

(* The latency of a request that has ended is final.                       *)
LEMMA EndedStays ==
  ASSUME TypeOK, Next, NEW r \in Requests, phase[r] \in Ended
  PROVE  phase'[r] = phase[r] /\ elapsed'[r] = elapsed[r] /\ left'[r] = left[r]
<1> USE DEF TypeOK, Ended
<1>1. ASSUME NEW q \in Requests, Proceed(q)
      PROVE  phase'[r] = phase[r] /\ elapsed'[r] = elapsed[r] /\ left'[r] = left[r]
  <2>1. CASE Enter(q)
    BY <2>1 DEF Enter, Go
  <2>2. CASE Send(q)
    BY <2>2 DEF Send, Go
  <2>3. CASE FinishAny(q)
    BY <2>3 DEF FinishAny, Finish, Succeed, GiveUp, Retry, Go
  <2>4. CASE Poll(q)
    BY <2>4 DEF Poll
  <2>5. CASE CutShort(q)
    BY <2>5 DEF CutShort, Go
  <2>6. CASE Again(q)
    BY <2>6 DEF Again, Go
  <2> QED
    BY <1>1, <2>1, <2>2, <2>3, <2>4, <2>5, <2>6 DEF Proceed
<1>2. ASSUME NEW q \in Requests, NEW h \in Headers, Header(q, h)
      PROVE  UNCHANGED <<phase, elapsed, left>>
  BY <1>2 DEF Header
<1>3. ASSUME NEW q \in Requests, NEW n \in Chunks, Write(q, n)
      PROVE  UNCHANGED <<phase, elapsed, left>>
  BY <1>3 DEF Write
<1>4. CASE Cancel
  BY <1>4 DEF Cancel
<1>5. CASE Over
  BY <1>5 DEF Over, requestVars
<1> QED
  BY <1>1, <1>2, <1>3, <1>4, <1>5 DEF Next

(* What a request holds is an earlier maximum, and what it will raise is   *)
(* final and has been added.                                               *)
LatencyInv ==
  /\ LatencyTypeOK
  /\ max <= total
  /\ \A r \in Requests :
       /\ current[r] <= max
       /\ pc[r] # "add" => phase[r] \in Ended /\ elapsed[r] <= total

LEMMA StepLatency ==
  ASSUME TypeOK, LatencyInv, NEW r \in Requests, LatencyStep(r)
  PROVE  LatencyInv'
<1>1. elapsed \in [Requests -> Nat] /\ UNCHANGED <<phase, elapsed>>
  BY DEF TypeOK, LatencyStep, requestVars
<1>2. CASE Add(r)
  BY <1>1, <1>2 DEF LatencyInv, LatencyTypeOK, Add, Added, Records, Ended
<1>3. CASE Load(r)
  BY <1>1, <1>3 DEF LatencyInv, LatencyTypeOK, Load
<1>4. CASE Larger(r)
  BY <1>1, <1>4 DEF LatencyInv, LatencyTypeOK, Larger
<1>5. CASE Exchange(r)
  BY <1>1, <1>5 DEF LatencyInv, LatencyTypeOK, Exchange, Expected
<1>6. CASE Miss(r)
  BY <1>1, <1>6 DEF LatencyInv, LatencyTypeOK, Miss
<1> QED
  BY <1>2, <1>3, <1>4, <1>5, <1>6 DEF LatencyStep

(* A behaviour of the composition is one of Request.                       *)
LEMMA RecordingIsRequest == RecordingSpec => Spec
<1>1. [RecordingNext]_recordingVars => [Next]_requestVars
  BY DEF RecordingNext, LatencyStep, recordingVars
<1>2. RecordingInit => Init
  BY DEF RecordingInit
<1> QED
  BY <1>1, <1>2, PTL DEF RecordingSpec, Spec

LEMMA LatencyInvariant == RecordingSpec => [](TypeOK /\ LatencyInv)
<1>1. RecordingInit => LatencyInv
  BY DEF RecordingInit, LatencyInv, LatencyTypeOK
<1>2. TypeOK /\ LatencyInv /\ [RecordingNext]_recordingVars => LatencyInv'
  <2> SUFFICES ASSUME TypeOK, LatencyInv, [RecordingNext]_recordingVars PROVE LatencyInv'
    OBVIOUS
  <2>1. CASE UNCHANGED recordingVars
    BY <2>1 DEF LatencyInv, LatencyTypeOK, latencyVars, requestVars, recordingVars
  <2>2. CASE Next /\ UNCHANGED latencyVars
    <3>1. \A r \in Requests : phase[r] \in Ended =>
             phase'[r] \in Ended /\ elapsed'[r] = elapsed[r]
      BY <2>2, EndedStays
    <3> QED
      BY <2>2, <3>1 DEF LatencyInv, LatencyTypeOK, latencyVars
  <2> QED
    BY <2>1, <2>2, StepLatency DEF RecordingNext
<1> QED
  BY <1>1, <1>2, RecordingIsRequest, RequestTypeCorrect, PTL DEF RecordingSpec

(* The maximum is never ahead of the total (jev_extension.cpp:661-662).    *)
THEOREM TotalFirst == RecordingSpec => []MaxWithinTotal
BY LatencyInvariant, PTL DEF LatencyInv, MaxWithinTotal

(***************************************************************************)
(* Each call takes effect in one step, as the abstract register's Record   *)
(* does (jev_extension.cpp:73-77): at its exchange, which succeeds only if *)
(* the smaller value it holds is still the maximum, or at the comparison   *)
(* with an earlier maximum that was as large already.                      *)
(***************************************************************************)
THEOREM AtomicMaxIsMax == RecordingSpec => ImplementsMaxRegister
<1>1. RecordingInit => Register!Init
  BY DEF RecordingInit, Register!Init
<1>2. ASSUME TypeOK, LatencyInv, [RecordingNext]_recordingVars
      PROVE  [Register!Next]_Register!registerVars
  <2>1. ASSUME NEW r \in Requests, LatencyStep(r) PROVE [Register!Next]_Register!registerVars
    <3> DEFINE Done     == { q \in Requests : pc[q] = "done" }
               AddedSet == { q \in Requests : pc[q] # "add" }
    <3>1. /\ elapsed[r] \in Nat /\ max \in Nat /\ current[r] \in Nat /\ current[r] <= max
          /\ pc \in [Requests -> {"add", "load", "loop", "done"}]
      BY <1>2 DEF LatencyInv, LatencyTypeOK, TypeOK
    <3>2. CASE Load(r) \/ Miss(r)
      <4>1. Done' = Done /\ AddedSet' = AddedSet
        BY <3>1, <3>2 DEF Load, Miss
      <4> QED
        BY <3>2, <4>1 DEF Load, Miss, Register!registerVars
    <3>4. CASE Add(r)
      <4>1. Done' = Done /\ AddedSet' = AddedSet \cup {r} /\ r \notin AddedSet
        BY <3>1, <3>4 DEF Add
      <4> QED
        BY <3>4, <4>1 DEF Add, Added, Register!Next, Register!Add
    <3>3. CASE Larger(r) \/ Exchange(r)
      <4>1. /\ Done' = Done \cup {r} /\ AddedSet' = AddedSet /\ total' = total
            /\ r \in AddedSet \ Done
        BY <3>1, <3>3 DEF Larger, Exchange
      <4>2. max' = IF max < elapsed[r] THEN elapsed[r] ELSE max
        BY <3>1, <3>3 DEF Larger, Exchange, Expected
      <4> QED
        BY <4>1, <4>2 DEF Register!Next, Register!Record
    <3> QED
      BY <2>1, <3>2, <3>3, <3>4 DEF LatencyStep
  <2>2. CASE UNCHANGED latencyVars
    BY <2>2 DEF latencyVars, Register!registerVars
  <2> QED
    BY <1>2, <2>1, <2>2 DEF RecordingNext, recordingVars
<1> QED
  BY <1>1, <1>2, LatencyInvariant, PTL DEF RecordingSpec, ImplementsMaxRegister, Register!Spec

-----------------------------------------------------------------------------
(* The counters. Each is a sum over the requests, and a step is one        *)
(* request's.                                                              *)

(* The requests in a delay, or cut short in one. *)
Waiting == { r \in Requests : left[r] > 0 \/ phase[r] = "wait" }
(* The requests whose delay is over and whose retry has not been sent yet. *)
Resumed == { r \in Started : phase[r] = "ready" /\ sent[r] > 0 }
(* What each request has sent, in bytes. *)
Bytes == [r \in Requests |-> sent[r] * Payload[r]]
(* How often each request was sent again. *)
Repeats == [r \in Requests |-> Most(0, sent[r] - 1)]

(***************************************************************************)
(* Every counter as a sum over the requests, also when delays were cut     *)
(* short: `retries' then counts those as if their attempts had been made.  *)
(***************************************************************************)
Sums ==
  /\ metrics["requests"] = Cardinality(Started)
  /\ metrics["request_bytes"] = SumFunction(Bytes)
  /\ metrics["retries"] = SumFunction(Repeats) + Cardinality(Waiting) + Cardinality(Resumed)
  /\ metrics["errors"] = Cardinality(Failed \ Waiting)

ArrivedInv == metrics["response_bytes"] + SumFunction(Arriving) = delivered

(* With what they need: a delay is left over only by a request that waits  *)
(* or has failed.                                                          *)
MetricsInv ==
  /\ CallInv /\ Sums
  /\ \A r \in Requests : left[r] > 0 => phase[r] \in {"wait", "failed"}

(* What a step of one request must do to the counters. *)
Counted(r) ==
  /\ metrics'["requests"] = metrics["requests"] - One(r, Started) + One(r, Started')
  /\ metrics'["request_bytes"] = metrics["request_bytes"] - Bytes[r] + Bytes'[r]
  /\ metrics'["retries"] = metrics["retries"] - Repeats[r] + Repeats'[r]
                             - One(r, Waiting) + One(r, Waiting')
                             - One(r, Resumed) + One(r, Resumed')
  /\ metrics'["errors"] = metrics["errors"] - One(r, Failed \ Waiting)
                            + One(r, Failed' \ Waiting')

(* A step of one request that does this keeps every counter the sum over   *)
(* all requests.                                                           *)
LEMMA OnlyOne ==
  ASSUME NEW r \in Requests, TypeOK, TypeOK', Sums, Counted(r),
         \A q \in Requests \ {r} : phase'[q] = phase[q] /\ left'[q] = left[q] /\ sent'[q] = sent[q]
  PROVE  Sums'
<1>0. IsFiniteSet(Requests) /\ Payload \in [Requests -> Nat]
  BY RequestAssumption
<1>1. /\ IsFiniteSet(Started) /\ IsFiniteSet(Waiting) /\ IsFiniteSet(Resumed)
      /\ IsFiniteSet(Failed \ Waiting)
  BY <1>0, FS_Subset DEF Started, Waiting, Resumed, Failed
<1>2. \A x : x # r => (x \in Started <=> x \in Started')
  BY DEF Started
<1>3. \A x : x # r => (x \in Waiting <=> x \in Waiting')
  BY DEF Waiting
<1>4. \A x : x # r => (x \in Resumed <=> x \in Resumed')
  BY DEF Resumed, Started
<1>5. \A x : x # r => (x \in Failed \ Waiting <=> x \in Failed' \ Waiting')
  BY <1>3 DEF Failed
<1>6. /\ Cardinality(Started') = Cardinality(Started) - One(r, Started) + One(r, Started')
      /\ Cardinality(Started) \in Nat
  BY <1>1, <1>2, CardChange
<1>7. /\ Cardinality(Waiting') = Cardinality(Waiting) - One(r, Waiting) + One(r, Waiting')
      /\ Cardinality(Waiting) \in Nat
  BY <1>1, <1>3, CardChange
<1>8. /\ Cardinality(Resumed') = Cardinality(Resumed) - One(r, Resumed) + One(r, Resumed')
      /\ Cardinality(Resumed) \in Nat
  BY <1>1, <1>4, CardChange
<1>9. /\ Cardinality(Failed' \ Waiting')
            = Cardinality(Failed \ Waiting) - One(r, Failed \ Waiting) + One(r, Failed' \ Waiting')
      /\ Cardinality(Failed \ Waiting) \in Nat
  <2> DEFINE A == Failed \ Waiting
             B == Failed' \ Waiting'
  <2>1. IsFiniteSet(A) /\ \A x : x # r => (x \in A <=> x \in B)
    BY <1>1, <1>5
  <2> HIDE DEF A, B
  <2>2. Cardinality(B) = Cardinality(A) - One(r, A) + One(r, B) /\ Cardinality(A) \in Nat
    BY <2>1, CardChange
  <2> QED BY <2>2 DEF A, B
<1>10. /\ Bytes \in [Requests -> Nat] /\ Bytes' \in [Requests -> Nat]
       /\ \A q \in Requests \ {r} : Bytes'[q] = Bytes[q]
  <2>1. \A q \in Requests : sent[q] * Payload[q] \in Nat /\ sent'[q] * Payload[q] \in Nat
    BY <1>0 DEF TypeOK
  <2> QED BY <2>1 DEF Bytes
<1>11. /\ Repeats \in [Requests -> Nat] /\ Repeats' \in [Requests -> Nat]
       /\ \A q \in Requests \ {r} : Repeats'[q] = Repeats[q]
  <2>1. \A q \in Requests : Most(0, sent[q] - 1) \in Nat /\ Most(0, sent'[q] - 1) \in Nat
    BY DEF TypeOK, Most
  <2>2. \A q \in Requests \ {r} : Most(0, sent'[q] - 1) = Most(0, sent[q] - 1)
    OBVIOUS
  <2>3. /\ Repeats = [q \in Requests |-> Most(0, sent[q] - 1)]
        /\ Repeats' = [q \in Requests |-> Most(0, sent'[q] - 1)]
    BY DEF Repeats, Most
  <2> QED BY <2>1, <2>2, <2>3
<1>12. /\ SumFunction(Bytes') = SumFunction(Bytes) - Bytes[r] + Bytes'[r]
       /\ SumFunction(Bytes) \in Nat
  BY <1>0, <1>10, SumStep
<1>13. /\ SumFunction(Repeats') = SumFunction(Repeats) - Repeats[r] + Repeats'[r]
       /\ SumFunction(Repeats) \in Nat
  BY <1>0, <1>11, SumStep
<1>14. /\ metrics["requests"] = Cardinality(Started)
       /\ metrics["request_bytes"] = SumFunction(Bytes)
       /\ metrics["retries"] = SumFunction(Repeats) + Cardinality(Waiting) + Cardinality(Resumed)
       /\ metrics["errors"] = Cardinality(Failed \ Waiting)
  BY DEF Sums
<1>15. /\ Bytes[r] \in Nat /\ Bytes'[r] \in Nat /\ Repeats[r] \in Nat /\ Repeats'[r] \in Nat
  BY <1>10, <1>11
<1>16. \A S : One(r, S) \in Nat
  BY DEF One
<1> HIDE DEF Bytes
<1>17. metrics'["requests"] = Cardinality(Started')
  BY <1>6, <1>14, <1>16 DEF Counted
<1>18. metrics'["request_bytes"] = SumFunction(Bytes')
  BY <1>12, <1>14, <1>15 DEF Counted
<1>19. metrics'["retries"] = SumFunction(Repeats') + Cardinality(Waiting') + Cardinality(Resumed')
  BY <1>7, <1>8, <1>13, <1>14, <1>15, <1>16 DEF Counted
<1>20. metrics'["errors"] = Cardinality(Failed' \ Waiting')
  BY <1>9, <1>14, <1>16 DEF Counted
<1> QED
  BY <1>17, <1>18, <1>19, <1>20 DEF Sums

(* An attempt that ended: success, a retry or an error                     *)
(* (jev_extension.cpp:690-716).                                            *)
LEMMA CountFinish ==
  ASSUME MetricsInv, NEW r \in Requests, NEW code, NEW status, Finish(r, code, status)
  PROVE  Counted(r) /\ (left'[r] > 0 => phase'[r] \in {"wait", "failed"})
<1> USE DEF MetricsInv, CallInv
<1>1. /\ phase[r] = "transfer" /\ left[r] = 0 /\ body[r] \in Nat
      /\ UNCHANGED sent /\ sent[r] \in Nat
  BY RequestAssumption DEF Finish, history, TypeOK
<1>2. /\ r \in Started /\ r \notin Waiting /\ r \notin Resumed /\ r \notin Failed
      /\ Bytes' = Bytes /\ Repeats' = Repeats
  <2>1. Bytes' = Bytes /\ Repeats' = Repeats
    BY <1>1 DEF Bytes, Repeats, Most
  <2> QED BY <1>1, <2>1 DEF Started, Waiting, Resumed, Failed
<1>3. Bytes[r] \in Nat /\ Repeats[r] \in Nat
  BY RequestAssumption DEF Bytes, Repeats, Most, TypeOK
<1>4. \A m \in Counters : metrics[m] \in Nat
  BY DEF TypeOK
<1>5. CASE Succeed(r, code, status)
  <2>1. UNCHANGED left /\ phase'[r] \in {"answered", "failed"}
    BY <1>5 DEF Succeed, Go, TypeOK
  <2>2. /\ metrics'["requests"] = metrics["requests"]
        /\ metrics'["request_bytes"] = metrics["request_bytes"]
        /\ metrics'["retries"] = metrics["retries"]
        /\ metrics'["errors"] = IF phase'[r] = "failed" THEN metrics["errors"] + 1
                                                       ELSE metrics["errors"]
    <3>1. CASE phase' = [phase EXCEPT ![r] = "answered"]
               /\ \E n \in Tokens : metrics' = Plus([response_bytes |-> body[r], tokens |-> n])
      <4>1. PICK n \in Tokens : metrics' = Plus([response_bytes |-> body[r], tokens |-> n])
        BY <3>1
      <4>2. phase'[r] # "failed" /\ n \in Nat
        BY <3>1, RequestAssumption DEF TypeOK
      <4> QED BY <1>1, <4>1, <4>2 DEF Plus, Counters
    <3>2. CASE phase' = [phase EXCEPT ![r] = "failed"]
               /\ metrics' = Plus([response_bytes |-> body[r], errors |-> 1])
      <4>1. phase'[r] = "failed"
        BY <3>2 DEF TypeOK
      <4> QED BY <1>1, <3>2, <4>1 DEF Plus, Counters
    <3> QED BY <1>5, <3>1, <3>2 DEF Succeed, Go
  <2>3. /\ r \in Started' /\ r \notin Waiting' /\ r \notin Resumed'
        /\ (r \in Failed' <=> phase'[r] = "failed")
    BY <1>1, <2>1 DEF Started, Waiting, Resumed, Failed
  <2>4. Counted(r)
    <3> HIDE DEF MetricsInv, CallInv
    <3> QED BY <1>2, <1>3, <1>4, <2>2, <2>3 DEF Counted, One, Counters
  <2> QED BY <1>1, <2>1, <2>4
<1>6. CASE GiveUp(r, code, status)
  <2>1. UNCHANGED left /\ phase'[r] = "failed"
    BY <1>6 DEF GiveUp, Go, TypeOK
  <2>2. /\ metrics'["requests"] = metrics["requests"]
        /\ metrics'["request_bytes"] = metrics["request_bytes"]
        /\ metrics'["retries"] = metrics["retries"]
        /\ metrics'["errors"] = metrics["errors"] + 1
    BY <1>1, <1>6 DEF GiveUp, Plus, Counters
  <2>3. r \in Started' /\ r \notin Waiting' /\ r \notin Resumed' /\ r \in Failed'
    BY <1>1, <2>1 DEF Started, Waiting, Resumed, Failed
  <2>4. Counted(r)
    <3> HIDE DEF MetricsInv, CallInv
    <3> QED BY <1>2, <1>3, <1>4, <2>2, <2>3 DEF Counted, One, Counters
  <2> QED BY <1>1, <2>1, <2>4
<1>7. CASE Retry(r, code, status)
  <2>1. phase'[r] = "wait"
    BY <1>7 DEF Retry, Go, TypeOK
  <2>2. /\ metrics'["requests"] = metrics["requests"]
        /\ metrics'["request_bytes"] = metrics["request_bytes"]
        /\ metrics'["retries"] = metrics["retries"] + 1
        /\ metrics'["errors"] = metrics["errors"]
    BY <1>1, <1>7 DEF Retry, RetryCount, Plus, Counters
  <2>3. r \in Started' /\ r \in Waiting' /\ r \notin Resumed' /\ r \notin Failed'
    BY <1>1, <2>1 DEF Started, Waiting, Resumed, Failed
  <2>4. Counted(r)
    <3> HIDE DEF MetricsInv, CallInv
    <3> QED BY <1>2, <1>3, <1>4, <2>2, <2>3 DEF Counted, One, Counters
  <2> QED BY <2>1, <2>4
<1> QED BY <1>5, <1>6, <1>7 DEF Finish

(* Every other step of a request (jev_extension.cpp:654-690). *)
LEMMA CountStep ==
  ASSUME MetricsInv, NEW r \in Requests,
         Enter(r) \/ Send(r) \/ Poll(r) \/ CutShort(r) \/ Again(r)
  PROVE  Counted(r) /\ (left'[r] > 0 => phase'[r] \in {"wait", "failed"})
<1> USE DEF MetricsInv, CallInv
<1>1. /\ PhaseOK(r) /\ sent[r] \in Nat /\ left[r] \in Nat /\ attempt[r] \in Nat
      /\ (left[r] > 0 => phase[r] \in {"wait", "failed"})
      /\ Payload[r] \in Nat /\ Questions[r] \in Nat
  BY RequestAssumption DEF TypeOK
<1>2. Bytes[r] \in Nat /\ Repeats[r] \in Nat
  BY <1>1 DEF Bytes, Repeats, Most
<1>3. \A m \in Counters : metrics[m] \in Nat
  BY DEF TypeOK
<1>4. CASE Enter(r)
  <2>1. UNCHANGED <<left, sent>> /\ phase[r] = "gate" /\ sent[r] = 0 /\ left[r] = 0
        /\ phase'[r] = IF cancelled THEN "refused" ELSE "ready"
    BY <1>1, <1>4 DEF Enter, Go, TypeOK, history, PhaseOK
  <2>2. /\ metrics'["requests"] = IF cancelled THEN metrics["requests"] ELSE metrics["requests"] + 1
        /\ metrics'["request_bytes"] = metrics["request_bytes"]
        /\ metrics'["retries"] = metrics["retries"]
        /\ metrics'["errors"] = metrics["errors"]
    BY <1>1, <1>4 DEF Enter, Plus, Counters
  <2>3. /\ r \notin Started /\ r \notin Waiting /\ r \notin Resumed /\ r \notin Failed
        /\ (r \in Started' <=> ~cancelled) /\ r \notin Waiting' /\ r \notin Resumed' /\ r \notin Failed'
    BY <2>1 DEF Started, Waiting, Resumed, Failed
  <2>4. Bytes' = Bytes /\ Repeats' = Repeats
    BY <2>1 DEF Bytes, Repeats, Most
  <2>5. Counted(r)
    <3> HIDE DEF MetricsInv, CallInv
    <3> QED BY <1>2, <1>3, <2>2, <2>3, <2>4 DEF Counted, One, Counters
  <2> QED BY <2>1, <2>5
<1>5. CASE Send(r)
  <2>1. UNCHANGED left /\ phase[r] = "ready" /\ sent'[r] = sent[r] + 1 /\ left[r] = 0
        /\ phase'[r] = "transfer"
    BY <1>1, <1>5 DEF Send, Go, TypeOK
  <2>2. /\ metrics'["requests"] = metrics["requests"]
        /\ metrics'["request_bytes"] = metrics["request_bytes"] + Payload[r]
        /\ metrics'["retries"] = metrics["retries"]
        /\ metrics'["errors"] = metrics["errors"]
    BY <1>1, <1>5 DEF Send, Plus, Counters
  <2>3. /\ r \in Started /\ r \notin Waiting /\ (r \in Resumed <=> sent[r] > 0) /\ r \notin Failed
        /\ r \in Started' /\ r \notin Waiting' /\ r \notin Resumed' /\ r \notin Failed'
    BY <2>1 DEF Started, Waiting, Resumed, Failed
  <2>4. Bytes'[r] = Bytes[r] + Payload[r]
    <3>1. (sent[r] + 1) * Payload[r] = sent[r] * Payload[r] + Payload[r]
      BY <1>1
    <3> QED BY <2>1, <3>1 DEF Bytes
  <2>5. Repeats'[r] = IF sent[r] > 0 THEN Repeats[r] + 1 ELSE Repeats[r]
    BY <1>1, <2>1 DEF Repeats, Most
  <2>6. Counted(r)
    <3> HIDE DEF MetricsInv, CallInv
    <3> QED BY <1>1, <1>2, <1>3, <2>2, <2>3, <2>4, <2>5 DEF Counted, One, Counters
  <2> QED BY <2>1, <2>6
<1>6. CASE Poll(r)
  <2>1. UNCHANGED <<phase, sent, metrics>> /\ phase[r] = "wait"
    BY <1>6 DEF Poll, history
  <2>2. /\ r \in Started /\ r \in Waiting /\ r \notin Resumed /\ r \notin Failed
        /\ r \in Started' /\ r \in Waiting' /\ r \notin Resumed' /\ r \notin Failed'
    BY <2>1 DEF Started, Waiting, Resumed, Failed
  <2>3. Bytes' = Bytes /\ Repeats' = Repeats
    BY <2>1 DEF Bytes, Repeats, Most
  <2>4. Counted(r)
    <3> HIDE DEF MetricsInv, CallInv
    <3> QED BY <1>2, <1>3, <2>1, <2>2, <2>3 DEF Counted, One, Counters
  <2> QED BY <2>1, <2>4
<1>7. CASE CutShort(r)
  <2>1. UNCHANGED <<left, sent, metrics>> /\ phase[r] = "wait" /\ phase'[r] = "failed" /\ left[r] > 0
    BY <1>7 DEF CutShort, history, Go, TypeOK
  <2>2. /\ r \in Started /\ r \in Waiting /\ r \notin Resumed
        /\ r \in Started' /\ r \in Waiting' /\ r \notin Resumed'
    BY <2>1 DEF Started, Waiting, Resumed, Failed
  <2>3. Bytes' = Bytes /\ Repeats' = Repeats
    BY <2>1 DEF Bytes, Repeats, Most
  <2>4. Counted(r)
    <3> HIDE DEF MetricsInv, CallInv
    <3> QED BY <1>2, <1>3, <2>1, <2>2, <2>3 DEF Counted, One, Counters
  <2> QED BY <2>1, <2>4
<1>8. CASE Again(r)
  <2>1. UNCHANGED <<left, sent, metrics>> /\ phase[r] = "wait" /\ phase'[r] = "ready" /\ left[r] = 0
        /\ sent[r] > 0
    BY <1>1, <1>8 DEF Again, history, Go, TypeOK, PhaseOK
  <2>2. /\ r \in Started /\ r \in Waiting /\ r \notin Resumed /\ r \notin Failed
        /\ r \in Started' /\ r \notin Waiting' /\ r \in Resumed' /\ r \notin Failed'
    BY <2>1 DEF Started, Waiting, Resumed, Failed
  <2>3. Bytes' = Bytes /\ Repeats' = Repeats
    BY <2>1 DEF Bytes, Repeats, Most
  <2>4. Counted(r)
    <3> HIDE DEF MetricsInv, CallInv
    <3> QED BY <1>2, <1>3, <2>1, <2>2, <2>3 DEF Counted, One, Counters
  <2> QED BY <1>1, <2>1, <2>4
<1> QED BY <1>4, <1>5, <1>6, <1>7, <1>8

(* Every step keeps the counters exact. *)
LEMMA CountNext == MetricsInv /\ [Next]_requestVars => MetricsInv'
<1> SUFFICES ASSUME MetricsInv, [Next]_requestVars PROVE MetricsInv'
  OBVIOUS
<1>1. CallInv' /\ TypeOK /\ TypeOK'
  BY NextCall DEF MetricsInv, CallInv
<1>2. ASSUME NEW r \in Requests, Counted(r), left'[r] > 0 => phase'[r] \in {"wait", "failed"},
             \A q \in Requests \ {r} : phase'[q] = phase[q] /\ left'[q] = left[q] /\ sent'[q] = sent[q]
      PROVE  MetricsInv'
  <2>1. Sums'
    BY <1>1, <1>2, OnlyOne DEF MetricsInv
  <2> QED BY <1>1, <1>2, <2>1 DEF MetricsInv
<1>3. ASSUME NEW r \in Requests, Proceed(r) PROVE MetricsInv'
  <2>1. Counted(r) /\ (left'[r] > 0 => phase'[r] \in {"wait", "failed"})
    BY <1>3, CountFinish, CountStep DEF Proceed, FinishAny
  <2>2. \A q \in Requests \ {r} : phase'[q] = phase[q] /\ left'[q] = left[q] /\ sent'[q] = sent[q]
    BY <1>1, <1>3 DEF TypeOK, Proceed, FinishAny, Enter, Send, Poll, CutShort, Again,
                      Finish, Succeed, GiveUp, Retry, Go, history
  <2> QED BY <1>2, <2>1, <2>2
<1>4. CASE UNCHANGED <<phase, left, sent, metrics>>
  BY <1>1, <1>4 DEF MetricsInv, Sums, Started, Waiting, Failed, Resumed, Bytes, Repeats, Most
<1>5. CASE \E r \in Requests : (\E h \in Headers : Header(r, h)) \/ (\E n \in Chunks : Write(r, n))
  BY <1>4, <1>5 DEF Header, Write, history
<1>6. CASE Cancel
  BY <1>4, <1>6 DEF Cancel, history
<1>7. CASE UNCHANGED requestVars
  BY <1>4, <1>7 DEF requestVars, history
<1> QED
  BY <1>3, <1>5, <1>6, <1>7 DEF Next, Over

(* They are zero at first. *)
LEMMA CountInit == Init => MetricsInv
<1> SUFFICES ASSUME Init PROVE MetricsInv
  OBVIOUS
<1>1. CallInv
  BY InitCall
<1>2. /\ Started = {} /\ Waiting = {} /\ Failed = {} /\ Resumed = {}
      /\ \A r \in Requests : left[r] = 0
  BY DEF Init, Started, Waiting, Failed, Resumed
<1>3. SumFunction(Bytes) = 0 /\ SumFunction(Repeats) = 0
  <2>1. /\ Bytes \in [Requests -> {0}] /\ Repeats \in [Requests -> {0}]
    BY RequestAssumption DEF Init, Bytes, Repeats, Most
  <2> HIDE DEF Bytes, Repeats
  <2> QED BY <2>1, RequestAssumption, SumZero
<1>4. Sums
  <2>1. /\ metrics["requests"] = 0 /\ metrics["request_bytes"] = 0
        /\ metrics["retries"] = 0 /\ metrics["errors"] = 0
    BY DEF Init, Counters
  <2>2. Cardinality(Started) = 0 /\ Cardinality(Waiting) = 0 /\ Cardinality(Resumed) = 0
        /\ Cardinality(Failed \ Waiting) = 0
    BY <1>2, FS_EmptySet
  <2>3. Sums <=>
          /\ metrics["requests"] = Cardinality(Started)
          /\ metrics["request_bytes"] = SumFunction(Bytes)
          /\ metrics["retries"] = SumFunction(Repeats) + Cardinality(Waiting) + Cardinality(Resumed)
          /\ metrics["errors"] = Cardinality(Failed \ Waiting)
    BY DEF Sums
  <2> QED BY <1>3, <2>1, <2>2, <2>3
<1> QED BY <1>1, <1>2, <1>4 DEF MetricsInv

-----------------------------------------------------------------------------
(* What arrived is counted when its attempt ends.                          *)

LEMMA OneArrives ==
  ASSUME CallInv, NEW r \in Requests, Arriving' \in [Requests -> Nat],
         \A q \in Requests \ {r} : Arriving'[q] = Arriving[q]
  PROVE  SumFunction(Arriving') = SumFunction(Arriving) - Arriving[r] + Arriving'[r]
<1>1. IsFiniteSet(Requests)
  BY RequestAssumption
<1>2. Arriving \in [Requests -> Nat]
  BY RequestAssumption DEF Arriving, CallInv, TypeOK
<1> HIDE DEF Arriving
<1> QED BY <1>1, <1>2, SumStep

LEMMA ArrivingIsNat ==
  ASSUME CallInv
  PROVE  Arriving \in [Requests -> Nat] /\ SumFunction(Arriving) \in Nat
<1>1. IsFiniteSet(Requests)
  BY RequestAssumption
<1>2. Arriving \in [Requests -> Nat]
  BY RequestAssumption DEF Arriving, CallInv, TypeOK
<1> HIDE DEF Arriving
<1> QED BY <1>1, <1>2, SumOf

LEMMA ArrivedInit == Init => ArrivedInv
<1> SUFFICES ASSUME Init PROVE ArrivedInv
  OBVIOUS
<1>1. IsFiniteSet(Requests) /\ Arriving \in [Requests -> {0}]
  BY RequestAssumption DEF Init, Arriving
<1> HIDE DEF Arriving
<1>2. SumFunction(Arriving) = 0
  BY <1>1, SumZero
<1>3. metrics["response_bytes"] = 0 /\ delivered = 0
  BY DEF Init, Counters
<1> QED BY <1>2, <1>3 DEF ArrivedInv

LEMMA ArrivedNext == ASSUME CallInv, CallInv', ArrivedInv, [Next]_requestVars PROVE ArrivedInv'
<1> DEFINE mr == metrics["response_bytes"]
<1>0. /\ mr \in Nat /\ mr' \in Nat /\ delivered \in Nat /\ SumFunction(Arriving) \in Nat
      /\ Arriving \in [Requests -> Nat] /\ Arriving' \in [Requests -> Nat]
      /\ mr + SumFunction(Arriving) = delivered
  <2>1. mr \in Nat /\ mr' \in Nat /\ delivered \in Nat
    BY DEF CallInv, TypeOK, Counters
  <2>2. Arriving' \in [Requests -> Nat]
    BY RequestAssumption DEF Arriving, CallInv, TypeOK
  <2> QED BY <2>1, <2>2, ArrivingIsNat DEF ArrivedInv
<1>1. ASSUME NEW r \in Requests, \A q \in Requests \ {r} : Arriving'[q] = Arriving[q],
             mr' - mr + Arriving'[r] - Arriving[r] = delivered' - delivered, delivered' \in Nat
      PROVE  ArrivedInv'
  <2>1. SumFunction(Arriving') = SumFunction(Arriving) - Arriving[r] + Arriving'[r]
    BY <1>0, <1>1, OneArrives
  <2>2. PICK a, b : a = Arriving[r] /\ b = Arriving'[r] /\ a \in Nat /\ b \in Nat
    BY <1>0
  <2> HIDE DEF mr
  <2>3. mr' + SumFunction(Arriving') = delivered'
    BY <1>0, <1>1, <2>1, <2>2
  <2> QED BY <2>3 DEF ArrivedInv, mr
<1>2. ASSUME UNCHANGED <<Arriving, mr, delivered>> PROVE ArrivedInv'
  BY <1>2 DEF ArrivedInv
<1>3. ASSUME NEW r \in Requests, NEW n \in Chunks, Write(r, n) PROVE ArrivedInv'
  <2>1. /\ Arriving'[r] = Arriving[r] + n /\ mr' = mr /\ delivered' = delivered + n
        /\ \A q \in Requests \ {r} : Arriving'[q] = Arriving[q]
    BY <1>3 DEF Write, Arriving, CallInv, TypeOK
  <2>2. n \in Nat /\ Arriving[r] \in Nat
    BY <1>0, RequestAssumption
  <2> HIDE DEF mr
  <2> QED BY <1>0, <1>1, <2>1, <2>2
<1>4. ASSUME NEW r \in Requests, NEW code, NEW status, Finish(r, code, status) PROVE ArrivedInv'
  <2>1. phase[r] = "transfer" /\ UNCHANGED body /\ delivered' = delivered /\ body[r] \in Nat
    BY <1>4, RequestAssumption DEF Finish, transfer, history, CallInv, TypeOK
  <2>2. mr' = mr + body[r]
    <3>1. CASE Succeed(r, code, status)
      BY <3>1 DEF Succeed, Plus, Counters
    <3>2. CASE GiveUp(r, code, status)
      BY <3>2 DEF GiveUp, Plus, Counters
    <3>3. CASE Retry(r, code, status)
      BY <3>3 DEF Retry, RetryCount, Plus, Counters
    <3> QED BY <1>4, <3>1, <3>2, <3>3 DEF Finish
  <2>3. phase'[r] # "transfer" /\ \A q \in Requests \ {r} : phase'[q] = phase[q]
    BY <1>4 DEF Finish, Succeed, GiveUp, Retry, Go, CallInv, TypeOK
  <2>4. /\ Arriving[r] = body[r] /\ Arriving'[r] = 0
        /\ \A q \in Requests \ {r} : Arriving'[q] = Arriving[q]
    BY <2>1, <2>3 DEF Arriving
  <2> HIDE DEF mr
  <2> QED BY <1>0, <1>1, <2>1, <2>2, <2>4
<1>5. ASSUME NEW r \in Requests, Enter(r) \/ Send(r) \/ Poll(r) \/ CutShort(r) \/ Again(r)
      PROVE  ArrivedInv'
  <2>1. mr' = mr /\ delivered' = delivered
    BY <1>5 DEF Enter, Send, Poll, CutShort, Again, history, Plus, Counters
  <2>2. \A q \in Requests : Arriving'[q] = Arriving[q]
    BY <1>5 DEF Arriving, Enter, Send, Poll, CutShort, Again, Go, transfer, CallInv, TypeOK
  <2>3. Arriving'[r] = Arriving[r] /\ Arriving[r] \in Nat
    BY <1>0, <2>2
  <2> HIDE DEF mr
  <2> QED BY <1>0, <1>1, <2>1, <2>2, <2>3
<1>6. ASSUME NEW r \in Requests, Proceed(r) PROVE ArrivedInv'
  BY <1>4, <1>5, <1>6 DEF Proceed, FinishAny
<1>7. ASSUME NEW r \in Requests, NEW h \in Headers, Header(r, h) PROVE ArrivedInv'
  BY <1>2, <1>7 DEF Header, history, Arriving
<1>8. CASE Cancel
  BY <1>2, <1>8 DEF Cancel, history, transfer, Arriving
<1>9. CASE UNCHANGED requestVars
  BY <1>2, <1>9 DEF requestVars, history, transfer, Arriving
<1> QED BY <1>3, <1>6, <1>7, <1>8, <1>9 DEF Next, Over

(***************************************************************************)
(* The query's counters are what its requests did: those started, the      *)
(* bytes they sent and received, the attempts they repeated unless a delay *)
(* was cut short, and the requests that failed for the caller, each        *)
(* counted once however attempts, delays and cancellations interleave      *)
(* (jev_extension.cpp:654-716).                                            *)
(***************************************************************************)
THEOREM CountersExact == Spec => []MetricsExact
<1>1. MetricsInv /\ ArrivedInv => MetricsExact
  <2> SUFFICES ASSUME MetricsInv, ArrivedInv PROVE MetricsExact
    OBVIOUS
  <2>1. IsFiniteSet(Waiting) /\ IsFiniteSet(Resumed)
    BY RequestAssumption, FS_Subset DEF Waiting, Resumed, Started
  <2>2. Failed \ InDelay = Failed \ Waiting
    BY DEF Failed, InDelay, Waiting
  <2>3. ASSUME InDelay = {}
        PROVE  Cardinality(Pending) = Cardinality(Waiting) + Cardinality(Resumed)
    <3>1. Waiting \cup Resumed = Pending /\ Waiting \cap Resumed = {}
      BY <2>3 DEF MetricsInv, InDelay, Failed, Waiting, Resumed, Started, Pending
    <3>2. /\ Cardinality(Waiting \cup Resumed)
                = Cardinality(Waiting) + Cardinality(Resumed) - Cardinality(Waiting \cap Resumed)
          /\ Cardinality(Waiting) \in Nat /\ Cardinality(Resumed) \in Nat
      BY <2>1, FS_Union, FS_CardinalityType
    <3>3. Cardinality(Waiting \cap Resumed) = 0
      BY <3>1, FS_EmptySet
    <3>4. PICK a, b, c : a = Cardinality(Waiting) /\ b = Cardinality(Resumed) /\ c = Cardinality(Pending)
      OBVIOUS
    <3>5. c = a + b - 0 /\ a \in Nat /\ b \in Nat
      BY <3>1, <3>2, <3>3, <3>4
    <3> QED BY <3>4, <3>5
  <2>4. SumFunction(Repeats) \in Nat
    <3>1. Repeats \in [Requests -> Nat] /\ IsFiniteSet(Requests)
      BY RequestAssumption DEF Repeats, Most, MetricsInv, CallInv, TypeOK
    <3> HIDE DEF Repeats
    <3> QED BY <3>1, SumOf
  <2>5. InDelay = {} => metrics["retries"] = SumFunction(Repeats) + Cardinality(Pending)
    <3>1. Cardinality(Waiting) \in Nat /\ Cardinality(Resumed) \in Nat
      BY <2>1, FS_CardinalityType
    <3> QED BY <2>3, <2>4, <3>1 DEF MetricsInv, Sums
  <2> QED BY <2>2, <2>5, Zenon DEF MetricsInv, Sums, ArrivedInv, MetricsExact, Bytes, Repeats
<1>2. Spec => []MetricsInv
  BY CountInit, CountNext, PTL DEF Spec
<1>3. Spec => []ArrivedInv
  BY ArrivedInit, ArrivedNext, CallInvariant, PTL DEF Spec
<1> QED BY <1>1, <1>2, <1>3, PTL
================================================================================
