-------------------------------- MODULE Request --------------------------------
(***************************************************************************)
(* Request of src/jev_extension.cpp and the callbacks curl makes during a  *)
(* transfer (Write, Header, Progress): the attempts of one logical         *)
(* request, the delay between them, its cancellation and the counters it   *)
(* leaves for jev_stats.  Several requests of one query run at a time and  *)
(* share the cancellation and the process's metrics.                       *)
(*                                                                         *)
(* A thread's work between two places where it waits (for curl, for a      *)
(* delay) is one action: it touches its own transfer and adds to atomic    *)
(* counters.  Times are in small units: Second for 1000 ms, PollEvery for  *)
(* the 20 ms poll, and IntMax for 2^63 - 1.                                *)
(***************************************************************************)
EXTENDS Integers, FiniteSets, FiniteSetsExt

CONSTANTS
  Requests,
  Questions,       \* the questions in a request
  Payload,         \* the bytes of a request
  Retries,         \* jev_max_retries
  Base, Cap,       \* jev_retry_base_ms, jev_retry_max_delay_ms
  Second, HeaderMax, IntMax, PollEvery,
  Headers,         \* the seconds a Retry-After may name, in digits or by a date;
                   \* negative: a date gone by, or a value that cannot be read
  Statuses,        \* HTTP statuses it may answer with
  BodyMax,         \* 8 MiB
  Chunks,          \* sizes of the pieces of a body
  Tokens           \* usage it may report

OK       == "OK"
Aborted  == "ABORTED_BY_CALLBACK"
WriteErr == "WRITE_ERROR"
Lost     == "RECV_ERROR"     \* one of the transport errors Retryable names
Refused  == "SSL_ERROR"      \* one of those it does not
Absent   == -1

ASSUME RequestAssumption ==
  /\ IsFiniteSet(Requests)
  /\ Questions \in [Requests -> Nat] /\ Payload \in [Requests -> Nat]
  /\ {Retries, BodyMax, Cap, HeaderMax, IntMax} \subseteq Nat
  /\ {Base, Second, PollEvery} \subseteq Nat \ {0}
  /\ Base <= Cap /\ Cap <= HeaderMax
  /\ Headers \subseteq Int
  /\ 200 \in Statuses /\ Statuses \subseteq Nat
  /\ Chunks \subseteq Nat /\ Tokens \subseteq Nat

(* The shift in the backoff; the width of int64_t is not reached by it. *)
ASSUME ShiftAssumption ==
  \A n \in 0 .. Retries : 2 ^ n \in Nat /\ Base * 2 ^ n \in 1 .. IntMax

VARIABLES
  phase,        \* where each request is
  attempt,      \* the loop variable
  body,         \* bytes received in this attempt
  retryAfter,   \* Transfer::retry_after_ms
  left,         \* what remains of the delay
  elapsed,      \* time since the request started
  cancelled,    \* ContextInterrupted or the evaluation's stop flag
  metrics,
  doomed,       \* curl: this transfer began after the cancellation
  heard,        \* history: the Retry-After headers of this attempt
  sent, late,   \* history: attempts, and those begun after the cancellation
  delivered     \* history: the bytes that arrived, of all requests

transfer == <<body, retryAfter, doomed, heard>>
history  == <<sent, late, delivered>>
requestVars == <<phase, attempt, transfer, left, elapsed, cancelled, metrics, history>>

Counters == {"requests", "questions", "retries", "errors", "request_bytes",
             "response_bytes", "tokens"}
Ended    == {"answered", "failed", "refused"}

Least(a, b) == IF a <= b THEN a ELSE b
Most(a, b)  == IF a <= b THEN b ELSE a
Go(r, p)    == phase' = [phase EXCEPT ![r] = p]
(* metrics with n added to each counter that by names. *)
Plus(by) == [m \in Counters |-> IF m \in DOMAIN by THEN metrics[m] + by[m] ELSE metrics[m]]

(***************************************************************************)
(* Header: a later Retry-After of the same response replaces an earlier    *)
(* one, unless it cannot be read.  The product wraps at 64 bits.           *)
(***************************************************************************)
Int64(x) == ((x + IntMax + 1) % (2 * (IntMax + 1))) - (IntMax + 1)

DelayAsked(h, old) ==
  IF h < 0 THEN old ELSE Least(Int64(h * Second), HeaderMax)

Header(r, h) ==
  /\ phase[r] = "transfer"
  /\ retryAfter' = [retryAfter EXCEPT ![r] = DelayAsked(h, @)]
  /\ heard' = [heard EXCEPT ![r] = @ \cup {h}]
  /\ UNCHANGED <<phase, attempt, body, doomed, left, elapsed, cancelled, metrics, history>>

(* Write: what would not fit is refused, and the transfer fails (Finish). *)
Write(r, n) ==
  /\ phase[r] = "transfer"
  /\ body[r] + n <= BodyMax
  /\ body' = [body EXCEPT ![r] = @ + n]
  /\ delivered' = delivered + n
  /\ UNCHANGED <<phase, attempt, retryAfter, doomed, heard, left, elapsed, cancelled, metrics, sent, late>>

(***************************************************************************)
(* The request.  Enter is the end of the Gate's constructor (HttpPool) and *)
(* the counters before the loop.                                           *)
(***************************************************************************)
Enter(r) ==
  /\ phase[r] = "gate"
  /\ IF cancelled
       THEN Go(r, "refused") /\ UNCHANGED metrics
       ELSE /\ Go(r, "ready")
            /\ metrics' = Plus([requests |-> 1, questions |-> Questions[r]])
  /\ UNCHANGED <<attempt, transfer, left, elapsed, cancelled, history>>

(* mutant: an attempt keeps the Retry-After of the one before *)
ForgetNot(r) == retryAfter[r]

Forget(r) == Absent

Send(r) ==
  /\ phase[r] = "ready"
  /\ Go(r, "transfer")
  /\ body' = [body EXCEPT ![r] = 0]
  /\ retryAfter' = [retryAfter EXCEPT ![r] = Forget(r)]
  /\ heard' = [heard EXCEPT ![r] = {}]
  /\ doomed' = [doomed EXCEPT ![r] = cancelled]
  /\ metrics' = Plus([request_bytes |-> Payload[r]])
  /\ sent' = [sent EXCEPT ![r] = @ + 1]
  /\ late' = [late EXCEPT ![r] = IF cancelled THEN @ + 1 ELSE @]
  /\ UNCHANGED <<attempt, left, elapsed, cancelled, delivered>>

Retryable(code, status) ==
  \/ code = OK /\ (status = 429 \/ status \in 500 .. 599)
  \/ code = Lost

(* What curl_easy_perform may return now.  Curl calls Progress after it has *)
(* received something and before it reports success, so a transfer begun    *)
(* after the cancellation is aborted, unless it fails on its own before     *)
(* anything arrived.                                                        *)
Outcome(r, code, status) ==
  /\ code = Aborted => cancelled
  /\ code = WriteErr => \E n \in Chunks : body[r] + n > BodyMax
  /\ code = OK <=> status \in Statuses
  /\ code # OK => status = 0
  /\ doomed[r] /\ code # Aborted =>
       code \in {Lost, Refused} /\ heard[r] = {} /\ body[r] = 0

Backoff(r) == Least(Base * 2 ^ attempt[r], Cap)

Delay(r, jitter) ==
  Least(IF retryAfter[r] >= 0 THEN retryAfter[r] ELSE Backoff(r) + jitter, Cap)

Jitters(r) == 0 .. Most(1, Backoff(r) \div 4) - 1

Spent(r) == elapsed[r] + 1

(* 200: the body is parsed, and its usage counted. *)
Succeed(r, code, status) ==
  /\ code = OK /\ status = 200
  /\ \/ /\ Go(r, "answered")
        /\ \E n \in Tokens :
             metrics' = Plus([response_bytes |-> body[r], tokens |-> n])
     \/ /\ Go(r, "failed")
        /\ metrics' = Plus([response_bytes |-> body[r], errors |-> 1])
  /\ UNCHANGED <<attempt, left>>

LastAttempt(r) == attempt[r] >= Retries

GiveUp(r, code, status) ==
  /\ ~(code = OK /\ status = 200)
  /\ LastAttempt(r) \/ ~Retryable(code, status)
  /\ Go(r, "failed")
  /\ metrics' = Plus([response_bytes |-> body[r], errors |-> 1])
  /\ UNCHANGED <<attempt, left>>

(* mutant: an error is counted for every attempt that fails *)
RetryError(r) == [response_bytes |-> body[r], retries |-> 1, errors |-> 1]

RetryCount(r) == [response_bytes |-> body[r], retries |-> 1]

Retry(r, code, status) ==
  /\ ~(code = OK /\ status = 200)
  /\ ~LastAttempt(r) /\ Retryable(code, status)
  /\ Go(r, "wait")
  /\ metrics' = Plus(RetryCount(r))
  /\ \E j \in Jitters(r) : left' = [left EXCEPT ![r] = Delay(r, j)]
  /\ UNCHANGED attempt

Finish(r, code, status) ==
  /\ phase[r] = "transfer"
  /\ Outcome(r, code, status)
  /\ Succeed(r, code, status) \/ GiveUp(r, code, status) \/ Retry(r, code, status)
  /\ elapsed' = [elapsed EXCEPT ![r] = Spent(r)]
  /\ UNCHANGED <<transfer, cancelled, history>>

(* RetryWait: a look at the cancellation, then a sleep.  A positive delay   *)
(* has one look at least: the deadline is not over when it has just been    *)
(* set (:617), a millisecond away or more.                                  *)
(* mutant: the delay is slept through *)
NeverStopped == FALSE

Stopped == cancelled

Poll(r) ==
  /\ phase[r] = "wait" /\ left[r] > 0 /\ ~Stopped
  /\ left' = [left EXCEPT ![r] = Most(0, @ - PollEvery)]
  /\ elapsed' = [elapsed EXCEPT ![r] = @ + 1]
  /\ UNCHANGED <<phase, attempt, transfer, cancelled, metrics, history>>

(* mutant: the cancellation is waited on instead of thrown *)
KeepWaiting(r) == phase[r] = "wait" /\ left[r] > 0 /\ Stopped /\ UNCHANGED requestVars

CutShort(r) ==
  /\ phase[r] = "wait" /\ left[r] > 0 /\ Stopped
  /\ Go(r, "failed")
  /\ UNCHANGED <<attempt, transfer, left, elapsed, cancelled, metrics, history>>

Again(r) ==
  /\ phase[r] = "wait" /\ left[r] = 0
  /\ Go(r, "ready")
  /\ attempt' = [attempt EXCEPT ![r] = @ + 1]
  /\ UNCHANGED <<transfer, left, elapsed, cancelled, metrics, history>>

Cancel ==
  /\ ~cancelled
  /\ cancelled' = TRUE
  /\ UNCHANGED <<phase, attempt, transfer, left, elapsed, metrics, history>>

Over == (\A r \in Requests : phase[r] \in Ended) /\ UNCHANGED requestVars

-----------------------------------------------------------------------------
Init ==
  /\ phase = [r \in Requests |-> "gate"]
  /\ attempt = [r \in Requests |-> 0]
  /\ body = [r \in Requests |-> 0]
  /\ retryAfter = [r \in Requests |-> Absent]
  /\ doomed = [r \in Requests |-> FALSE]
  /\ heard = [r \in Requests |-> {}]
  /\ left = [r \in Requests |-> 0]
  /\ elapsed = [r \in Requests |-> 0]
  /\ cancelled = FALSE
  /\ metrics = [m \in Counters |-> 0]
  /\ sent = [r \in Requests |-> 0] /\ late = [r \in Requests |-> 0] /\ delivered = 0

FinishAny(r) ==
  \E code \in {OK, Aborted, WriteErr, Lost, Refused}, status \in Statuses \cup {0} :
    Finish(r, code, status)

Proceed(r) == Enter(r) \/ Send(r) \/ FinishAny(r)
              \/ Poll(r) \/ CutShort(r) \/ Again(r)

Next ==
  \/ \E r \in Requests :
       \/ Proceed(r)
       \/ \E h \in Headers : Header(r, h)
       \/ \E n \in Chunks : Write(r, n)
  \/ Cancel
  \/ Over

Spec == Init /\ [][Next]_requestVars

-----------------------------------------------------------------------------
(* Properties *)

Phases == {"gate", "ready", "transfer", "wait"} \cup Ended

(* Type invariant; a delay never exceeds jev_retry_max_delay_ms, whatever  *)
(* the provider sent and whatever overflowed.                              *)
TypeOK ==
  /\ phase \in [Requests -> Phases]
  /\ attempt \in [Requests -> 0 .. Retries]
  /\ body \in [Requests -> 0 .. BodyMax]
  /\ retryAfter \in [Requests -> Int]
  /\ doomed \in [Requests -> BOOLEAN]
  /\ heard \in [Requests -> SUBSET Headers]
  /\ left \in [Requests -> 0 .. Cap]
  /\ elapsed \in [Requests -> Nat]
  /\ cancelled \in BOOLEAN
  /\ metrics \in [Counters -> Nat]
  /\ sent \in [Requests -> Nat] /\ late \in [Requests -> Nat] /\ delivered \in Nat

(***************************************************************************)
(* The delay after an attempt is the one this attempt asks for             *)
(* (jev_extension.cpp:668, 687-696): if it brought a Retry-After header    *)
(* that asks for a time, the time of one of them; and only if it did not,  *)
(* its own backoff with a jitter of less than a quarter.  It is not that   *)
(* of an earlier attempt, and at most the configured maximum.              *)
(***************************************************************************)
Asking(r) == { h \in heard[r] : DelayAsked(h, Absent) >= 0 }
OwnDelay(r, d) ==
  \/ \E h \in Asking(r) : d = Least(DelayAsked(h, Absent), Cap)
  \/ /\ Asking(r) = {} \/ \E h \in heard[r] : h >= 0 /\ DelayAsked(h, Absent) < 0
     /\ \E j \in Jitters(r) : d = Least(Backoff(r) + j, Cap)

DelayOfThisAttempt ==
  [][\A r \in Requests :
       phase[r] = "transfer" /\ phase'[r] = "wait" => OwnDelay(r, left'[r])]_requestVars

(***************************************************************************)
(* What jev_stats adds up (jev_extension.cpp:654-716): the bytes of every  *)
(* attempt, those it sent and those that arrived, until it ends at least;  *)
(* one error for every request that failed after it was sent, except those *)
(* cancelled in a delay; and for `retries', the HTTP attempts made beyond  *)
(* the first (README.md:189) and those announced and yet to be made.  This *)
(* last is not claimed once a delay was cut short: the code counts before  *)
(* it waits (:685, 697), and the attempt it announced is never made.       *)
(* Latencies are RecordLatency's.                                          *)
(***************************************************************************)
Started  == { r \in Requests : phase[r] \notin {"gate", "refused"} }
Failed   == { r \in Requests : phase[r] = "failed" }
InDelay  == { r \in Failed : left[r] > 0 }
Pending  == { r \in Requests : phase[r] = "wait" \/ (phase[r] = "ready" /\ sent[r] > 0) }
Arriving == [r \in Requests |-> IF phase[r] = "transfer" THEN body[r] ELSE 0]
MetricsExact ==
  /\ metrics["requests"] = Cardinality(Started)
  /\ metrics["request_bytes"] = SumFunction([r \in Requests |-> sent[r] * Payload[r]])
  /\ metrics["response_bytes"] + SumFunction(Arriving) = delivered
  /\ InDelay = {} =>
       metrics["retries"] = SumFunction([r \in Requests |-> Most(0, sent[r] - 1)]) + Cardinality(Pending)
  /\ metrics["errors"] = Cardinality(Failed \ InDelay)

(* Request keeps the promise of LogicalCall.                               *)
Result == [r \in Requests |->
             CASE phase[r] = "answered" -> "answered"
               [] phase[r] \in {"failed", "refused"} -> "failed"
               [] OTHER -> "none"]

Promise == INSTANCE LogicalCall WITH result <- Result, MaxAttempts <- Retries + 1

(***************************************************************************)
(* A logical request makes at most 1 + jev_max_retries attempts, is final  *)
(* once it has ended, fails unsent only when cancelled, and starts at most *)
(* one attempt after the cancellation (Gate, Progress and RetryWait look   *)
(* for it at different times).                                             *)
(***************************************************************************)
ImplementsLogicalCall == Promise!Spec
================================================================================
