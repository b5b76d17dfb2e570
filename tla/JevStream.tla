------------------------------- MODULE JevStream -------------------------------
(***************************************************************************)
(* One jev_stream (src/jev_stream.hpp) in detail: rows with several        *)
(* questions, cut into packs that are answered in any order; rows that are *)
(* NULL or repeat an earlier one; the bounds on rows, retained input,      *)
(* submitted jobs and buffered answers; output a vector at a time.         *)
(*                                                                         *)
(* JevQuery composes streams with other evaluators of a query.  Here the   *)
(* flights of other evaluators are left out: a row owns its flight, or     *)
(* follows an earlier row of this stream.  A row is its place in the       *)
(* input.  The network, a row that is not valid, the budgets of the query  *)
(* and its cancellation are failures that may happen where the code looks. *)
(***************************************************************************)
EXTENDS Integers, FiniteSets, SequencesExt

CONSTANTS
  Keys, Null, Models,
  Input,          \* the canonical key of each input row, or Null
  Ends,           \* where the chunks of the input end
  Questions,      \* by key: how many questions
  KeyBytes,       \* by key or Null: what a row retains
  WireBytes,      \* by key: an encoded question
  AnswerBytes,    \* sizes an answer may have
  BatchSize, PackBytes,       \* jev_batch_size, jev_max_request_bytes
  Concurrency, VectorSize,
  MaxRows, MaxRetained, MaxResult,   \* 8192, 16 MiB, 32 MiB
  SizeMax,        \* 2^64 - 1
  MaxFaults       \* bounds the model, not the code

Rows == DOMAIN Input

ASSUME StreamAssumption ==
  /\ Null \notin Keys /\ Null \notin Models
  /\ Input \in Seq(Keys \cup {Null})
  /\ Questions \in [Keys -> Nat \ {0}]
  /\ KeyBytes \in [Keys \cup {Null} -> 0 .. MaxRetained]   \* a larger row throws,
  /\ WireBytes \in [Keys -> 0 .. PackBytes]               \* and a larger question
  /\ {BatchSize, Concurrency, VectorSize, MaxRows} \subseteq Nat \ {0}
  /\ {PackBytes, MaxRetained, MaxResult, SizeMax, MaxFaults} \subseteq Nat
  /\ MaxResult <= SizeMax
  /\ AnswerBytes \subseteq Nat
  /\ Ends \in Seq(0 .. Len(Input)) /\ Last(Ends) = Len(Input)

VARIABLES
  phase,
  chunk,         \* the chunk of the input
  offset,        \* rows taken from the input
  rows,          \* StreamState::rows
  asked,         \* questions of the last row put in a pack
  pack,          \* StreamPack::refs: <<row, question>>
  jobs,          \* submitted packs, [refs, state, next, model]
  flight,        \* the row whose flight a row holds (itself if it owns it)
  answers,       \* by row: the questions answered
  model,         \* by row: StreamRow::model, or Null
  rowBytes,      \* by row: StreamRow::result_bytes
  ready,         \* rows whose flight is complete
  retained, resultBytes,
  stopped, error,
  count,         \* rows in the output vector
  out,           \* what has been returned
  hits,          \* what this stream added to metrics.cache_hits
  faults

rowVars  == <<flight, answers, model, rowBytes, ready>>
flags    == <<stopped, error>>
inVars   == <<chunk, offset, rows, asked, flight, retained, hits>>
jobVars  == <<pack, jobs>>
ansVars  == <<answers, model, rowBytes, ready, resultBytes>>
outVars  == <<count, out>>
streamVars == <<phase, inVars, jobVars, ansVars, flags, outVars, faults>>

Key(r)   == Input[r]
Owns(r)  == Key(r) # Null /\ flight[r] = r
SizeT(n) == n % (SizeMax + 1)
Fault    == faults < MaxFaults /\ faults' = faults + 1

(* Check throws when a job has failed; it waits for a job that holds the mutex. *)
Locked == \E j \in DOMAIN jobs : jobs[j].state = "completing"
Check  == ~Locked /\ ~error

-----------------------------------------------------------------------------
(* Add *)

(* mutant: the bound is looked at without the row to come *)
RoomBefore(r) == rows = <<>> \/ retained <= MaxRetained

Room(r) == rows = <<>> \/ retained + KeyBytes[Key(r)] <= MaxRetained

(* Acquire: a flight of an earlier row, or one of its own. *)
Add ==
  LET r == offset + 1
  IN  /\ phase = "input" /\ offset < Ends[chunk]
      /\ Len(rows) < MaxRows /\ Room(r)
      /\ Check
      /\ rows' = Append(rows, r)
      /\ retained' = retained + KeyBytes[Key(r)]
      /\ offset' = r
      /\ \/ /\ Key(r) = Null
            /\ hits' = hits + 1
            /\ UNCHANGED <<phase, flight, asked>>
         \/ /\ \E f \in 1 .. offset : Owns(f) /\ Key(f) = Key(r) /\ flight' = [flight EXCEPT ![r] = f]
            /\ hits' = hits + 1
            /\ UNCHANGED <<phase, asked>>
         \/ /\ Key(r) # Null
            /\ flight' = [flight EXCEPT ![r] = r]
            /\ phase' = "ask" /\ asked' = 0
            /\ UNCHANGED hits
      /\ UNCHANGED <<chunk, jobVars, ansVars, flags, outVars, faults>>

(* The next question of the row fits behind those of the pack. *)
Fits(r) ==
  Len(pack) < BatchSize /\ WireBytes[Key(r)] + FoldLeft(LAMBDA n, q : n + WireBytes[Key(q[1])], 0, pack) <= PackBytes

Ask ==
  LET r == Last(rows)
  IN  /\ phase = "ask" /\ asked < Questions[Key(r)]
      /\ Check
      /\ IF pack = <<>> \/ Fits(r)
           THEN /\ pack' = Append(pack, <<r, asked + 1>>)
                /\ asked' = asked + 1
                /\ phase' = IF Len(pack') = BatchSize THEN "flushask" ELSE "ask"
           ELSE phase' = "flushask" /\ UNCHANGED <<pack, asked>>
      /\ UNCHANGED <<chunk, offset, rows, flight, retained, hits, jobs, ansVars, flags, outVars, faults>>

AskedAll ==
  /\ phase = "ask" /\ asked = Questions[Key(Last(rows))]
  /\ phase' = "input"
  /\ UNCHANGED <<inVars, jobVars, ansVars, flags, outVars, faults>>

(***************************************************************************)
(* StreamInput and StreamFinal: a stream that is full, or whose input is   *)
(* over, flushes and waits; at the end of a chunk it only takes what is    *)
(* ready.                                                                  *)
(***************************************************************************)
Turn ==
  /\ phase = "input"
  /\ IF offset = Ends[chunk] THEN phase' = "drain"
     ELSE /\ Len(rows) >= MaxRows \/ ~Room(offset + 1)
          /\ phase' = "flushemit"
  /\ UNCHANGED <<inVars, jobVars, ansVars, flags, outVars, faults>>

Reaped ==
  LET done == { n \in DOMAIN jobs : \A i \in 1 .. n : jobs[i].state = "done" }
  IN  SubSeq(jobs, Cardinality(done) + 1, Len(jobs))

Window == Len(Reaped) < 2 * Concurrency

(* mutant: the pack is submitted and kept *)
PackKept == pack

EmptyPack == <<>>

Flush ==
  /\ phase \in {"flushask", "flushemit"}
  /\ phase' = IF phase = "flushask" THEN "ask" ELSE "emit"
  /\ IF pack = <<>>
       THEN UNCHANGED jobVars
       ELSE /\ Check /\ Window
            /\ jobs' = Append(Reaped, [refs |-> pack, state |-> "queued", next |-> 1, model |-> Null])
            /\ pack' = EmptyPack
  /\ UNCHANGED <<inVars, ansVars, flags, outVars, faults>>

(* A row leaves with what its flight carries. *)
Result(r) ==
  IF Key(r) = Null THEN Null
  ELSE [key |-> Key(flight[r]), answers |-> answers[flight[r]], model |-> model[flight[r]]]

(* mutant: a row is taken when its model is known *)
FirstAnswer(r) == Key(r) = Null \/ model[flight[r]] # Null

Ready(r) == Key(r) = Null \/ flight[r] \in ready

VectorRoom == count < VectorSize

EmitRow ==
  LET r == Head(rows)
  IN  /\ phase \in {"emit", "drain"}
      /\ rows # <<>> /\ VectorRoom
      /\ Check /\ Ready(r)
      /\ out' = Append(out, Result(r))
      /\ count' = count + 1
      /\ rows' = Tail(rows)
      /\ retained' = retained - KeyBytes[Key(r)]
      /\ resultBytes' = SizeT(resultBytes - rowBytes[r])
      /\ UNCHANGED <<phase, chunk, offset, asked, flight, hits, jobVars, answers, model, rowBytes,
                     ready, flags, faults>>

(* The wait for the first row looks at the stream every 20 ms. *)
EmitPoll ==
  /\ phase = "emit" /\ rows # <<>> /\ VectorRoom
  /\ Check /\ ~Ready(Head(rows))
  /\ UNCHANGED streamVars

EmitEnd ==
  /\ \/ phase \in {"emit", "drain"} /\ (rows = <<>> \/ ~VectorRoom)
     \/ phase = "drain" /\ rows # <<>> /\ ~Ready(Head(rows))
  /\ Check
  /\ jobs' = Reaped
  /\ count' = 0
  /\ phase' = "return"
  /\ chunk' = IF phase = "drain" THEN chunk + 1 ELSE chunk
  /\ UNCHANGED <<offset, rows, asked, flight, retained, hits, pack, ansVars, flags, out, faults>>

(* The executor calls again, until the stream has FINISHED. *)
Resume ==
  /\ phase = "return"
  /\ chunk <= Len(Ends) \/ rows # <<>>
  /\ phase' = IF chunk <= Len(Ends) THEN "input" ELSE "flushemit"
  /\ UNCHANGED <<inVars, jobVars, ansVars, flags, outVars, faults>>

(* The end: everything is returned, a LIMIT is reached, or a call throws.  *)
Throws ==
  /\ phase \in {"input", "ask", "flushask", "flushemit", "emit", "drain"}
  /\ (error /\ ~Locked /\ UNCHANGED faults) \/ Fault

Close ==
  /\ (phase = "return" /\ UNCHANGED faults) \/ Throws
  /\ phase' = "closing"
  /\ stopped' = TRUE
  /\ UNCHANGED <<inVars, jobVars, ansVars, error, outVars>>

(* ~StreamState joins the jobs and drops the rows. *)
Closed ==
  /\ phase = "closing"
  /\ \A j \in DOMAIN jobs : jobs[j].state = "done"
  /\ phase' = "closed"
  /\ rows' = <<>> /\ pack' = <<>>
  /\ UNCHANGED <<chunk, offset, asked, flight, retained, hits, jobs, ansVars, flags, outVars, faults>>

-----------------------------------------------------------------------------
(* The jobs, run by the pool's workers *)

SetJob(j, job) == jobs' = [jobs EXCEPT ![j] = job]
JobIs(j, state) == [jobs[j] EXCEPT !.state = state]

(* A job is skipped when the stream has stopped; else Request is answered. *)
JobStart(j) ==
  /\ jobs[j].state = "queued"
  /\ SetJob(j, JobIs(j, IF stopped THEN "done" ELSE "calling"))
  /\ UNCHANGED <<phase, inVars, pack, ansVars, flags, outVars, faults>>

JobAnswered(j, m) ==
  /\ jobs[j].state = "calling" /\ ~Locked
  /\ SetJob(j, [jobs[j] EXCEPT !.state = "completing", !.model = m])
  /\ UNCHANGED <<phase, inVars, pack, ansVars, flags, outVars, faults>>

(* mutant: the flight is completed with the last answer of a pack *)
PackAnswered(r, j) == jobs[j].next = Len(jobs[j].refs)

RowAnswered(r, j) == answers'[r] = 1 .. Questions[Key(r)]

(* The answer to the next question of the pack, under the stream's mutex. *)
JobAnswer(j, bytes) ==
  LET job == jobs[j]
      r   == job.refs[job.next][1]
  IN  /\ job.state = "completing"
      /\ bytes <= SizeT(MaxResult - resultBytes)
      /\ resultBytes' = SizeT(resultBytes + bytes)
      /\ rowBytes' = [rowBytes EXCEPT ![r] = @ + bytes]
      /\ answers' = [answers EXCEPT ![r] = @ \cup {job.refs[job.next][2]}]
      /\ IF model[r] \notin {Null, job.model}
           THEN SetJob(j, JobIs(j, "failing")) /\ stopped' = TRUE /\ UNCHANGED <<model, ready>>
           ELSE /\ model' = [model EXCEPT ![r] = job.model]
                /\ ready' = IF RowAnswered(r, j) THEN ready \cup {r} ELSE ready
                /\ SetJob(j, IF job.next = Len(job.refs) THEN JobIs(j, "done")
                             ELSE [job EXCEPT !.next = @ + 1])
                /\ UNCHANGED stopped
      /\ UNCHANGED <<phase, inVars, pack, error, outVars, faults>>

(* The call or an answer is bad, or the answer is too much to buffer: first *)
(* the stop flag is set, then the error, under the mutex.                   *)
JobFails(j) ==
  /\ \/ jobs[j].state = "calling" /\ ((stopped /\ UNCHANGED faults) \/ Fault)
     \/ jobs[j].state = "completing" /\ Fault
     \/ /\ jobs[j].state = "completing" /\ UNCHANGED faults
        /\ \E bytes \in AnswerBytes : bytes > SizeT(MaxResult - resultBytes)
  /\ SetJob(j, JobIs(j, "failing"))
  /\ stopped' = TRUE
  /\ UNCHANGED <<phase, inVars, pack, ansVars, error, outVars>>

JobError(j) ==
  /\ jobs[j].state = "failing" /\ ~Locked
  /\ SetJob(j, JobIs(j, "done"))
  /\ error' = TRUE
  /\ UNCHANGED <<phase, inVars, pack, ansVars, stopped, outVars, faults>>

Over == phase = "closed" /\ UNCHANGED streamVars

-----------------------------------------------------------------------------
Init ==
  /\ phase = "return" /\ chunk = 1 /\ offset = 0 /\ rows = <<>> /\ asked = 0
  /\ pack = <<>> /\ jobs = <<>>
  /\ flight = [r \in Rows |-> 0]
  /\ answers = [r \in Rows |-> {}] /\ model = [r \in Rows |-> Null]
  /\ rowBytes = [r \in Rows |-> 0] /\ ready = {}
  /\ retained = 0 /\ resultBytes = 0
  /\ stopped = FALSE /\ error = FALSE
  /\ count = 0 /\ out = <<>> /\ hits = 0 /\ faults = 0

Thread == Add \/ Ask \/ AskedAll \/ Turn \/ Flush
          \/ EmitRow \/ EmitPoll \/ EmitEnd \/ Resume \/ Closed

Job(j) == \/ JobStart(j) \/ JobFails(j) \/ JobError(j)
          \/ \E m \in Models : JobAnswered(j, m)
          \/ \E bytes \in AnswerBytes : JobAnswer(j, bytes)

Next == Thread \/ Close \/ (\E j \in DOMAIN jobs : Job(j)) \/ Over

Spec == Init /\ [][Next]_streamVars

(* The executor runs the operator and the pool its jobs, which end by the  *)
(* timeout; an error that was set is seen.                                 *)
FairSpec ==
  /\ Spec
  /\ WF_streamVars(Thread) /\ WF_streamVars(error /\ Close)
  /\ WF_streamVars(\E j \in DOMAIN jobs : Job(j))

-----------------------------------------------------------------------------
(* Properties *)

Phases == {"input", "ask", "flushask", "flushemit", "emit", "drain", "return", "closing", "closed"}
JobStates == {"queued", "calling", "completing", "failing", "done"}

(* Type invariant. *)
TypeOK ==
  /\ phase \in Phases
  /\ chunk \in 1 .. Len(Ends) + 1 /\ offset \in 0 .. Len(Input) /\ asked \in Nat /\ count \in 0 .. VectorSize
  /\ rows \in Seq(Rows) /\ pack \in Seq(Rows \X Nat)
  /\ jobs \in Seq([refs : Seq(Rows \X Nat), state : JobStates, next : Nat, model : Models \cup {Null}])
  /\ flight \in [Rows -> Nat]
  /\ answers \in [Rows -> SUBSET Nat] /\ model \in [Rows -> Models \cup {Null}]
  /\ rowBytes \in [Rows -> Nat] /\ ready \subseteq Rows
  /\ out \in Seq({Null} \cup [key : Keys, answers : SUBSET Nat, model : Models \cup {Null}])
  /\ retained \in Int /\ resultBytes \in 0 .. SizeMax
  /\ stopped \in BOOLEAN /\ error \in BOOLEAN /\ hits \in Nat /\ faults \in 0 .. MaxFaults

(***************************************************************************)
(* The reader gets each row in its place, with every answer to its own     *)
(* questions and from one model, however packs are cut and answered and    *)
(* whichever row asked (Emit, jev_stream.hpp:222-260).                     *)
(***************************************************************************)
Reader == INSTANCE Judged

ImplementsJudged == Reader!Spec

(***************************************************************************)
(* No question is lost or asked twice (Add and Flush,                      *)
(* jev_stream.hpp:80-98, 187-219): unless a job failed or the stream is    *)
(* over, each question of an owner that was asked for is in exactly one    *)
(* place: the open pack, one job that has yet to apply it, or the answers. *)
(***************************************************************************)
ToApply == [j \in DOMAIN jobs |-> IF jobs[j].state = "done" THEN <<>>
                                  ELSE SubSeq(jobs[j].refs, jobs[j].next, Len(jobs[j].refs))]
Places(q) == Cardinality({ i \in DOMAIN pack : pack[i] = q })
             + Cardinality({ p \in (DOMAIN jobs) \X (1 .. BatchSize) :
                               p[2] \in DOMAIN ToApply[p[1]] /\ ToApply[p[1]][p[2]] = q })
             + (IF q[2] \in answers[q[1]] THEN 1 ELSE 0)
AskedOf(r) == IF phase \in {"ask", "flushask"} /\ r = Last(rows) THEN 1 .. asked
              ELSE 1 .. Questions[Key(r)]
EachQuestionOnce ==
  stopped \/ \A r \in 1 .. offset : Owns(r) => \A q \in AskedOf(r) : Places(<<r, q>>) = 1

(***************************************************************************)
(* The budgets (jev_stream.hpp:86-90, 121-124, 171-175, 250-254): what is  *)
(* retained and buffered is the sum over the rows that have not left, the  *)
(* subtraction never wraps, the bounds hold, and no more requests are out  *)
(* than twice the concurrency.                                             *)
(***************************************************************************)
InRows == ToSet(rows)
BudgetsExact ==
  phase # "closed" =>
    /\ retained = SumFunction([r \in InRows |-> KeyBytes[Key(r)]])
    /\ retained <= MaxRetained
    /\ resultBytes = SumFunction([r \in InRows |-> rowBytes[r]])
    /\ resultBytes <= MaxResult
    /\ Len(rows) <= MaxRows
    /\ Cardinality({ j \in DOMAIN jobs : jobs[j].state # "done" }) <= 2 * Concurrency

(* Without a failure or a LIMIT every row is returned: no row waits for a  *)
(* question that is never sent (jev_stream.hpp:84-85, 223-226).            *)
EverythingReturned == <>(stopped \/ Len(out) = Len(Input))
================================================================================
