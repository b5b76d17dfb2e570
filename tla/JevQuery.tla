------------------------------- MODULE JevQuery -------------------------------
(***************************************************************************)
(* The evaluators of one query, composed with its QueryState: the scalar   *)
(* functions (Evaluate, src/jev_extension.cpp), which finish a chunk before *)
(* they return, and jev_stream (src/jev_stream.hpp), which carries rows,   *)
(* jobs and a partly filled pack from one call to the next.                *)
(*                                                                         *)
(* A thread is a DuckDB pipeline: it makes a sequence of calls on scalar   *)
(* functions and on at most one jev_stream.  Jobs are run by the workers   *)
(* of HttpPool.  Every change of QueryState is an action of QueryState.    *)
(* A row has one question; a row that appears twice in a scalar chunk is   *)
(* evaluated once, so the rows of a scalar call have distinct keys.        *)
(***************************************************************************)
EXTENDS QueryState, SequencesExt

CONSTANTS
  Threads,
  Calls,        \* Calls[t]: the calls t makes, [op, rows]
  RowKey,       \* the canonical key of a row (rows are claims)
  BatchSize,    \* jev_batch_size
  Concurrency,  \* jev_concurrency
  MaxRows,      \* rows a stream retains (8192 rows, 16 MiB)
  VectorSize,   \* STANDARD_VECTOR_SIZE
  MaxFaults     \* how many requests fail: bounds the model, not the code

Ops   == {"eval", "input", "final"}
Slots == Threads \X {"eval", "stream"}

ASSUME JevAssumption ==
  /\ Calls \in [Threads -> Seq([op : Ops, rows : Seq(Claims)])]
  /\ RowKey \in [Claims -> Keys]
  /\ {BatchSize, Concurrency, MaxRows, VectorSize} \subseteq Nat \ {0}
  /\ MaxFaults \in Nat

VARIABLES
  call,         \* the call each thread is in (0: none yet)
  phase, pos,   \* where in it, and at which row
  count,        \* rows in the output vector
  rows,         \* by slot: the rows of the chunk; the rows a stream has not emitted
  pack,         \* by slot: the partly filled request of a stream; the owned rows of a chunk
  jobs,         \* by slot: the submitted packs, [refs, state, next]
  stopped, error,
  owners,       \* rows whose Acquire returned a Flight to own
  answered,     \* rows the provider has answered
  interrupted,  \* ClientContext::interrupted
  faults        \* failed requests so far

control  == <<call, phase, pos, count>>
flags    == <<stopped, error>>
jobVars  == <<jobs, flags>>
facts    == <<owners, answered, interrupted, faults>>
evalVars == <<control, rows, pack, jobVars, facts>>
jevVars  == <<vars, evalVars>>

Cur(t)   == Calls[t][call[t]]
Slot(t)  == <<t, IF Cur(t).op = "eval" THEN "eval" ELSE "stream">>
StreamOf(t) == <<t, "stream">>
StreamRows(t) == UNION { ToSet(Calls[t][i].rows) :
                           i \in { j \in DOMAIN Calls[t] : Calls[t][j].op = "input" } }

(* The packs of a scalar chunk: its owned rows, BatchSize to a request. *)
Packs(s) ==
  LET n == Len(pack[s])
  IN  [i \in 1 .. (n + BatchSize - 1) \div BatchSize |->
         SubSeq(pack[s], (i - 1) * BatchSize + 1,
                IF i * BatchSize < n THEN i * BatchSize ELSE n)]

Go(t, p) == phase' = [phase EXCEPT ![t] = p]
NextRow(t) == pos' = [pos EXCEPT ![t] = @ + 1]
Restart(t) == pos' = [pos EXCEPT ![t] = 1]
AllDone(s) == \A i \in DOMAIN jobs[s] : jobs[s][i].state = "done"

(***************************************************************************)
(* Starting a call.  The first row that is not NULL takes the snapshot; a  *)
(* stream keeps it for all its calls.                                      *)
(***************************************************************************)
(* mutant: a blocking Emit does not flush first *)
EmitAtOnce == "emit"

BeforeEmit == "flushemit"

FirstPhase(op) == CASE op = "eval"  -> "acquire"
                    [] op = "input" -> "add"
                    [] op = "final" -> BeforeEmit

Begin(t) ==
  /\ phase[t] = "next"
  /\ call[t] < Len(Calls[t])
  /\ call' = [call EXCEPT ![t] = @ + 1]
  /\ LET c == Calls[t][call[t] + 1]
         s == <<t, "eval">>
         S == IF c.op = "eval" THEN ToSet(c.rows) ELSE StreamRows(t)
     IN  /\ Go(t, FirstPhase(c.op))
         /\ IF S # {} /\ \A r \in S : pc[r] = "idle"
              THEN Snapshot(S)
              ELSE UNCHANGED vars
         /\ IF c.op = "eval"
              THEN /\ rows' = [rows EXCEPT ![s] = <<>>]
                   /\ pack' = [pack EXCEPT ![s] = <<>>]
                   /\ jobs' = [jobs EXCEPT ![s] = <<>>]
                   /\ stopped' = [stopped EXCEPT ![s] = FALSE]
                   /\ error' = [error EXCEPT ![s] = FALSE]
              ELSE UNCHANGED <<rows, pack, jobVars>>
  /\ Restart(t)
  /\ UNCHANGED <<count, facts>>

(* Acquire for the row at pos. *)
AcquireRow(t) ==
  LET c == Cur(t).rows[pos[t]]
  IN  /\ Acquire(c, RowKey[c])
      /\ rows' = [rows EXCEPT ![Slot(t)] = Append(@, c)]
      /\ IF promise'[c] = Open
           THEN /\ owners' = owners \cup {c}
                /\ pack' = [pack EXCEPT ![Slot(t)] = Append(@, c)]
           ELSE UNCHANGED <<owners, pack>>

(***************************************************************************)
(* Evaluate.                                                               *)
(***************************************************************************)
EvalAcquire(t) ==
  /\ phase[t] = "acquire"
  /\ pos[t] <= Len(Cur(t).rows)
  /\ ~interrupted
  /\ AcquireRow(t)
  /\ NextRow(t)
  /\ UNCHANGED <<call, count, phase, jobVars, answered, interrupted, faults>>

EvalReserve(t) ==
  /\ phase[t] = "acquire"
  /\ pos[t] > Len(Cur(t).rows)
  /\ IF pack[Slot(t)] # <<>>
       THEN Reserve(ToSet(pack[Slot(t)]), Len(Packs(Slot(t))))
       ELSE UNCHANGED vars
  /\ Go(t, "submit")
  /\ Restart(t)
  /\ UNCHANGED <<call, count, rows, pack, jobVars, facts>>

NewJob(refs) == [refs |-> refs, state |-> "queued", next |-> 1]

EvalSubmit(t) ==
  /\ phase[t] = "submit"
  /\ IF pos[t] <= Len(Packs(Slot(t))) /\ ~stopped[Slot(t)]
       THEN /\ jobs' = [jobs EXCEPT ![Slot(t)] = Append(@, NewJob(Packs(Slot(t))[pos[t]]))]
            /\ NextRow(t)
            /\ UNCHANGED phase
       ELSE /\ Go(t, "join")
            /\ UNCHANGED <<jobs, pos>>
  /\ UNCHANGED <<vars, call, count, rows, pack, flags, facts>>

(* A full queue and a cancelled query: Submit throws, the jobs are joined. *)
EvalRefused(t) ==
  /\ phase[t] = "submit"
  /\ interrupted
  /\ stopped' = [stopped EXCEPT ![Slot(t)] = TRUE]
  /\ Go(t, "unwindjoin")
  /\ UNCHANGED <<vars, call, count, pos, rows, pack, jobs, error, facts>>

(* mutant: the last look at the cancellation is left out *)
EvalFailedUnlessCancelled(t) == error[Slot(t)]

EvalFailed(t) == interrupted \/ error[Slot(t)]

(* mutant: followers are awaited before the owned rows are published *)
AwaitFirst(p) == CASE p = "join" -> "await" [] p = "await" -> "publish" [] OTHER -> "next"

After(p) == CASE p = "join" -> "publish" [] p = "publish" -> "await" [] OTHER -> "next"

EvalJoin(t) ==
  /\ phase[t] = "join"
  /\ AllDone(Slot(t))
  /\ Go(t, IF EvalFailed(t) THEN "unwind" ELSE After("join"))
  /\ Restart(t)
  /\ UNCHANGED <<vars, call, count, rows, pack, jobVars, facts>>

(* Complete, a row at a time: Store, set_value, Release. *)
(* mutant: the flight is not released *)
CompleteUnreleased(c) ==
  \/ Store(c) \/ SetValue(c)
  \/ /\ pc[c] = "set" /\ pc' = [pc EXCEPT ![c] = "done"]
     /\ UNCHANGED <<stateVars, sessionVars, scopeVars, now, claimVars, ghostVars>>

CompleteStep(c) == Store(c) \/ SetValue(c) \/ (pc[c] = "set" /\ Release(c))

EvalPublish(t) ==
  /\ phase[t] = "publish"
  /\ IF pos[t] <= Len(pack[Slot(t)])
       THEN LET c == pack[Slot(t)][pos[t]]
            IN  /\ CompleteStep(c)
                /\ IF pc[c] = "set" THEN NextRow(t) ELSE UNCHANGED pos
                /\ UNCHANGED phase
       ELSE Go(t, After("publish")) /\ Restart(t) /\ UNCHANGED vars
  /\ UNCHANGED <<call, count, rows, pack, jobVars, facts>>

(* The followers, in row order.  A broken flight throws what its owner left. *)
EvalAwait(t) ==
  /\ phase[t] = "await"
  /\ IF pos[t] <= Len(rows[Slot(t)])
       THEN LET c == rows[Slot(t)][pos[t]]
            IN  /\ IF c \in owners THEN UNCHANGED vars ELSE AwaitFlight(c)
                /\ IF c \notin owners /\ promise[flight[c]] = Broken
                     THEN Go(t, "unwind")
                     ELSE UNCHANGED phase
                /\ NextRow(t)
       ELSE Go(t, After("await")) /\ Restart(t) /\ UNCHANGED vars
  /\ UNCHANGED <<call, count, rows, pack, jobVars, facts>>

(* The other ways to fail: a row that is not valid, a query cancelled, a   *)
(* budget exceeded before anything is sent.                                *)
Fault == faults < MaxFaults /\ faults' = faults + 1

EvalFails(t) ==
  /\ \/ /\ phase[t] = "acquire" /\ pos[t] <= Len(Cur(t).rows)
        /\ (interrupted /\ UNCHANGED faults) \/ Fault
     \/ /\ phase[t] = "acquire" /\ pos[t] > Len(Cur(t).rows) /\ pack[Slot(t)] # <<>>
        /\ (interrupted /\ UNCHANGED faults) \/ Fault
     \/ /\ phase[t] = "acquire" /\ pos[t] > Len(Cur(t).rows)
        /\ ~BudgetLeft(Len(pack[Slot(t)]), Len(Packs(Slot(t))))
        /\ UNCHANGED faults
     \/ /\ phase[t] = "await" /\ pos[t] <= Len(rows[Slot(t)])
        /\ interrupted
        /\ promise[flight[rows[Slot(t)][pos[t]]]] = Open
        /\ UNCHANGED faults
     \/ /\ phase[t] = "unwindjoin" /\ AllDone(Slot(t))
        /\ UNCHANGED faults
  /\ Go(t, "unwind")
  /\ UNCHANGED <<vars, call, pos, count, rows, pack, jobVars, owners, answered, interrupted>>

(***************************************************************************)
(* The end of a row: ~FlightGuard and ~StreamRow abandon what is owned and *)
(* not done.  A stream's row may live on in the task object of a worker.   *)
(***************************************************************************)
(* mutant: what was never sent is not abandoned *)
DropOnlySent(s) ==
  LET c == Head(rows[s])
  IN  /\ rows[s] # <<>>
      /\ \/ pc[c] = "sent" /\ Abandon(c) /\ UNCHANGED rows
         \/ /\ \/ pc[c] = "broken" /\ Release(c)
               \/ pc[c] = "waiting" /\ Leave(c)
               \/ pc[c] \in {"owner", "done"} /\ UNCHANGED vars
            /\ rows' = [rows EXCEPT ![s] = Tail(@)]

DropRow(s) ==
  LET c == Head(rows[s])
  IN  /\ rows[s] # <<>>
      /\ \/ pc[c] \in {"owner", "sent"} /\ Abandon(c) /\ UNCHANGED rows
         \/ /\ \/ pc[c] = "broken" /\ Release(c)
               \/ pc[c] = "waiting" /\ Leave(c)
               \/ s[2] = "stream" /\ Orphan(c)
               \/ pc[c] = "done" /\ UNCHANGED vars
            /\ rows' = [rows EXCEPT ![s] = Tail(@)]

EvalUnwind(t) ==
  /\ phase[t] = "unwind"
  /\ IF rows[Slot(t)] # <<>>
       THEN DropRow(Slot(t)) /\ UNCHANGED <<phase, interrupted>>
       ELSE (* the executor interrupts the query's other threads *)
            Go(t, "close") /\ interrupted' = TRUE /\ UNCHANGED <<vars, rows>>
  /\ UNCHANGED <<call, pos, count, pack, jobVars, owners, answered, faults>>

(***************************************************************************)
(* jev_stream.  Check throws when the query is cancelled or a job failed;  *)
(* it waits for a job that holds the stream's mutex.                       *)
(***************************************************************************)
Locked(s) == \E i \in DOMAIN jobs[s] : jobs[s][i].state = "completing"

Check(s)      == ~interrupted /\ ~Locked(s) /\ ~error[s]
CheckFails(s) == interrupted \/ (~Locked(s) /\ error[s])

(* Reap: the leading jobs whose future is ready are forgotten. *)
Reaped(s) ==
  LET ready == { n \in DOMAIN jobs[s] : \A i \in 1 .. n : jobs[s][i].state = "done" }
  IN  SubSeq(jobs[s], Cardinality(ready) + 1, Len(jobs[s]))

StreamAdd(t) ==
  /\ phase[t] = "add"
  /\ pos[t] <= Len(Cur(t).rows)
  /\ Len(rows[Slot(t)]) < MaxRows
  /\ Check(Slot(t))
  /\ AcquireRow(t)
  /\ Go(t, IF Len(pack'[Slot(t)]) = BatchSize THEN "flushadd" ELSE "add")
  /\ NextRow(t)
  /\ UNCHANGED <<call, count, jobVars, answered, interrupted, faults>>

(* The stream is full: a blocking Emit; or the chunk is consumed: a non-blocking one. *)
StreamEmit(t) ==
  /\ phase[t] = "add"
  /\ \/ /\ pos[t] <= Len(Cur(t).rows) /\ Len(rows[Slot(t)]) >= MaxRows
        /\ Go(t, BeforeEmit)
     \/ /\ pos[t] > Len(Cur(t).rows)
        /\ Go(t, "drain")
  /\ UNCHANGED <<vars, call, pos, count, rows, pack, jobVars, facts>>

AfterFlush(t) == Go(t, IF phase[t] = "flushadd" THEN "add" ELSE "emit")

StreamFlush(t) ==
  LET s == Slot(t)
  IN  /\ phase[t] \in {"flushadd", "flushemit"}
      /\ IF pack[s] = <<>>
           THEN UNCHANGED <<vars, pack, jobs>>
           ELSE /\ Check(s)
                /\ Len(Reaped(s)) < 2 * Concurrency
                /\ Reserve(ToSet(pack[s]), 1)
                /\ jobs' = [jobs EXCEPT ![s] = Append(Reaped(s), NewJob(pack[s]))]
                /\ pack' = [pack EXCEPT ![s] = <<>>]
      /\ AfterFlush(t)
      /\ UNCHANGED <<call, pos, count, rows, flags, facts>>

(* A row is emitted when its flight is ready. *)
EmitRow(t) ==
  LET s == Slot(t)
      c == Head(rows[s])
  IN  /\ phase[t] \in {"emit", "drain"}
      /\ rows[s] # <<>> /\ count[t] < VectorSize
      /\ Check(s)
      /\ promise[flight[c]] \in Answer
      /\ IF c \in owners THEN UNCHANGED vars ELSE AwaitFlight(c)
      /\ rows' = [rows EXCEPT ![s] = Tail(@)]
      /\ count' = [count EXCEPT ![t] = @ + 1]
      /\ UNCHANGED <<call, phase, pos, pack, jobVars, facts>>

EmitEnd(t) ==
  LET s == Slot(t)
  IN  /\ \/ phase[t] \in {"emit", "drain"} /\ (rows[s] = <<>> \/ count[t] = VectorSize)
         \/ phase[t] = "drain" /\ rows[s] # <<>> /\ promise[flight[Head(rows[s])]] = Open
      /\ Check(s)
      /\ jobs' = [jobs EXCEPT ![s] = Reaped(s)]
      /\ Go(t, IF phase[t] = "drain" \/ (Cur(t).op = "final" /\ rows[s] = <<>>)
                 THEN "next" ELSE "more")
      /\ count' = [count EXCEPT ![t] = 0]
      /\ UNCHANGED <<vars, call, pos, rows, pack, flags, facts>>

(* HAVE_MORE_OUTPUT: the executor calls again with the same input. *)
Resume(t) ==
  /\ phase[t] = "more"
  /\ Go(t, FirstPhase(Cur(t).op))
  /\ UNCHANGED <<vars, call, pos, count, rows, pack, jobVars, facts>>

(* The call throws: Check, a row that is not valid, the budget, a flight its *)
(* owner broke.  The executor interrupts the query's other threads.          *)
StreamFails(t) ==
  LET s     == Slot(t)
      moved == pack' = [pack EXCEPT ![s] = <<>>]
  IN  /\ \/ /\ \/ phase[t] = "add" /\ pos[t] <= Len(Cur(t).rows)
              \/ phase[t] \in {"flushadd", "flushemit", "emit", "drain"}
           /\ CheckFails(s)
           /\ UNCHANGED <<vars, pack, faults>>
         \/ /\ phase[t] = "add" /\ pos[t] <= Len(Cur(t).rows)
           /\ Fault
           /\ UNCHANGED <<vars, pack>>
         \/ /\ phase[t] \in {"flushadd", "flushemit"} /\ pack[s] # <<>>
           /\ ~BudgetLeft(Len(pack[s]), 1)
           /\ moved
           /\ UNCHANGED <<vars, faults>>
         \/ /\ phase[t] \in {"flushadd", "flushemit"} /\ pack[s] # <<>>
           /\ interrupted (* while Submit waits for room in the pool *)
           /\ Reserve(ToSet(pack[s]), 1)
           /\ moved
           /\ UNCHANGED faults
         \/ /\ phase[t] \in {"emit", "drain"} /\ rows[s] # <<>>
           /\ promise[flight[Head(rows[s])]] = Broken
           /\ UNCHANGED <<vars, pack, faults>>
      /\ Go(t, "close")
      /\ interrupted' = TRUE
      /\ UNCHANGED <<call, pos, count, rows, jobVars, owners, answered>>

(***************************************************************************)
(* The end of a thread: its calls are made, a LIMIT needs no more of them, *)
(* or one failed.  ~StreamState waits for its jobs and drops its rows.     *)
(***************************************************************************)
Close(t) ==
  /\ phase[t] \in {"next", "more", "close"}
  /\ Go(t, "closing")
  /\ stopped' = [stopped EXCEPT ![StreamOf(t)] = TRUE]
  /\ UNCHANGED <<vars, call, pos, count, rows, pack, jobs, error, facts>>

Clear(t) ==
  /\ phase[t] = "closing"
  /\ AllDone(StreamOf(t))
  /\ pack' = [pack EXCEPT ![StreamOf(t)] = <<>>]
  /\ IF rows[StreamOf(t)] # <<>>
       THEN DropRow(StreamOf(t)) /\ UNCHANGED phase
       ELSE Go(t, "closed") /\ UNCHANGED <<vars, rows>>
  /\ UNCHANGED <<call, pos, count, jobVars, facts>>

(* A worker destroys the last reference to a row of a stream that is gone. *)
LateDrop(c) ==
  /\ (pc[c] = "orphan" /\ Abandon(c)) \/ (pc[c] = "late" /\ Release(c))
  /\ UNCHANGED evalVars

(***************************************************************************)
(* Jobs, run by the pool's workers.                                        *)
(***************************************************************************)
PutJob(s, i, job)   == jobs' = [jobs EXCEPT ![s] = ReplaceAt(@, i, job)]
SetJob(s, i, state) == PutJob(s, i, [jobs[s][i] EXCEPT !.state = state])

JobStart(s, i) ==
  /\ jobs[s][i].state = "queued"
  /\ \/ (stopped[s] \/ (s[2] = "eval" /\ interrupted)) /\ SetJob(s, i, "done")
     \/ ~stopped[s] /\ ~interrupted /\ SetJob(s, i, "calling")
  /\ UNCHANGED <<vars, control, rows, pack, flags, facts>>

JobAnswered(s, i) ==
  /\ jobs[s][i].state = "calling"
  /\ s[2] = "stream" => ~Locked(s)
  /\ SetJob(s, i, IF s[2] = "eval" THEN "done" ELSE "completing")
  /\ answered' = answered \cup ToSet(jobs[s][i].refs)
  /\ UNCHANGED <<vars, control, rows, pack, flags, owners, interrupted, faults>>

(* A stream's job completes its rows one by one. *)
JobComplete(s, i) ==
  LET job == jobs[s][i]
      c   == job.refs[job.next]
  IN  /\ job.state = "completing"
      /\ CompleteStep(c)
      /\ IF pc[c] # "set"
           THEN UNCHANGED jobs
           ELSE IF job.next = Len(job.refs)
             THEN SetJob(s, i, "done")
             ELSE PutJob(s, i, [job EXCEPT !.next = @ + 1])
      /\ UNCHANGED <<control, rows, pack, flags, facts>>

(* The call, or an answer in it, fails: stopped is set, then the error.    *)
JobFails(s, i) ==
  /\ \/ /\ jobs[s][i].state = "queued" /\ s[2] = "stream" /\ ~stopped[s] /\ interrupted
        /\ UNCHANGED faults
     \/ jobs[s][i].state = "calling" /\ (stopped[s] \/ interrupted) /\ UNCHANGED faults
     \/ jobs[s][i].state = "calling" /\ Fault
     \/ /\ jobs[s][i].state = "completing" /\ pc[jobs[s][i].refs[jobs[s][i].next]] = "sent"
        /\ Fault
  /\ SetJob(s, i, "failing")
  /\ stopped' = [stopped EXCEPT ![s] = TRUE]
  /\ UNCHANGED <<vars, control, rows, pack, error, owners, answered, interrupted>>

JobError(s, i) ==
  /\ jobs[s][i].state = "failing"
  /\ ~Locked(s)
  /\ SetJob(s, i, "done")
  /\ error' = [error EXCEPT ![s] = TRUE]
  /\ UNCHANGED <<vars, control, rows, pack, stopped, facts>>

Interrupt ==
  /\ ~interrupted
  /\ interrupted' = TRUE
  /\ UNCHANGED <<vars, control, rows, pack, jobVars, owners, answered, faults>>

(* The query is over. *)
Over == /\ \A t \in Threads : phase[t] = "closed"
        /\ \A c \in Claims : pc[c] \notin {"orphan", "late"}
        /\ UNCHANGED jevVars

-----------------------------------------------------------------------------
JevInit ==
  /\ Init
  /\ call = [t \in Threads |-> 0]
  /\ phase = [t \in Threads |-> "next"]
  /\ pos = [t \in Threads |-> 1]
  /\ count = [t \in Threads |-> 0]
  /\ rows = [s \in Slots |-> <<>>]
  /\ pack = [s \in Slots |-> <<>>]
  /\ jobs = [s \in Slots |-> <<>>]
  /\ stopped = [s \in Slots |-> FALSE]
  /\ error = [s \in Slots |-> FALSE]
  /\ owners = {} /\ answered = {} /\ interrupted = FALSE /\ faults = 0

EvalStep(t) == \/ EvalAcquire(t) \/ EvalReserve(t) \/ EvalSubmit(t) \/ EvalRefused(t)
               \/ EvalJoin(t) \/ EvalPublish(t) \/ EvalAwait(t) \/ EvalFails(t)
               \/ EvalUnwind(t)

StreamStep(t) == \/ StreamAdd(t) \/ StreamEmit(t) \/ StreamFlush(t) \/ EmitRow(t)
                 \/ EmitEnd(t) \/ Resume(t) \/ StreamFails(t)

ThreadStep(t) == Begin(t) \/ EvalStep(t) \/ StreamStep(t) \/ Close(t) \/ Clear(t)

JobStep(s, i) == \/ JobStart(s, i) \/ JobAnswered(s, i) \/ JobComplete(s, i)
                 \/ JobFails(s, i) \/ JobError(s, i)

JevNext ==
  \/ \E t \in Threads : ThreadStep(t)
  \/ \E s \in Slots : \E i \in DOMAIN jobs[s] : JobStep(s, i)
  \/ \E c \in Claims : LateDrop(c)
  \/ Interrupt
  \/ Over

JevSpec == JevInit /\ [][JevNext]_jevVars

(* Every pipeline has an executor thread, the pool runs what is submitted  *)
(* (HttpPool's EveryTaskRuns) and a call ends by its timeout.              *)
JevFairSpec ==
  /\ JevSpec
  /\ \A t \in Threads : WF_jevVars(ThreadStep(t))
  /\ \A s \in Slots : WF_jevVars(\E i \in DOMAIN jobs[s] : JobStep(s, i))
  /\ \A c \in Claims : WF_jevVars(LateDrop(c))

-----------------------------------------------------------------------------
(* Properties *)

Phases == {"next", "acquire", "submit", "join", "publish", "await", "unwindjoin", "unwind",
           "add", "flushadd", "flushemit", "emit", "drain", "more", "close", "closing", "closed"}
JobStates == {"queued", "calling", "completing", "failing", "done"}

(* Type invariant of the evaluators' own state. *)
JevTypeOK ==
  /\ call \in [Threads -> Nat]
  /\ \A t \in Threads : phase[t] \notin {"next", "close", "closing", "closed"} =>
                             call[t] \in DOMAIN Calls[t]
  /\ phase \in [Threads -> Phases]
  /\ pos \in [Threads -> Nat \ {0}] /\ count \in [Threads -> 0 .. VectorSize]
  /\ rows \in [Slots -> Seq(Claims)] /\ pack \in [Slots -> Seq(Claims)]
  /\ jobs \in [Slots -> Seq([refs : Seq(Claims), state : JobStates, next : Nat \ {0}])]
  /\ stopped \in [Slots -> BOOLEAN] /\ error \in [Slots -> BOOLEAN]
  /\ owners \subseteq Claims /\ answered \subseteq Claims
  /\ interrupted \in BOOLEAN /\ faults \in 0 .. MaxFaults

(***************************************************************************)
(* Only what was answered is published (process's silent return on a       *)
(* cancelled query, the join, the checks after it): no evaluator completes *)
(* a flight whose question the provider has not answered, whichever jobs   *)
(* were skipped, failed or cut short.                                      *)
(***************************************************************************)
PublishedWasAnswered ==
  \A c \in owners : pc[c] \in {"stored", "set"} \/ promise[c] \in Answer => c \in answered

(***************************************************************************)
(* Nothing is left behind (FlightGuard, ~StreamState, ~StreamRow): when    *)
(* the evaluators of a query are gone, however each of them ended, no      *)
(* promise is open and no flight is registered.                            *)
(***************************************************************************)
NothingLeftBehind ==
  (\A t \in Threads : phase[t] = "closed") /\ (\A c \in Claims : pc[c] \notin {"orphan", "late"})
    => /\ \A c \in owners : promise[c] # Open /\ pc[c] = "done"
       /\ Held(flights) = {}

(* t is blocked on a flight whose question sits in the unsent pack of u.   *)
Awaited(t) ==
  IF phase[t] = "await" /\ pos[t] <= Len(rows[Slot(t)]) THEN {flight[rows[Slot(t)][pos[t]]]}
  ELSE IF phase[t] = "emit" /\ rows[Slot(t)] # <<>> THEN {flight[Head(rows[Slot(t)])]}
  ELSE {}
WaitsOn(t, u) == \E c \in Awaited(t) : promise[c] = Open /\ c \in ToSet(pack[StreamOf(u)])

(***************************************************************************)
(* No cycle waits on unsent questions (Emit's comment, jev_stream.hpp:223, *)
(* Evaluate's, jev_extension.cpp:1110): among threads that wait for one    *)
(* another some thread can always go on to send what it holds.             *)
(***************************************************************************)
NoUnsentCycle ==
  \A T \in (SUBSET Threads) \ {{}} : \E t \in T : \A u \in T : ~WaitsOn(t, u)

(***************************************************************************)
(* docs/performance-review.md:122 finds no issue in "owner failure         *)
(* cleanup" and "LIMIT cleanup", and a broken flight tells its followers   *)
(* "owning evaluation failed" (jev_extension.cpp:475): while nothing has   *)
(* failed and nothing is cancelled, nobody waits for a broken flight.      *)
(***************************************************************************)
OnlyFailuresBreak ==
  faults = 0 /\ ~interrupted => \A t \in Threads : \A c \in Awaited(t) : promise[c] # Broken

(***************************************************************************)
(* The evaluators use their QueryState as QueryState specifies it: an      *)
(* owner settles its flight in the order Store, set_value, Release, and no *)
(* destructor touches a flight that is done.  So what is proved of every   *)
(* use of QueryState holds of every query.                                 *)
(***************************************************************************)
ImplementsQueryState == Spec

(* Termination (publish before waiting, flush before blocking, owners that *)
(* settle their flights): every thread of a query comes to its end.        *)
EveryThreadEnds == <>(\A t \in Threads : phase[t] = "closed")
=============================================================================
