# A TLA+ model of the jev extension

This directory specifies, model-checks and proves properties of the `jev` DuckDB
extension: what one connection shares between the evaluators of a query, the
evaluators themselves, how they pack questions into requests, the process-wide pool
that sends the requests, one request with its retries, and what is accepted as an
answer. The reference is the code: `src/jev_extension.cpp` (`E` below) and
`src/jev_stream.hpp` (`S`).

Every module is plain TLA+. `PROJECT.json` lists the runs, the mutants each
property was tried against, the lines each definition translates, and the
theorems.

## 1. The system

| part | state | operations | shared with |
|---|---|---|---|
| **QueryState** (E 339-507), one per connection | snapshot of the options; in-query `answers`; `flights`, a promise per question set being asked; the `session` map with its `lru`; byte counts; query budgets | `Snapshot`, `Acquire`, `Reserve`, `Store`/`Complete`, `Abandon`, `Release`, `ClearSession`, `QueryEnd`, all under one mutex | every evaluator thread of the connection, and pool workers |
| **HttpPool** (E 718-811), one per process | a queue of at most 128 tasks, tasks running per connection, ten workers | `Submit`, the worker loop, `Stop` | every connection |
| **Gate** (E 581-607), one per process | `active_calls`, `query_calls` | constructor, destructor | the workers |
| **Evaluate** (E 894-1157), one call per chunk | claims, packs, futures, `stopped`, the first error; gone when the call returns | claim, pack, reserve, dispatch, join, publish, await | QueryState, HttpPool |
| **jev_stream** (S), one state per operator | rows not emitted yet, a partly filled pack, submitted jobs, `stopped`, the first error; kept between calls | `Add`, `Flush`, `Reap`, `Emit`, `Check`, destruction | QueryState, HttpPool; its jobs run on workers and complete its rows |
| **Request** (E 608-717) | the attempt, its delay, the response so far | perform, retry, parse | Gate, metrics |
| **options, secrets** (E 196-328) | none | read and range-check settings | QueryState's snapshot |
| **packing** (E 991-1044, S 187-226) | the pack being filled, its bytes, all bytes packed | cut, number and close packs | both evaluators, once each |
| **questions and answers** (E 152-195, 812-893, 1123-1155) | none | validate a question, validate an answer, build a result of it | evaluators |
| **evidence, documents** (E 79-151) | none | convert DuckDB values to JSON | evaluators |
| **metrics, jev_stats** (E 58-77, 1181-1224) | eleven atomics | add, maximum, read | everybody |
| **registration** (E 1226-1302) | none | register functions and settings | |

How they meet. A DuckDB thread that evaluates a chunk or a stream row calls
`Acquire`: it is served from a cache, becomes the follower of a flight somebody
owns, or owns a new flight. Owners put their questions into packs, `Reserve`
them against the query's budgets and `Submit` them. A worker takes a task when
the connection has room, passes the `Gate`, calls the provider. A scalar chunk
joins its futures, `Complete`s every row it owns and only then waits for the
flights it follows; a stream's job completes its rows on the worker, and the
stream emits rows in order as their flights become ready. Whoever fails
abandons the flights it owns, and DuckDB's executor interrupts the other threads
of the query.

What is hard here, and untested by anything sequential:

* `Complete` lets go of the mutex between storing the answer, setting the
  promise and releasing the flight; another thread may come in between.
* Evaluators wait for one another's flights, so a wait at the wrong moment, or
  for a question that was never sent, is a deadlock.
* A stream row can outlive its stream, its query and its snapshot: the last
  reference may be the one in a finished job, dropped by a pool worker.
* Jobs that see a cancelled query return silently, so "all futures are ready"
  does not mean "all questions are answered".
* Both registries have entry and byte bounds computed with unsigned
  differences; beyond them flights are not shared and answers not kept.
* The session cache outlives queries, credentials, budgets and TTLs.
* The pool's admission and the Gate count the same calls under two mutexes, and
  the pool notifies outside its mutex.
* A row's questions can be in several packs, which are answered in any order, by
  different models; its row number, its flight and its place in the output are
  three indices.
* Packs are cut by two pieces of code that must agree, on lengths kept by hand.
* A cancellation is looked for before a request, in it and between its attempts, and
  a header of one attempt must not delay the next.
* Latencies are recorded without a lock.
* Answers are compared by tolerances and sizes, and read without a handler.

`PROJECT.json` lists these as `hazards`, each at its line, with the properties that
would catch it going wrong.

## 2. The modules

| module | about |
|---|---|
| `QueryState` | QueryState, for any callers that keep its discipline |
| `HttpPool` | the pool and the Gate |
| `JevQuery` | scalar functions and streams of one query, composed with QueryState |
| `Judged` | abstract: what an evaluator returns, complete judgments of its input in order |
| `Chunk` | one call of Evaluate in detail; implements `Judged` |
| `JevStream` | one `jev_stream` in detail; implements `Judged` |
| `Packing` | both packers, on lengths |
| `LogicalCall` | abstract: what a request promises its caller |
| `Request` | the attempts of a request, their delays, cancellation and counters; implements `LogicalCall` |
| `MaxRegister` | abstract: a total and a maximum |
| `RecordLatency` | Request composed with the lock-free recording of latencies; implements `MaxRegister` |
| `Answers` | questions, the validation of answers, and what is built of them |
| `MC...` | the instances for TLC, one module for each of the above that has a run |
| `...Proofs` | the theorems of HttpPool, Chunk, JevStream, Packing, Answers, of QueryState with JevQuery, and of Request with RecordLatency |
| `SumTheorems` | lemmas about sums, of no component |

How they fit together: `QueryState`, `HttpPool` and `Request` are the three layers
below the evaluators. `JevQuery` composes several evaluators with QueryState, keeps
rows small (one question each) and represents the pool and the provider by what they
promise. `Chunk` and `JevStream` take one evaluator each, keep its rows whole
(several questions, NULLs, repetitions, bytes) and represent the rest of the query
by what it may do to it: a cached answer, a failure, a cancellation. `Packing` takes
the bytes of the packs, `Answers` the contents of the answers.

`QueryState` plays two parts. By itself it is a component with its own
properties. Below `JevQuery` it is the abstract specification of how
evaluators use it: `JevQuery` EXTENDS it, every change of QueryState's variables
there is one of its actions, and `ImplementsQueryState` states that a query as
the evaluators run it is a behaviour of `QueryState!Spec`. The refinement
mapping is the identity on the shared variables; the evaluators' own variables
are hidden by the subscript of `Spec`.

### QueryState

A *claim* is one call of `Acquire` and what becomes of it. A claim that owns a
flight gives it its name, so `flights[k]` is a claim and `promise[c]` is the shared
state of `c`'s flight. `pc[c]` follows the code:

    idle -Snapshot-> ready -Acquire-> waiting | owner
    owner -Reserve-> sent -Store-> stored -SetValue-> set -Release-> done
    owner, sent -Abandon-> broken -Release-> done
    sent -Orphan-> orphan -Abandon-> late -Release-> done      (a stream row kept by a worker)
    waiting -AwaitFlight | Leave-> done

Every method that holds the mutex throughout is one action. `Complete` is three:
`Store`, `SetValue`, `Release`. `Abandon` is two. `Acquire` is the whole of the
method, in the order of its lookups: in-query answers, session (expired entries
are erased, fresh ones move to the front and are copied to the answers when they
fit), flights, a flight of one's own, registered when there is room.

Sizes are small numbers (`KeySize`, `AnswerSizes`); entry bounds are constants
(`MaxAnswers`, `MaxFlights`, `MaxSession` for 4096, `FlightBytes` for 8 MiB).
Unsigned differences wrap at `SizeMax`. The SHA-256 of endpoint, model and key
is taken to be injective. `now` is the steady clock; it stops at `MaxTime`.
`started`, `enrolled`, `sent`, `unshared` and `recent` are history: no guard of
the code reads them.

`QueryEnd` happens when the operators of the query are gone, as DuckDB calls it:
the claims left are the orphans, whose rows a worker has yet to drop. What a
later query does to them, and they to it, is in the model.

### HttpPool

`tasks`, `running`, `closing` are the pool's fields, `active_calls`, `query_calls`
the Gate's. A worker is `awake` (it holds or wants the mutex and looks at the
queue), `asleep` in `ready.wait`, has a task and comes to the Gate (`call`), is in
it (`gated`), has `finished` its task, or is between the decrement and
`notify_all` (`notify`). `SkipCall` is a task that ends without a call: stopped,
cancelled, or no curl handle. `SpuriousWake` is a spurious wakeup. A worker that
waits in the Gate would be a worker whose `EnterGate` is not enabled; that this
never happens is `GateNeverWaits`.

`Limit` is fixed per connection: all tasks of a connection carry the
`jev_concurrency` of one query's snapshot at a time. `Stop` is run once, at the end of
the process, after which nothing is submitted.

### JevQuery

A thread is a DuckDB pipeline with a fixed sequence of calls: `eval` (a chunk of a
scalar function), `input` and `final` (`in_out_function` and
`in_out_function_final` of a stream). `phase` is where in the call it is; `pos` is
the loop variable. `rows`, `pack`, `jobs`, `stopped`, `error` are the locals of `Evaluate`
and the fields of `StreamState`, by slot (one for scalar chunks, one for
the stream).

* Scalar: `acquire` (all rows) → `submit` (after `Reserve`) → `join` → `publish` →
  `await` → next call; `unwind` runs `~FlightGuard`; an exception cancels the other
  threads, as the executor does on an error.
* Stream: `add` → `flushadd` when a pack is full → `add` → … → `drain` (the non-blocking
  `Emit`); `flushemit` → `emit` is the blocking one. `more` is
  `HAVE_MORE_OUTPUT`: the executor calls again. `closing` is `~StreamState`, which waits for
  the jobs and drops the rows, and may be reached from `next` and `more` at any
  time (LIMIT).
* Jobs: `queued` → `calling` → `done`, or → `completing` (a stream's job under the
  stream's mutex, row by row) → `done`; or → `failing` (`stopped` is set, the
  error not yet) → `done`. HttpPool is represented by what it promises: each
  submitted job is eventually run, and a cancelled Submit throws.

Abstractions: a row is not NULL and has one question (`Chunk` and `JevStream` have
the others); packs are cut by `BatchSize` alone (`Packing`); the stream's byte budget for
retained rows is `MaxRows`; one query; parsing, validation and values are represented by
`Fault`, a failure that can happen wherever the code can throw, at most `MaxFaults`
times. A duplicate row of a scalar chunk is not a row (`unique` in the code).

### Judged, Chunk and JevStream

`Judged` is what a user of either evaluator may rely on: the output grows by one
row at a time, in the order of the input, NULL for a NULL row, and otherwise all the
questions of that row's key, answered, by one model. Both evaluators are shown to
refine it; their `out` is the abstract one, everything else is hidden.

`Chunk` follows Evaluate phase by phase: `scan` the rows (a NULL, a row seen before,
one served from a cache, one to be asked, indexed by `NewRow` or `FoundRow`), `pack`
question by question, `Reserve`, `submit` the packs, `join`, `publish`, `await`, `build`
the results through `mapping`. Jobs answer row by row, so that a row of
several packs is completed by whichever answers last; a second model is an error of
the job. `unwind` joins what was submitted.

`JevStream` follows `Add` (one row of the chunk at a time, with its bounds), `Ask`
(the questions of a row, which may flush in the middle of a row), `Flush` (window,
reaping), `Emit` (polling or blocking, up to a vector), the end of the calls, and
`Close` at any time. `retained` and `resultBytes` are the code's counters, the latter with the code's
unsigned arithmetic. Jobs apply one answer at a time under the stream's mutex.

### Packing

A question has a length; the text of a payload is its length. `Evaluate(size)` and
`Add(size)` are one turn of the two packing loops over the same input, side by side, so
that `SamePacks` can compare their requests and the question each refuses. `EmitFlush` is the
stream's early flush, which the scalar packer does not have. `overBudget` is history: which of its two
bounds made Evaluate throw, that on one question or the 32 MiB on all of them, which the stream has not.

### Request and RecordLatency

The work of a request between two places where it waits is one action: `Enter`
(the Gate lets it in), `Send` (an attempt begins), `Header` and `Write` (curl's
callbacks), `Finish` (curl returns: success, failure or retry), `Poll` and `CutShort`
(`RetryWait`), `Again`. `Outcome` is what curl may return: a transfer that began after the
cancellation is aborted by `Progress` unless it fails before anything arrives.
`Int64` wraps the product of `Retry-After`. A delay that is not zero has one look at the flag at least, before it is
over. `delivered` is history: how much curl has handed over, with which `MetricsExact` compares the bytes counted.

`RecordLatency` extends it: a request that has ended goes through `record_latency` in
the steps of its atomics (`Add`, `Load`, `Larger`, `Exchange`, `Miss`), while the others go on.

### Answers

A JSON value is a record with one field, its kind; numbers are counted in hundredths.
`Init` chooses a call of a function and a `provider`. One that rounds to the `nearest` hundredth (a tie either way), or
to either `neighbour`, starts from a distribution in finer numbers (a truth is counted in `Fine`-ths of a Unit) and
rounds each number, and the score's mean, on its own: `Rounds` are all the ways it may. With a `faulty` one, `SpoilQuestion`
and `SpoilAnswer` replace, remove or add a field, one or two levels deep. Where the
code compares doubles at the bound, `up` decides. `Build` reads what the function's
result is made of, and `threw` is a read that fails.

## 3. The runs

| run | specification | instance | shows |
|---|---|---|---|
| `qs_flights` | `FairSpec` | 3 claims, 3 keys, one registry entry, two answers, three settings, no session | registry, sharing, byte counts, budgets; followers are answered |
| `qs_session` | `Spec` | 2 claims, 3 keys, four settings (two scopes, two TTLs, three budgets), clock to 2 | session map, LRU, freshness, isolation |
| `pool` | `FairSpec` | 3 workers, 2 connections (limits 1, 2), 4 tasks, queue of 2 | ceilings, no lost wakeup, order, service, shutdown |
| `jev_scalars` | `JevFairSpec` | 2 threads, 3 chunks owning opposite subsets of 2 keys, budget of 2 questions, cache on or off, one fault, cancellation | publication, termination, refinement |
| `jev_streams` | `JevFairSpec` | 2 streams with a duplicate row, packs of 2, 2 retained rows, output vectors of one row, one fault, cancellation, early close | no cycle, cleanup, termination |
| `chunk_rows` | `Spec` | 4 rows: three questions over packs of 2, a NULL, one question, a repetition; two models, one fault, cancellation | complete publication and results |
| `stream_rows` | `FairSpec` | 5 rows in two chunks, rows of 1 to 3 questions over packs of 2, a repetition, a NULL; vectors of 2 rows, one fault, close | rows in order, questions once, budgets, everything returned |
| `packing` | `Spec` | every sequence of up to 7 questions of 4 lengths, packs of 3 questions or 12 bytes, 30 bytes in all | requests, byte counts, the packers agree and refuse the same question |
| `requests` | `RecordingFairSpec` | 2 requests, 2 retries each, a delay of at most 10, Retry-After of 6 (12) and of 17 (34, beyond the integers), lost answers, cancellation | delays, counters, one logical call, latencies |
| `answers` | `Spec` | every function, each type of `jev_eval`, up to two defects; distributions over 2 criteria (all) and 3 (near the ends, thirds and halves) in sixths of a hundredth, each number rounded to the nearest or to either neighbour | what is accepted can be read, is whole and honest |
| `jev_pipeline` | `JevSpec` | one pipeline with a scalar function under a stream | a violation: section 6 |
| `jev_limit` | `JevSpec` | two streams, one closed early | a violation: section 6 |

Why these bounds are enough to be of interest. `qs_flights`: three claims are an
owner, a follower and a second owner after an eviction or a query end; with one
registry entry and a key over the byte bound, unregistered duplicate flights occur;
the budgets are smaller than the number of claims. `qs_session`: storing the big
key evicts both others; two claims suffice for a hit while another stores; a
clock of 2 lets entries expire under a TTL of 1 and of 2. `pool`: fewer workers than
tasks, a connection at its limit whose task must be passed over, a full queue.
`jev_scalars`: two keys in opposite order are the smallest cycle; the third chunk
meets what the others left. `jev_streams`: three rows against two retained rows force a
blocking `Emit` in the middle of a chunk, and a duplicate makes a stream its own follower.
`chunk_rows`: three questions in packs of two put one row into two requests that it
shares with another row; the repetition comes after a NULL, so that input row, row and question
have different numbers. `stream_rows`: the last row has more questions than a pack
holds, its questions can share a pack with the second row's, the output of five rows needs three
vectors, and either bound, on rows or on their bytes, can be the one that stops `Add`. `packing`: the third position has a
longer id, so that an entry fits before a cut and not after it, or the other way round;
three questions of length 1 fill a pack to its number before its bytes, so that the stream flushes where it adds and the
scalar packer at the next question; a question of 9 fits no pack; four of 4 are more than the packs may have
together, so that each reason to throw occurs, and three packs. `requests`: the second retry tells a delay of this attempt from one
of the last; a Retry-After of 6 is more than the largest delay and must be cut to it, one of 17 overflows below zero, and the
jitter of the second backoff is 0 or 1; two requests
share the cancellation and the maximum. `answers`: two defects can compensate one
another, as an added key and a missing one do; a third rounds to 33 three times, a sum of 99, and
halves rounded up give 101, so that both sides of the tolerance are met.

Symmetry (claims) is used in `qs_session` only. Runs without a deadlock check are
those whose system really stops: the pool after shutdown, a sequence of questions, an answer,
a chunk. `JevQuery`, `JevStream` and `Request` stutter when they are over, and every other
state without a successor is reported.

Each property was tried against a mutant of the code that violates it (the
`mutant:` operators in the modules): a dropped guard, a missing release, the order
of two steps swapped, and so on.

**Fairness.** `qs_flights`: an owner that can settle its flight does so
(evaluators publish or unwind, destructors run), and a waiter polls every 20 ms.
`pool`: workers are threads of the operating system, a call ends by its timeout
(`jev_timeout_ms` times the attempts), condition variables wake those
notified. `jev_*` and `stream_rows`: every pipeline has an executor thread of its own, which
sees an error that was set; submitted jobs are run (this is `EveryTaskRuns` of HttpPool) and
dropped. `requests`: the Gate lets a request in (`GateNeverWaits`), a
transfer ends by its timeout, a delay passes, and a weak exchange does not fail for no
reason for ever. Nothing is assumed of the provider beyond the timeout, and nothing of
cancellation: a query may be interrupted at any time or never.

## 4. The properties

*QueryState.* `RegistryExact`: the registry is exactly the flights registered in this
query and not yet released, whatever late rows do. `BytesExact`, `SessionAccounting`: the byte
counts are the sums they stand for, within their bounds, so that no unsigned difference wraps.
`LruIsRecency`: the list is the order of last use. `AskedOnce`: unless some
answer or flight found no room, no two claims of a query ask the same question.
`NoExpiredAnswer`, `ServedRight`: nothing stale and nothing of another credential
is served. `WithinBudget`: no query dispatches more than its limits.
`FollowersAnswered`: waiters are told.

*HttpPool.* `WithinLimits`, `GateNeverWaits`, `WorkConserving` (no lost
wakeup), `InOrder`, `EveryTaskRuns`, `ShutdownCompletes`.

*JevQuery.* `PublishedWasAnswered`: only what the provider answered is published, although
jobs return silently. `NothingLeftBehind`: when the evaluators are gone, no
promise is open and no flight registered, however each of them ended.
`NoUnsentCycle`: no set of threads waits for questions that only they could send.
`EveryThreadEnds`: every thread comes to its end. `ImplementsQueryState`.

*Chunk and JevStream.* `ImplementsJudged`, of each. `PublishedComplete`: what a chunk publishes
to other evaluators has every answer. `EachQuestionOnce`: until a stream stops, each question
asked of a row it owns is in exactly one place, the open pack, one job that has still to apply it,
or the answers. `BudgetsExact`: `retained` and
`resultBytes` are the sums over the rows still held and never wrap; rows and
requests are within their bounds. `EverythingReturned`: without a failure or a close, all
rows come out.

*Packing.* `AllSendable`: every request is within its bounds, numbers its questions
by position and is not empty. `BytesExact`: the lengths kept by hand are those of the
payloads. `SamePacks`: until the stream flushes early, both packers make the same requests, except that the
stream sends a full pack at once and the other at the next question, and each refuses the question the other does,
except that only Evaluate bounds the bytes of all requests together.

*Request and RecordLatency.* `DelayOfThisAttempt` (the wait before a retry is what this attempt's answer asked for in a header or, if it asked
for nothing, this attempt's backoff, and never more than the bound), `MetricsExact` (requests, attempts beyond the first, failures,
cancellations and bytes both ways, however each request ends; of `retries` nothing once a delay was cut short, see
section 6), `ImplementsLogicalCall` (bounded attempts, a final result, at most one
attempt begun after the cancellation), `ImplementsMaxRegister`, `EveryRequestRecords`.

*Answers.* `ReadsSucceed`: no accepted answer fails a read. `WholeJudgment`: although only
sizes are compared, every criterion has a probability and every level its legend.
`ScoreIsExpected`: an accepted score is the expected index up to the tolerances.
`HonestAccepted`: an answer rounded to the nearest, ties either way, is never refused with up to three
criteria, nor one rounded to either neighbour with two. (With more they can be: a sum of n rounded numbers is off by up to n halves of
a hundredth, below or above, and from four on this reaches the tolerance of 0.02.)

## 5. What is proved

For every value of the constants that satisfies the named assumptions of the
modules (`ConstantsAssumption`, `NoneAssumption`; HttpPool's, with as many workers as
`GLOBAL_LIMIT`; `JevAssumption`; `ChunkAssumption`, `StreamAssumption`,
`PackingAssumption`; `RequestAssumption`, `ShiftAssumption`; `AnswersAssumption`, `TruthsAssumption`):

| theorem | of | says |
|---|---|---|
| `TypeCorrect` | QueryState | `Spec => []TypeOK` |
| `RegistryCorrect` | QueryState | `Spec => []RegistryExact` |
| `Isolation` | QueryState | `Spec => []ServedRight` |
| `Freshness` | QueryState | `Spec => []NoExpiredAnswer` |
| `OneRequestPerKey` | QueryState | `Spec => []AskedOnce` |
| `Budgets` | QueryState | `Spec => []WithinBudget` |
| `BytesCharged` | QueryState | `Spec => []BytesExact` |
| `SessionAccounted` | QueryState | `Spec => []SessionAccounting` |
| `Recency` | QueryState | `Spec => []LruIsRecency` |
| `Accounting` | HttpPool | `Spec => []AccountingExact` |
| `Ceilings` | HttpPool | `Spec => []WithinLimits` |
| `OpenGate` | HttpPool | `Spec => []GateNeverWaits` |
| `Ordered` | HttpPool | `Spec => InOrder` |
| `NoLostWakeup` | HttpPool | `Spec => []WorkConserving` |
| `JevTypeCorrect` | JevQuery | `JevSpec => []JevTypeOK` |
| `JevImplementsQueryState` | JevQuery | `JevSpec => ImplementsQueryState` |
| `QueriesShareAnswers` | JevQuery | `JevSpec => [](AskedOnce /\ ServedRight /\ NoExpiredAnswer)` |
| `AnsweredFirst` | JevQuery | `JevSpec => []PublishedWasAnswered` |
| `NothingLeft` | JevQuery | `JevSpec => []NothingLeftBehind` |
| `NoCycleApart` | JevQuery | `ASSUME Apart PROVE JevSpec => []NoUnsentCycle` |
| `RequestTypeCorrect` | Request | `Spec => []TypeOK` |
| `DelaysAreAsked` | Request | `Spec => DelayOfThisAttempt` |
| `RequestImplementsLogicalCall` | Request | `Spec => ImplementsLogicalCall` |
| `TotalFirst` | RecordLatency | `RecordingSpec => []MaxWithinTotal` |
| `AtomicMaxIsMax` | RecordLatency | `RecordingSpec => ImplementsMaxRegister` |
| `CountersExact` | Request | `Spec => []MetricsExact` |
| `StreamTypeCorrect` | JevStream | `Spec => []TypeOK` |
| `StreamImplementsJudged` | JevStream | `Spec => ImplementsJudged` |
| `QuestionsOnce` | JevStream | `Spec => []EachQuestionOnce` |
| `BudgetsHold` | JevStream | `Spec => []BudgetsExact` |
| `PackingTypeCorrect` | Packing | `Spec => []TypeOK` |
| `RequestsSendable` | Packing | `Spec => []AllSendable` |
| `QuestionsInOrder` | Packing | `Spec => []AskedInOrder` |
| `PackersAgree` | Packing | `Spec => []SamePacks` |
| `BytesCounted` | Packing | `Spec => []BytesExact` |
| `ChunkTypeCorrect` | Chunk | `Spec => []TypeOK` |
| `PublishedIsComplete` | Chunk | `Spec => []PublishedComplete` |
| `AcceptedIsReadable` | Answers | `Spec => []ReadsSucceed` |
| `AcceptedIsWhole` | Answers | `Spec => []WholeJudgment` |
| `ScoreExpected` | Answers | `Spec => []ScoreIsExpected` |
| `HonestIsAccepted` | Answers | `Spec => []HonestAccepted` |
| `ChunkImplementsJudged` | Chunk | `Spec => ImplementsJudged` |

*Sums.* Five of these invariants say that a counter kept by hand is a sum, and two compare sums of rounded
numbers. `SumTheorems` proves what they need of the library's `SumFunction` from its definition: a sum can be split, and changes by what one element
changes. The folds are recursive functions on finite sets, so this takes
induction. The library's induction theorems cannot be instantiated (they take a predicate), but the fact that
< is well founded on the naturals can be cited, and gives induction for a *set* of numbers (`NatInd`);
`{n \in Nat : P(n)}` then stands for the predicate.

*QueryState.* `TypeOK` is not inductive: a claim in progress must have a key and
a snapshot (`ClaimsOK`); together they are `TypeInv`, and every other proof of
QueryState builds on it. `RegistryInv` adds that whoever is enrolled has not released: that is
what makes the identity check of `Release` necessary and sufficient.
`ServedRight` needs three facts that hold each other up: the snapshot of every live claim is the
query's (`SnapshotInv`), both caches hold answers of their own key and scope
(`CachesInv`), and flights carry what their owner publishes (`FlightsInv`); the
follower's case rests on `key` and `opts` of a flight being those of its followers.
`FreshInv` says the same of deadlines: a session entry expires its TTL after it was
stored, and what is copied to the answers was fresh after the query began.
`OnceInv` is the reason Complete stores before it releases: for a shared key, an owner
is enrolled, a key that is still being asked is in no cache, and a key that has been
answered stays in the answers until the query ends. `BudgetInv` bounds the claims
sent by the questions counted and the counters by the limits in force; a query that has
no snapshot yet has counted nothing.
`BytesInv` adds to `BytesExact` that finitely many keys are held: without it the sum says nothing.
An insertion is of a key not held, a release of one that is, and each adds or takes one summand.
`SessionInv` says of the session cache at once that list and map hold the same keys, that the list
has none twice, that it is in the order of last use, and that the account is the sum: what a
store evicts is the end of the list, so its effect on the map, the account and the order can
only be stated together (`StoreSessionInv`).

*HttpPool.* `PoolInv` is the type invariant with `AccountingExact` (the counters are the numbers of
workers they stand for) and `WithinLimits`: the Gate counts a
subset of what the pool counts, so a worker that comes to the Gate is not yet counted and
finds room. The counting arguments are the lemmas `OneMove` and `IdleMove`: a step
moves at most one worker into or out of a set. `QueueInv` (the queue holds waiting tasks, each
once; a worker's call is of a task no other calls) gives `InOrder`: Take starts the first task
that may run, and whether it may depends on its connection only. `WakeInv` is stronger than
`WorkConserving`: if something can run while a worker sleeps, a worker is at its `notify_all`.
Sleeping keeps it because a queue with a task that can run has a first one (`FirstRunnable`).

*JevQuery.* `JevInv` is the evaluators' type invariant, with `JobsInv` (a job points at one of its
rows) and `PacksInv` (the owned rows of a slot are distinct and were acquired, so that
`Reserve` is called with as many requests as rows at most). With it, the lemma
`Uses` shows that each step of a query is a step of QueryState or leaves QueryState
alone, and the refinement follows; the theorems about QueryState then carry over.

`AnsweredFirst` needs `AnsweredInv`: the jobs of a chunk are its packs in order, and when they are joined
without an error each pack has one (`ChunkInv`); a job of a scalar call that is done was answered, or
the call was cancelled or stopped, and a stream's job that completes was answered (`SaidInv`). The join sees no
error and no cancellation, so every pack was answered, and the packs cover the owned rows (`PackCover`).

`NothingLeft` follows a claim from the row that takes it to its release. A claim belongs to
one slot, in its rows, its pack and its jobs (`HomeInv`); a flight that is being published is the one a
stream's job, or the thread of the chunk, is at (`PubInv`); the live rows of a chunk are
those still to be published, and none when the followers are awaited (`PackedInv`). So a live owner always is
a row of a slot whose thread will unwind or close (`RowInv`): a stream does not emit it, for its
answer is there only between `set_value` and `Release`, while its job holds the mutex `Check` takes. With
the invariant of the registry this leaves nothing when every thread has closed.

`NoCycleApart` has a hypothesis, `Apart`: no thread makes both scalar and stream calls. Then
a thread that waits has an empty pack (`SentInv`), so nobody waits for it. The hypothesis is the
one the finding of section 6 shows to be missing in the code's comment.

*Chunk.* `ChunkInv` has a part for each index of Evaluate: `MapInv` (an input row is mapped to a
row of its own key), `RefsInv` and `PackedInv` (every question of a row that is to be asked
is in exactly the packs), `RowsInv` (the answers of a row are its own questions', by its model),
`JobsInv` (a job that is done has answered its pack, unless the call was stopped or
cancelled or has failed). Publication is guarded by `Failed`, which rules the exceptions out; so all
jobs have answered, all packs were submitted, and what is published is complete.

*JevStream.* `StreamInv` again has a part for each index: `OrderInv` (the rows that wait are the next
of the input, in order), `FlightInv` (a row's flight is its own or an earlier row's of the same
key), `AskingInv` (where Add is in a row), `JobsInv` (a pack holds questions of rows that were taken), `AnswerInv` (a
row's answers are among its questions, and a row that is ready has all of them and a model). The
row at the head is then the next of the input, and what it carries is complete.

`EachQuestionOnce` counts places, which does not survive a step by itself: `QuestionInv` names the places a question
can be open in (`Open`: an index of the pack, or of what a job has yet to apply) and says that no two hold the same
question (`Distinct`), that what is open or answered was asked of the row's owner (`OwnedInv`), and that what was
asked is open or answered (`NothingLost`). Flushing and reaping move places and renumber jobs; `Moved` says that an injection
between places is enough. `BudgetInv` then compares the two counters with the sums over `InRows`: rows enter
with nothing buffered and leave with all of it (`LeftInv`). That a stream's jobs are at most twice its concurrency, done or not, is part of `SizesInv`.
`StreamAssumption` says that the 32 MiB bound is below 2^64, as the code's unsigned arithmetic needs.

*Packing.* The type invariant, `AllSendable`, `AskedInOrder` and `SamePacks` are together
inductive as they stand. `PaidInv` says that each pack's bytes are those of its payload and packedBytes the
sum of the packs' own counts; an entry's length depends on the question's, so the questions of a pack
must be ones that were asked.

*Request.* `PhaseOK` ties the attempt to the phase and the delay asked to the headers heard; `LateOK` says why
at most one attempt starts after the cancellation: a request that has started one is in a
transfer curl aborts, or waits with some delay left, and the next look at the flag ends it.
`MetricsExact` is a sum over requests of which a step changes one summand: `Counted` is what the step must do to each
counter, `CountStep` and `CountFinish` that it does. `MetricsInv` adds that only a request that waits or
has failed has some of a delay left, which is how a delay cut short is known.
For `RecordLatency`: what a call holds is an earlier maximum, what it is to raise is final and
has been added.

*Answers.* `TypeInv`: the type of a question is the one its function names, so that the branch
of ValidateAnswer is the one the result is read by. The set of accepted keys is within the
criteria and as large as they are, and the legend contains the levels and is no larger; that finite sets
of these kinds are equal needs `WellFormed` questions (`QuestionInv`) and legends (`AnswerInv`),
which `AnswersAssumption` gives for what users ask and the lemmas on `Spoilt` keep.
`ScoreIsExpected` is then arithmetic: the error is (score - mean) * Unit + score * (total - Unit), each
factor within its bound (`ErrorBound`).
For `HonestAccepted`, `TruthsAssumption` says what the provider rounds, sequences of `Fine`-ths that sum to
Unit * Fine, and that the two tolerances fit each other. With `Off` the most a rounded number is off, in 2 * Fine-ths of a
Unit: for each number n of levels for which rounding leaves the sum within `SumTolerance`, n * Off < 2 * Fine * `SumTolerance`,
the mean is within its own, (n * (n - 1) + 1) * Off < 2 * Fine * `ScoreTolerance` (to the nearest hundredth, 7 < 10 for
n = 3; to a neighbour, 3 * (2 * Fine - 1) < 10 * Fine for n = 2). `HonestInv` keeps that such an answer is a truth rounded. Each of n
numbers is off by `Off` at most on either side (`RoundsWithin`); so is their sum by n times that (`RoundedSum`,
`SumBetween`, which compares sums on the two scales) and the score, itself rounded, differs from
the mean of the rounded numbers by n * (n - 1) + 1 times that (`RoundedMean`); either is then near enough (`NearWithin`). As the answer lists the criteria in an order of its own, its sums must be shown to be those of the truth
(`Ordered`, `SumReindex`; `SumPadded` for the levels a score does not have).

*Model-checked only.* Liveness (`FollowersAnswered`, `EveryTaskRuns`, `ShutdownCompletes`,
`EveryThreadEnds`, `EverythingReturned`, `EveryRequestRecords`) needs `ENABLED` and stays with TLC.
Every safety invariant and every action property that a passing run checks is a theorem.
The type invariants of all proved modules and `AccountingExact`, `AskedInOrder` and
`MaxWithinTotal` are theorems and are not checked by a run of their own.

## 5. What is proved

For every value of the constants that satisfies the named assumptions of the
modules (`ConstantsAssumption`, `NoneAssumption`; HttpPool's, with as many workers as
`GLOBAL_LIMIT`; `JevAssumption`):

| theorem | of | says |
|---|---|---|
| `TypeCorrect` | QueryState | `[]TypeOK` |
| `RegistryCorrect` | QueryState | `[]RegistryExact` |
| `Isolation` | QueryState | `[]ServedRight` |
| `Freshness` | QueryState | `[]NoExpiredAnswer` |
| `OneRequestPerKey` | QueryState | `[]AskedOnce` |
| `Accounting` | HttpPool | `[]AccountingExact` |
| `Ceilings` | HttpPool | `[]WithinLimits` |
| `OpenGate` | HttpPool | `[]GateNeverWaits` |
| `JevTypeCorrect` | JevQuery | `[]JevTypeOK` |
| `JevImplementsQueryState` | JevQuery | `JevSpec => ImplementsQueryState` |
| `QueriesShareAnswers` | JevQuery | `AskedOnce`, `ServedRight`, `NoExpiredAnswer` of every query |

*The arguments.* `TypeOK` is not inductive: a claim in progress must have a key and
a snapshot (`ClaimsOK`); together they are `TypeInv`, and every other proof of
QueryState builds on it. `RegistryInv` adds that whoever is enrolled has not released: that is
what makes the identity check of `Release` necessary and sufficient.
`ServedRight` needs three facts that hold each other up: the snapshot of every live claim is the
query's (`SnapshotInv`), both caches hold answers of their own key and scope
(`CachesInv`), and flights carry what their owner publishes (`FlightsInv`); the
follower's case rests on `key` and `opts` of a flight being those of its followers.
`FreshInv` says the same of deadlines: a session entry expires its TTL after it was
stored, and what is copied to the answers was fresh after the query began.
`OnceInv` is the reason Complete stores before it releases: for a shared key, an owner
is enrolled, a key that is still being asked is in no cache, and a key that has been
answered stays in the answers until the query ends.

`PoolInv` is the type invariant with `AccountingExact` and `WithinLimits`: the Gate counts a
subset of what the pool counts, so a worker that comes to the Gate is not yet counted and
finds room. The counting arguments are the lemmas `OneMove` and `IdleMove`: a step
moves at most one worker into or out of a set.

`JevInv` is the evaluators' type invariant, with `JobsInv` (a job points at one of its
rows) and `PacksInv` (the owned rows of a slot are distinct and were acquired, so that
`Reserve` is called with as many requests as rows at most). With it, the lemma
`Uses` shows that each step of a query is a step of QueryState or leaves QueryState
alone, and the refinement follows; the theorems about QueryState then carry over.

*Model-checked only.* The sums (`FlightAccounting`, `AnswerAccounting`, `SessionAccounting`) are
folds over a set, whose recursion is out of the prover's reach; `LruIsRecency`,
`WithinBudget`, `WorkConserving`, `InOrder`, `PublishedWasAnswered`, `NothingLeftBehind` and
`NoUnsentCycle` are within it and planned where section 8 says so. Liveness
(`FollowersAnswered`, `EveryTaskRuns`, `ShutdownCompletes`, `EveryThreadEnds`) needs `ENABLED`
and stays with TLC.

## 6. Findings

**`jev_pipeline` violates `NoUnsentCycle`.** `StreamInput` ends with `Emit(output, false)`,
which does not `Flush` (S 296-298): owned questions of a partial pack stay
unsent while the thread leaves the operator. When the same pipeline also evaluates a
scalar function, as in

    SELECT * FROM jev_stream((SELECT jev_eval(x, q), y, q FROM t))

over the chunks (x, y) = (k2, k1) and (k1, NULL), the second chunk's scalar
row follows the flight of the first chunk's stream row, and `AwaitFlight` waits for a question
only its own thread could send. Nothing times out; the query stands still until it is
cancelled. The comment in `Emit` (S 223-224) names this very hazard, "a
follower/owner cycle across evaluators could wait on unsent questions", and flushes before a
*blocking* `Emit`; `docs/performance-review.md:20-21` says no ordinary-path deadlock was
identified. With streams alone (`jev_streams`) the property holds.

**`jev_limit` violates `OnlyFailuresBreak`.** When a LIMIT closes a stream,
its rows abandon the flights whose questions were not sent, or whose jobs see `stopped`
and return (S 12-15, 38-45, 101). A follower in another stream of the query then fails with
"jev: owning evaluation failed" (E 475-477), although no evaluation has failed and nothing was cancelled;
`docs/performance-review.md:122` says that LIMIT cleanup has no blocking issue.

Four smaller divergences from `README.md`, met while modelling, that the modules reproduce and
no run is spent on:

* `metrics.retries` is incremented before the delay (E 685), so a request cancelled in
  `RetryWait` has counted a retry that is never attempted; README 189 says `retries` counts
  additional HTTP attempts. `MetricsExact` excludes the case: it claims nothing of `retries` once a delay was cut short.
* The same request throws past `record_latency` (E 697) and adds nothing to the total, while
  README 189 says latency is accumulated per logical request. `EveryRequestRecords` excludes it.
* `seconds * 1000` is computed before the minimum (E 562): a Retry-After above 2^63/1000 overflows and is
  waited for less than `jev_retry_max_delay_ms`, which README 165 says caps it. In `Requests.cfg` the
  header 17 is such a one; `DelayOfThisAttempt` states that the delay is still one of those asked for.
* `Add` of the stream counts a NULL row as a cache hit (S 183), Evaluate does not (E 939-940);
  README 177 says a cache hit is reuse.

## 7. What is not modelled

* The vendored JSON library (`json.hpp`), 25 526 of the 27 179 lines under `src/src`. It is third-party code and
  none of this program's logic, so the share of lines this project covers is that of the remaining 1650.
* `Evidence` and `Document`: stateless conversions of DuckDB values to JSON; their outcome
  is a key or a failure.
* `ReadOptions`, secrets, registration, the compatibility header, curl's options, DuckDB
  itself. Of DuckDB the model takes: `QueryEnd` after the
  operators are gone, one thread per pipeline, and an executor that interrupts
  the other threads when one fails.
* `jev_stats` reads eleven atomics one after the other: its row is no snapshot, and nothing says it is.
* JSON text: lengths in `Packing`, kinds and numbers in `Answers`. Doubles are hundredths, with a
  free choice where rounding decides; a number that is not finite is one out of range.
* Memory order: the atomics are sequentially consistent in the code, and so in the model.

## 8. The plan

Done: all modules of section 2 with their instances, and the proofs of section 5. Left:

1. an abstract specification of HttpPool, slots that are taken and returned in the order of asking,
   and the proof that HttpPool implements it; `InOrder` and `WithinLimits` are its safety already.
2. the converse of `NoCycleApart`: which pipelines other than those kept apart are safe.

## 9. Running it

    tlc -workers 2 -config QueryStateFlights.cfg MCQueryState
    tlc -workers 2 -config JevScalars.cfg MCJevQuery
    tlapm JevQueryProofs.tla

`qs_session` is the largest run (4.2 million states, about two minutes with two workers), then
`requests` (1.2 million) and `qs_flights` (0.8 million), whose liveness takes as long; the
others take seconds to a minute and a half. The proofs of the eight modules take about ten minutes from nothing; the
longest are those of `JevQueryProofs`, six, and `JevStreamProofs`, two.

