--------------------------------- MODULE Chunk ---------------------------------
(***************************************************************************)
(* One call of Evaluate (src/jev_extension.cpp:894-1157) in detail: a      *)
(* chunk with NULLs and repeated rows, rows with several questions, packs  *)
(* that are answered in any order by the pool's workers, the publication   *)
(* of what this call owns before it waits for what it follows, and a       *)
(* result for every row.                                                   *)
(*                                                                         *)
(* JevQuery composes such calls with other evaluators; here another        *)
(* evaluator is the choice whether a key is already claimed, and its       *)
(* answer.  The network, a value that is not valid, the bounds in bytes    *)
(* (see Packing) and the query's budgets are failures that may happen      *)
(* where the code looks.                                                   *)
(***************************************************************************)
EXTENDS Integers, FiniteSets, SequencesExt

CONSTANTS
  Keys, Null, Models,
  Input,          \* the canonical key of each row, or Null
  Questions,      \* by key: how many questions
  BatchSize,      \* jev_batch_size
  MaxFaults       \* bounds the model, not the code

Places == DOMAIN Input

ASSUME ChunkAssumption ==
  /\ Null \notin Keys /\ Null \notin Models
  /\ Input \in Seq(Keys \cup {Null})
  /\ Questions \in [Keys -> Nat \ {0}]
  /\ BatchSize \in Nat \ {0} /\ MaxFaults \in Nat

VARIABLES
  phase,
  at,             \* rows of the chunk looked at
  rows,           \* the distinct rows: [key, cached, answers, model]
  mapping,        \* by place: its row in rows, 0 for none
  hit,
  row, asked,     \* the row of rows the loop is at, its questions packed
  packs,          \* sequences of <<row, question>>; the last may be open
  jobs,           \* the packs submitted: [state, next, model]
  stopped, error,
  cancelled,
  published,      \* rows whose flight was completed
  out,            \* the results
  hits,           \* what the call added to metrics.cache_hits
  faults

scanVars  == <<at, mapping, hit>>
packVars  == <<asked, packs>>
flags     == <<stopped, error>>
endVars   == <<published, out, hits>>
chunkVars == <<phase, scanVars, rows, row, packVars, jobs, flags, cancelled, endVars, faults>>

Key(r) == Input[r]
Fault  == faults < MaxFaults /\ faults' = faults + 1

-----------------------------------------------------------------------------
(* Looking at the chunk *)

(* mutant: a repeated row takes the row before it *)
RowBefore(i) == Len(rows)

FoundRow(i) == i

NewRow == Len(rows) + 1

NullHit == FALSE

Scan ==
  LET r   == at + 1
      new == Key(r) # Null /\ \A i \in DOMAIN rows : rows[i].key # Key(r)
  IN  /\ phase = "scan" /\ at < Len(Input) /\ ~cancelled
      /\ at' = r
      /\ \/ /\ Key(r) = Null
            /\ hit' = [hit EXCEPT ![r] = NullHit]
            /\ UNCHANGED <<rows, mapping>>
         \/ /\ \E i \in DOMAIN rows : rows[i].key = Key(r) /\ mapping' = [mapping EXCEPT ![r] = FoundRow(i)]
            /\ hit' = [hit EXCEPT ![r] = TRUE]
            /\ UNCHANGED rows
         \/ /\ new
            /\ mapping' = [mapping EXCEPT ![r] = NewRow]
            /\ \E claimed \in BOOLEAN :      \* by another evaluator, or answered before
                 /\ rows' = Append(rows, [key |-> Key(r), cached |-> claimed, answers |-> {}, model |-> Null])
                 /\ hit' = [hit EXCEPT ![r] = claimed]
      /\ UNCHANGED <<phase, row, packVars, jobs, flags, cancelled, endVars, faults>>

ScanEnd ==
  /\ phase = "scan" /\ at = Len(Input)
  /\ phase' = IF rows = <<>> THEN "return" ELSE "pack"
  /\ UNCHANGED <<scanVars, rows, row, packVars, jobs, flags, cancelled, endVars, faults>>

-----------------------------------------------------------------------------
(* Packs *)

Fits == packs # <<>> /\ Len(Last(packs)) < BatchSize

(* Where a pack is cut for its bytes is any choice: see Packing. *)
Pack ==
  LET question == <<row, asked + 1>>
  IN  /\ phase = "pack" /\ row <= Len(rows) /\ ~cancelled
      /\ ~rows[row].cached /\ asked < Questions[rows[row].key]
      /\ \/ Fits /\ packs' = [packs EXCEPT ![Len(packs)] = Append(@, question)]
         \/ packs' = Append(packs, <<question>>)
      /\ asked' = asked + 1
      /\ UNCHANGED <<phase, scanVars, rows, row, jobs, flags, cancelled, endVars, faults>>

PackNext ==
  /\ phase = "pack" /\ row <= Len(rows)
  /\ rows[row].cached \/ asked = Questions[rows[row].key]
  /\ row' = row + 1 /\ asked' = 0
  /\ UNCHANGED <<phase, scanVars, rows, packs, jobs, flags, cancelled, endVars, faults>>

(* The questions are reserved. *)
Reserve ==
  /\ phase = "pack" /\ row > Len(rows)
  /\ phase' = "submit"
  /\ UNCHANGED <<scanVars, rows, row, packVars, jobs, flags, cancelled, endVars, faults>>

Submit ==
  /\ phase = "submit" /\ Len(jobs) < Len(packs) /\ ~stopped
  /\ jobs' = Append(jobs, [state |-> "queued", next |-> 1, model |-> Null])
  /\ UNCHANGED <<phase, scanVars, rows, row, packVars, flags, cancelled, endVars, faults>>

SubmitEnd ==
  /\ phase = "submit" /\ (Len(jobs) = Len(packs) \/ stopped)
  /\ phase' = "join"
  /\ UNCHANGED <<scanVars, rows, row, packVars, jobs, flags, cancelled, endVars, faults>>

-----------------------------------------------------------------------------
(* process, run by the pool's workers *)

SetJob(j, job)   == jobs' = [jobs EXCEPT ![j] = job]
JobIs(j, state)  == [jobs[j] EXCEPT !.state = state]
SetRow(i, qs, m) == rows' = [rows EXCEPT ![i] = [rows[i] EXCEPT !.answers = qs, !.model = m]]
Locked           == \E j \in DOMAIN jobs : jobs[j].state = "reading"   \* results_mutex

JobStart(j) ==
  /\ jobs[j].state = "queued"
  /\ SetJob(j, JobIs(j, IF stopped \/ cancelled THEN "done" ELSE "calling"))
  /\ UNCHANGED <<phase, scanVars, rows, row, packVars, flags, cancelled, endVars, faults>>

JobAnswered(j, m) ==
  /\ jobs[j].state = "calling" /\ ~Locked
  /\ SetJob(j, [jobs[j] EXCEPT !.state = "reading", !.model = m])
  /\ UNCHANGED <<phase, scanVars, rows, row, packVars, flags, cancelled, endVars, faults>>

JobAnswer(j) ==
  LET job == jobs[j]
      i   == packs[j][job.next][1]
      q   == packs[j][job.next][2]
      one == rows[i].model \in {Null, job.model}
  IN  /\ job.state = "reading"
      /\ SetRow(i, rows[i].answers \cup {q}, IF one THEN job.model ELSE rows[i].model)
      /\ SetJob(j, IF ~one THEN JobIs(j, "failing")
                   ELSE IF job.next = Len(packs[j]) THEN JobIs(j, "done")
                   ELSE [job EXCEPT !.next = @ + 1])
      /\ UNCHANGED <<phase, scanVars, row, packVars, flags, cancelled, endVars, faults>>

(* The call fails, also because it was stopped or cancelled, or an answer  *)
(* is not valid.                                                           *)
JobFails(j) ==
  /\ \/ jobs[j].state = "calling" /\ (((stopped \/ cancelled) /\ UNCHANGED faults) \/ Fault)
     \/ jobs[j].state = "reading" /\ Fault
  /\ SetJob(j, JobIs(j, "failing"))
  /\ UNCHANGED <<phase, scanVars, rows, row, packVars, flags, cancelled, endVars>>

JobStop(j) ==
  /\ jobs[j].state = "failing"
  /\ SetJob(j, JobIs(j, "stopping"))
  /\ stopped' = TRUE
  /\ UNCHANGED <<phase, scanVars, rows, row, packVars, error, cancelled, endVars, faults>>

JobError(j) ==
  /\ jobs[j].state = "stopping" /\ ~Locked
  /\ SetJob(j, JobIs(j, "done"))
  /\ error' = TRUE
  /\ UNCHANGED <<phase, scanVars, rows, row, packVars, stopped, cancelled, endVars, faults>>

-----------------------------------------------------------------------------
(* Results *)

Joined == \A j \in DOMAIN jobs : jobs[j].state = "done"

(* mutant: a cancellation is left to the jobs *)
ErrorOnly == error

Failed == cancelled \/ error

Join ==
  /\ phase = "join" /\ Joined
  /\ phase' = IF Failed THEN "failed" ELSE "publish"
  /\ row' = 1
  /\ UNCHANGED <<scanVars, rows, packVars, jobs, flags, cancelled, endVars, faults>>

Publish ==
  /\ phase = "publish"
  /\ IF row > Len(rows)
       THEN phase' = "await" /\ row' = 1 /\ UNCHANGED published
       ELSE /\ published' = IF rows[row].cached THEN published ELSE published \cup {row}
            /\ row' = row + 1
            /\ UNCHANGED phase
  /\ UNCHANGED <<scanVars, rows, packVars, jobs, flags, cancelled, out, hits, faults>>

(* A claimed row gets what its owner published. *)
Await ==
  /\ phase = "await" /\ row <= Len(rows)
  /\ IF rows[row].cached
       THEN \E m \in Models : SetRow(row, 1 .. Questions[rows[row].key], m)
       ELSE UNCHANGED rows
  /\ row' = row + 1
  /\ UNCHANGED <<phase, scanVars, packVars, jobs, flags, cancelled, endVars, faults>>

AwaitEnd ==
  /\ phase = "await" /\ row > Len(rows)
  /\ phase' = "return"
  /\ UNCHANGED <<scanVars, rows, row, packVars, jobs, flags, cancelled, endVars, faults>>

Result(r) ==
  IF mapping[r] = 0 THEN Null
  ELSE LET x == rows[mapping[r]] IN [key |-> x.key, answers |-> x.answers, model |-> x.model]

Return ==
  /\ phase = "return" /\ Len(out) < Len(Input)
  /\ out' = Append(out, Result(Len(out) + 1))
  /\ UNCHANGED <<phase, scanVars, rows, row, packVars, jobs, flags, cancelled, published, hits, faults>>

ReturnEnd ==
  /\ phase = "return" /\ Len(out) = Len(Input)
  /\ phase' = "done"
  /\ hits' = Cardinality({ r \in Places : hit[r] })
  /\ UNCHANGED <<scanVars, rows, row, packVars, jobs, flags, cancelled, published, out, faults>>

(***************************************************************************)
(* A call throws: for a bad value, a bound, the budget, a cancellation or  *)
(* a flight that was broken.  What was submitted is joined first.          *)
(***************************************************************************)
Looks ==
  \/ phase = "scan" /\ at < Len(Input)
  \/ phase = "pack" /\ row <= Len(rows) /\ ~rows[row].cached /\ asked < Questions[rows[row].key]
  \/ phase = "submit" /\ Len(jobs) < Len(packs) /\ ~stopped
  \/ phase = "await" /\ row <= Len(rows) /\ rows[row].cached

Reserving == phase = "pack" /\ row > Len(rows)

Throws ==
  /\ \/ Looks /\ cancelled /\ UNCHANGED faults
     \/ (Looks \/ Reserving) /\ Fault
  /\ phase' = IF phase = "submit" THEN "unwind" ELSE "failed"
  /\ stopped' = IF phase = "submit" THEN TRUE ELSE stopped
  /\ UNCHANGED <<scanVars, rows, row, packVars, jobs, error, cancelled, endVars>>

Unwind ==
  /\ phase = "unwind" /\ Joined
  /\ phase' = "failed"
  /\ UNCHANGED <<scanVars, rows, row, packVars, jobs, flags, cancelled, endVars, faults>>

Cancel ==
  /\ ~cancelled /\ phase \notin {"done", "failed"}
  /\ cancelled' = TRUE
  /\ UNCHANGED <<phase, scanVars, rows, row, packVars, jobs, flags, endVars, faults>>

-----------------------------------------------------------------------------
Init ==
  /\ phase = "scan" /\ at = 0 /\ rows = <<>>
  /\ mapping = [r \in Places |-> 0] /\ hit = [r \in Places |-> FALSE]
  /\ row = 1 /\ asked = 0 /\ packs = <<>> /\ jobs = <<>>
  /\ stopped = FALSE /\ error = FALSE /\ cancelled = FALSE
  /\ published = {} /\ out = <<>> /\ hits = 0 /\ faults = 0

Thread == \/ Scan \/ ScanEnd \/ Pack \/ PackNext \/ Reserve \/ Submit \/ SubmitEnd
          \/ Join \/ Publish \/ Await \/ AwaitEnd \/ Return \/ ReturnEnd \/ Unwind

Job(j) == \/ JobStart(j) \/ JobAnswer(j) \/ JobFails(j) \/ JobStop(j) \/ JobError(j)
          \/ \E m \in Models : JobAnswered(j, m)

Next == Thread \/ Throws \/ (\E j \in DOMAIN jobs : Job(j)) \/ Cancel

Spec == Init /\ [][Next]_chunkVars

-----------------------------------------------------------------------------
(* Properties *)

Phases    == {"scan", "pack", "submit", "join", "publish", "await", "return", "unwind", "done", "failed"}
JobStates == {"queued", "calling", "reading", "failing", "stopping", "done"}

(* Type invariant. *)
TypeOK ==
  /\ phase \in Phases /\ at \in 0 .. Len(Input)
  /\ rows \in Seq([key : Keys, cached : BOOLEAN, answers : SUBSET Nat, model : Models \cup {Null}])
  /\ mapping \in [Places -> 0 .. Len(rows)] /\ hit \in [Places -> BOOLEAN]
  /\ row \in Nat /\ asked \in Nat
  /\ packs \in Seq(Seq(Nat \X Nat))
  /\ jobs \in Seq([state : JobStates, next : Nat, model : Models \cup {Null}])
  /\ stopped \in BOOLEAN /\ error \in BOOLEAN /\ cancelled \in BOOLEAN
  /\ published \subseteq Nat /\ hits \in Nat /\ faults \in 0 .. MaxFaults
  /\ out \in Seq({Null} \cup [key : Keys, answers : SUBSET Nat, model : Models \cup {Null}])

(***************************************************************************)
(* A scalar function promises what a stream does: row by row the complete  *)
(* judgment of its own evidence and questions, by one model, whoever asked *)
(* (jev_extension.cpp:962-983, 1063-1077, 1112-1128).                      *)
(***************************************************************************)
Caller == INSTANCE Judged

ImplementsJudged == Caller!Spec

(***************************************************************************)
(* What other evaluators are given is complete, although jobs may return   *)
(* without a word when the query is cancelled, and a pack may never have   *)
(* been submitted (jev_extension.cpp:1052, 1090, 1101-1116).               *)
(***************************************************************************)
PublishedComplete ==
  \A i \in published : rows[i].answers = 1 .. Questions[rows[i].key] /\ rows[i].model \in Models
================================================================================
