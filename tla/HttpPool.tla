------------------------------- MODULE HttpPool -------------------------------
(***************************************************************************)
(* The process-wide HttpPool and Gate of src/jev_extension.cpp.  A fixed   *)
(* set of workers waits on the condition variable `ready`, takes the first *)
(* queued task whose connection is below its concurrency, and runs it;     *)
(* Request passes the Gate, a second ceiling on calls in progress.         *)
(*                                                                         *)
(* A worker's steps are split where it does not hold the pool's mutex: the *)
(* task itself, the decrement of running, and the notify_all after it.     *)
(***************************************************************************)
EXTENDS Integers, Sequences, FiniteSets, SequencesExt

CONSTANTS
  Workers,      \* the pool's threads
  Contexts,     \* connections (ClientContext *)
  Tasks,        \* packed requests that get submitted, each once
  Ctx,          \* the connection of a task
  Limit,        \* jev_concurrency of a connection
  GLOBAL_LIMIT, \* 10
  MaxQueue,     \* 128
  NoTask

ASSUME PoolAssumption ==
  /\ IsFiniteSet(Workers)
  /\ Ctx \in [Tasks -> Contexts]
  /\ Limit \in [Contexts -> Nat \ {0}]
  /\ MaxQueue \in Nat \ {0}
  /\ NoTask \notin Tasks
  (* the constructor starts GLOBAL_LIMIT workers *)
  /\ GLOBAL_LIMIT = Cardinality(Workers)

VARIABLES
  tasks,         \* the queue
  running,       \* tasks taken and not yet accounted as finished, by connection
  closing,       \* set by Stop
  active_calls,  \* calls inside the Gate
  query_calls,   \* the same by connection (an absent entry is a zero)
  pc,            \* where each worker is
  task,          \* what it runs
  status,        \* what became of each task
  interrupted,   \* ClientContext::IsInterrupted, which stays set for the query
  stopping       \* where the thread that calls Stop is

poolVars == <<tasks, running, closing>>
gateVars == <<active_calls, query_calls>>
vars == <<poolVars, gateVars, pc, task, status, interrupted, stopping>>

-----------------------------------------------------------------------------
(* mutant: only the head of the queue is considered *)
RunnableHead(i) == i = 1 /\ tasks # <<>> /\ running[Ctx[tasks[i]]] < Limit[Ctx[tasks[i]]]
(* mutant: a connection may have one more task than its limit *)
RunnableOneMore(i) == i \in DOMAIN tasks /\ running[Ctx[tasks[i]]] <= Limit[Ctx[tasks[i]]]

CanRun(i) == i \in DOMAIN tasks /\ running[Ctx[tasks[i]]] < Limit[Ctx[tasks[i]]]

(* mutant: the newest task first *)
RunnableLast(i) == CanRun(i) /\ \A j \in DOMAIN tasks : j > i => ~CanRun(j)

(* Runnable() returns i: the first task whose connection has room. *)
Runnable(i) == CanRun(i) /\ \A j \in 1 .. i - 1 : ~CanRun(j)

(* mutant: nobody is woken *)
WakeNobody(awake) == pc' = awake

(* ready.notify_all: every sleeper wakes and looks at the queue again.  The  *)
(* argument is pc as the caller leaves it.                                   *)
NotifyAll(awake) == pc' = [w \in Workers |-> IF awake[w] = "asleep" THEN "awake" ELSE awake[w]]

(***************************************************************************)
(* A worker that holds the mutex: it leaves, takes a task, or sleeps.      *)
(***************************************************************************)
Exit(w) ==
  /\ pc[w] = "awake"
  /\ closing /\ tasks = <<>>
  /\ pc' = [pc EXCEPT ![w] = "exited"]
  /\ UNCHANGED <<poolVars, gateVars, task, status, interrupted, stopping>>

Take(w, i) ==
  /\ pc[w] = "awake"
  /\ Runnable(i)
  /\ task' = [task EXCEPT ![w] = tasks[i]]
  /\ tasks' = RemoveAt(tasks, i)
  /\ running' = [running EXCEPT ![Ctx[tasks[i]]] = @ + 1]
  /\ status' = [status EXCEPT ![tasks[i]] = "taken"]
  /\ pc' = [pc EXCEPT ![w] = "call"]
  /\ UNCHANGED <<closing, gateVars, interrupted, stopping>>

Sleep(w) ==
  /\ pc[w] = "awake"
  /\ ~(closing /\ tasks = <<>>)
  /\ \A i \in DOMAIN tasks : ~Runnable(i)
  /\ pc' = [pc EXCEPT ![w] = "asleep"]
  /\ UNCHANGED <<poolVars, gateVars, task, status, interrupted, stopping>>

(* A condition variable may wake for no reason. *)
SpuriousWake(w) ==
  /\ pc[w] = "asleep"
  /\ pc' = [pc EXCEPT ![w] = "awake"]
  /\ UNCHANGED <<poolVars, gateVars, task, status, interrupted, stopping>>

(***************************************************************************)
(* The task: Request's Gate, then the call with its retries.  The task may *)
(* also end before the Gate: its evaluator stopped, or the Gate threw on a *)
(* cancelled query.  The packaged_task makes the future ready when it ends,*)
(* while the task is still counted as running.                             *)
(***************************************************************************)
Finish(w) == /\ status' = [status EXCEPT ![task[w]] = "done"]
             /\ pc' = [pc EXCEPT ![w] = "finished"]

GateOpen(w) == /\ active_calls < GLOBAL_LIMIT
               /\ query_calls[Ctx[task[w]]] < Limit[Ctx[task[w]]]

EnterGate(w) ==
  /\ pc[w] = "call"
  /\ GateOpen(w)
  /\ ~interrupted[Ctx[task[w]]]
  /\ active_calls' = active_calls + 1
  /\ query_calls' = [query_calls EXCEPT ![Ctx[task[w]]] = @ + 1]
  /\ pc' = [pc EXCEPT ![w] = "gated"]
  /\ UNCHANGED <<poolVars, task, status, interrupted, stopping>>

ReleaseGate(w) == /\ active_calls' = active_calls - 1
                  /\ query_calls' = [query_calls EXCEPT ![Ctx[task[w]]] = @ - 1]

ReleaseUnheld(w) == UNCHANGED gateVars

SkipCall(w) ==
  /\ pc[w] = "call"
  /\ ReleaseUnheld(w)
  /\ Finish(w)
  /\ UNCHANGED <<poolVars, task, interrupted, stopping>>

LeaveGate(w) ==
  /\ pc[w] = "gated"
  /\ ReleaseGate(w)
  /\ Finish(w)
  /\ UNCHANGED <<poolVars, task, interrupted, stopping>>

Account(w) ==
  /\ pc[w] = "finished"
  /\ running' = [running EXCEPT ![Ctx[task[w]]] = @ - 1]
  /\ task' = [task EXCEPT ![w] = NoTask]
  /\ pc' = [pc EXCEPT ![w] = "notify"]
  /\ UNCHANGED <<tasks, closing, gateVars, status, interrupted, stopping>>

(* mutant: the worker goes on to the next task without a word *)
NotifyNot(w) ==
  /\ pc[w] = "notify"
  /\ pc' = [pc EXCEPT ![w] = "awake"]
  /\ UNCHANGED <<poolVars, gateVars, task, status, interrupted, stopping>>

Notify(w) ==
  /\ pc[w] = "notify"
  /\ NotifyAll([pc EXCEPT ![w] = "awake"])
  /\ UNCHANGED <<poolVars, gateVars, task, status, interrupted, stopping>>

(***************************************************************************)
(* Submit waits for room in the queue, looking every 20 ms whether the     *)
(* query was cancelled.  Nothing is submitted once the pool is destroyed.  *)
(***************************************************************************)
Submit(t) ==
  /\ status[t] = "new"
  /\ ~closing
  /\ Len(tasks) < MaxQueue
  /\ tasks' = Append(tasks, t)
  /\ status' = [status EXCEPT ![t] = "queued"]
  /\ NotifyAll(pc)
  /\ UNCHANGED <<running, closing, gateVars, task, interrupted, stopping>>

Refuse(t) ==
  /\ status[t] = "new"
  /\ ~closing
  /\ Len(tasks) >= MaxQueue
  /\ interrupted[Ctx[t]]
  /\ status' = [status EXCEPT ![t] = "refused"]
  /\ UNCHANGED <<poolVars, gateVars, pc, task, interrupted, stopping>>

Interrupt(c) ==
  /\ ~interrupted[c]
  /\ interrupted' = [interrupted EXCEPT ![c] = TRUE]
  /\ UNCHANGED <<poolVars, gateVars, pc, task, status, stopping>>

(* Stop, run by ~HttpPool: closing under the mutex, notify_all, the joins. *)
Close ==
  /\ stopping = "no"
  /\ closing' = TRUE
  /\ stopping' = "closing"
  /\ UNCHANGED <<tasks, running, gateVars, pc, task, status, interrupted>>

NotifyClosing ==
  /\ stopping = "closing"
  /\ NotifyAll(pc)
  /\ stopping' = "joining"
  /\ UNCHANGED <<poolVars, gateVars, task, status, interrupted>>

Join ==
  /\ stopping = "joining"
  /\ \A w \in Workers : pc[w] = "exited"
  /\ stopping' = "stopped"
  /\ UNCHANGED <<poolVars, gateVars, pc, task, status, interrupted>>

-----------------------------------------------------------------------------
Init ==
  /\ tasks = <<>>
  /\ running = [c \in Contexts |-> 0]
  /\ closing = FALSE
  /\ active_calls = 0
  /\ query_calls = [c \in Contexts |-> 0]
  /\ pc = [w \in Workers |-> "awake"]
  /\ task = [w \in Workers |-> NoTask]
  /\ status = [t \in Tasks |-> "new"]
  /\ interrupted = [c \in Contexts |-> FALSE]
  /\ stopping = "no"

(* What a worker does of itself; a call ends, by its timeout if need be.   *)
WorkerStep(w) ==
  \/ Exit(w) \/ Sleep(w) \/ Account(w) \/ Notify(w)
  \/ \E i \in 1 .. MaxQueue : Take(w, i)
  \/ EnterGate(w) \/ SkipCall(w) \/ LeaveGate(w)

Next ==
  \/ \E w \in Workers : WorkerStep(w) \/ SpuriousWake(w)
  \/ \E t \in Tasks : Submit(t) \/ Refuse(t)
  \/ \E c \in Contexts : Interrupt(c)
  \/ Close \/ NotifyClosing \/ Join

Spec == Init /\ [][Next]_vars

FairSpec == /\ Spec
            /\ \A w \in Workers : WF_vars(WorkerStep(w))
            /\ WF_vars(NotifyClosing) /\ WF_vars(Join)

-----------------------------------------------------------------------------
(* Properties *)

WorkerPc == {"awake", "asleep", "call", "gated", "finished", "notify", "exited"}

(* Type invariant. *)
TypeOK ==
  /\ tasks \in Seq(Tasks)
  /\ running \in [Contexts -> Nat]
  /\ closing \in BOOLEAN
  /\ active_calls \in Nat
  /\ query_calls \in [Contexts -> Nat]
  /\ pc \in [Workers -> WorkerPc]
  /\ task \in [Workers -> Tasks \cup {NoTask}]
  /\ \A w \in Workers : pc[w] \in {"call", "gated", "finished"} => task[w] \in Tasks
  /\ status \in [Tasks -> {"new", "queued", "taken", "done", "refused"}]
  /\ interrupted \in [Contexts -> BOOLEAN]
  /\ stopping \in {"no", "closing", "joining", "stopped"}

Busy(c)  == { w \in Workers : /\ pc[w] \in {"call", "gated", "finished"}
                              /\ Ctx[task[w]] = c }
Gated    == { w \in Workers : pc[w] = "gated" }
GatedOf(c) == { w \in Gated : Ctx[task[w]] = c }

(***************************************************************************)
(* Exact accounting (worker loop, Gate): running, active_calls and         *)
(* query_calls are the numbers of workers they stand for, after cancelled  *)
(* calls and calls that never reached the Gate too.                        *)
(***************************************************************************)
AccountingExact ==
  /\ \A c \in Contexts : running[c] = Cardinality(Busy(c))
  /\ active_calls = Cardinality(Gated)
  /\ \A c \in Contexts : query_calls[c] = Cardinality(GatedOf(c))

(* The two ceilings (Runnable, Gate): no connection ever runs more tasks   *)
(* than its jev_concurrency, and the process never more than GLOBAL_LIMIT. *)
WithinLimits ==
  /\ \A c \in Contexts : Cardinality(Busy(c)) <= Limit[c]
  /\ Cardinality(Gated) <= GLOBAL_LIMIT

(***************************************************************************)
(* Admission covers the Gate (Runnable, Gate): a worker that comes to the  *)
(* Gate finds it open, so the Gate never blocks one of the few workers     *)
(* while tasks of other connections are queued.                            *)
(***************************************************************************)
GateNeverWaits == \A w \in Workers : pc[w] = "call" => GateOpen(w)

(***************************************************************************)
(* No lost wakeup (ready.wait, Submit, the decrement and the notify_all    *)
(* outside the mutex): while some queued task could run and a worker       *)
(* sleeps, another worker is about to look at the queue or to wake all.    *)
(***************************************************************************)
WorkConserving ==
  /\ \E i \in DOMAIN tasks : Cardinality(Busy(Ctx[tasks[i]])) < Limit[Ctx[tasks[i]]]
  /\ \E w \in Workers : pc[w] = "asleep"
  => \E w \in Workers : pc[w] \in {"awake", "notify"}

(***************************************************************************)
(* In order (Runnable takes the first): of two queued tasks of one         *)
(* connection the older is started first, so that the job jev_stream waits *)
(* for next is never overtaken by its later ones.                          *)
(***************************************************************************)
InOrder ==
  [][\A i, j \in DOMAIN tasks :
       i < j /\ Ctx[tasks[i]] = Ctx[tasks[j]] /\ status'[tasks[j]] = "taken"
         => status'[tasks[i]] = "taken"]_vars

(* Service (the whole loop): a queued task gets to run and its future      *)
(* becomes ready, even when the pool is being closed.                      *)
EveryTaskRuns == \A t \in Tasks : status[t] = "queued" ~> status[t] = "done"

(* Shutdown (Stop): once closing is set, the queue is drained and every    *)
(* worker leaves, so that the joins return.                                *)
ShutdownCompletes == closing ~> stopping = "stopped"
=============================================================================
