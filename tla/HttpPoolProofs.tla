---------------------------- MODULE HttpPoolProofs ----------------------------
(* Theorems of HttpPool, for every value of its constants. *)
EXTENDS HttpPool, FiniteSetTheorems, SequenceTheorems, TLAPS

(* The inductive invariant: the counters are exact, and the pool admits no   *)
(* more than a connection's limit.                                           *)
PoolInv == /\ TypeOK
           /\ AccountingExact
           /\ \A c \in Contexts : running[c] <= Limit[c]

-----------------------------------------------------------------------------
(* Lemmas *)

LEMMA RemoveAtType ==
  ASSUME NEW s \in Seq(Tasks), NEW i \in DOMAIN s
  PROVE  RemoveAt(s, i) \in Seq(Tasks)
<1>1. i \in 1 .. Len(s)
  OBVIOUS
<1>2. \A j \in 1 .. i - 1 : s[j] \in Tasks
  BY <1>1
<1>3. SubSeq(s, 1, i - 1) \in Seq(Tasks)
  BY <1>1, <1>2, SubSeqProperties
<1>4. \A j \in i + 1 .. Len(s) : s[j] \in Tasks
  BY <1>1
<1>5. SubSeq(s, i + 1, Len(s)) \in Seq(Tasks)
  BY <1>1, <1>4, SubSeqProperties
<1> QED  BY <1>3, <1>5 DEF RemoveAt

LEMMA SetsFinite ==
  /\ \A c \in Contexts : IsFiniteSet(Busy(c)) /\ Cardinality(Busy(c)) \in Nat
  /\ \A c \in Contexts : IsFiniteSet(GatedOf(c)) /\ Cardinality(GatedOf(c)) \in Nat
  /\ IsFiniteSet(Gated) /\ Cardinality(Gated) \in Nat
<1>1. ASSUME NEW S \in SUBSET Workers PROVE IsFiniteSet(S) /\ Cardinality(S) \in Nat
  BY PoolAssumption, FS_Subset, FS_CardinalityType
<1> QED  BY <1>1 DEF Busy, Gated, GatedOf

(* Moving workers between the other places leaves the counted sets alone. *)
LEMMA IdleMove ==
  ASSUME TypeOK, pc' \in [Workers -> WorkerPc], task' = task, UNCHANGED <<running, gateVars>>,
         AccountingExact,
         \A w \in Workers : \/ pc'[w] = pc[w]
                            \/ {pc[w], pc'[w]} \subseteq {"awake", "asleep", "notify", "exited"}
  PROVE  AccountingExact'
<1>1. Gated' = Gated
  BY DEF Gated
<1>2. \A c \in Contexts : Busy(c)' = Busy(c)
  BY DEF Busy
<1>3. \A c \in Contexts : GatedOf(c)' = GatedOf(c)
  BY <1>1 DEF GatedOf
<1> QED  BY <1>1, <1>2, <1>3 DEF AccountingExact, gateVars

(* One worker moves: what that says of every worker. *)
LEMMA OneMove ==
  ASSUME TypeOK, NEW w \in Workers, NEW p, pc' = [pc EXCEPT ![w] = p]
  PROVE  pc'[w] = p /\ \A v \in Workers \ {w} : pc'[v] = pc[v]
  BY DEF TypeOK

LEMMA PoolInit == Init => PoolInv
<1> SUFFICES ASSUME Init PROVE PoolInv
  OBVIOUS
<1>1. Gated = {} /\ \A c \in Contexts : Busy(c) = {} /\ GatedOf(c) = {}
  BY DEF Init, Gated, Busy, GatedOf
<1>2. AccountingExact
  BY <1>1, FS_EmptySet DEF AccountingExact, Init
<1>3. TypeOK
  <2>1. <<>> \in Seq(Tasks)
    OBVIOUS
  <2>2. /\ running \in [Contexts -> Nat] /\ query_calls \in [Contexts -> Nat]
        /\ interrupted \in [Contexts -> BOOLEAN]
    BY DEF Init
  <2>3. /\ pc \in [Workers -> WorkerPc] /\ task \in [Workers -> Tasks \cup {NoTask}]
        /\ \A w \in Workers : pc[w] = "awake"
    BY DEF Init, WorkerPc
  <2> QED  BY <2>1, <2>2, <2>3 DEF Init, TypeOK
<1>4. \A c \in Contexts : running[c] <= Limit[c]
  <2>1. \A c \in Contexts : running[c] = 0 /\ Limit[c] \in Nat
    BY PoolAssumption DEF Init
  <2> QED  BY <2>1
<1> QED  BY <1>2, <1>3, <1>4 DEF PoolInv

LEMMA PoolNext == PoolInv /\ [Next]_vars => PoolInv'
<1> SUFFICES ASSUME PoolInv, [Next]_vars PROVE PoolInv'
  OBVIOUS
<1> USE DEF poolVars, gateVars
<1>1. ASSUME NEW w \in Workers, Exit(w) \/ Sleep(w) \/ SpuriousWake(w) PROVE PoolInv'
  <2>1. /\ UNCHANGED <<poolVars, gateVars, task, status, interrupted, stopping>>
        /\ \E p \in {"exited", "asleep", "awake"} : pc' = [pc EXCEPT ![w] = p]
        /\ pc[w] \in {"awake", "asleep"}
    BY <1>1 DEF Exit, Sleep, SpuriousWake
  <2>2. TypeOK'
    BY <2>1 DEF PoolInv, TypeOK, WorkerPc
  <2>3. AccountingExact'
    BY <2>1, <2>2, IdleMove DEF PoolInv, TypeOK
  <2> QED  BY <2>1, <2>2, <2>3 DEF PoolInv
<1>2. ASSUME NEW w \in Workers, NEW i \in 1 .. MaxQueue, Take(w, i) PROVE PoolInv'
  <2>0. i \in DOMAIN tasks
    BY <1>2 DEF Take, Runnable, CanRun
  <2>t. PICK t \in Tasks : t = tasks[i]
    BY <2>0 DEF PoolInv, TypeOK
  <2>k. PICK k \in Contexts : k = Ctx[t]
    BY PoolAssumption
  <2>1. i \in DOMAIN tasks /\ running[k] < Limit[k]
    BY <1>2, <2>t, <2>k DEF Take, Runnable, CanRun
  <2>2. t \in Tasks /\ k \in Contexts
    OBVIOUS
  <2>3. /\ pc[w] = "awake" /\ pc' = [pc EXCEPT ![w] = "call"]
        /\ task' = [task EXCEPT ![w] = t]
        /\ tasks' = RemoveAt(tasks, i)
        /\ running' = [running EXCEPT ![k] = running[k] + 1]
        /\ status' = [status EXCEPT ![t] = "taken"]
        /\ UNCHANGED <<closing, gateVars, interrupted, stopping>>
    BY <1>2, <2>t, <2>k DEF Take
  <2>4. tasks' \in Seq(Tasks)
    BY <2>1, <2>3, RemoveAtType DEF PoolInv, TypeOK
  <2>5. TypeOK'
    BY <2>2, <2>3, <2>4 DEF PoolInv, TypeOK, WorkerPc
  <2>a. /\ pc'[w] = "call" /\ task'[w] = t
        /\ \A v \in Workers \ {w} : pc'[v] = pc[v] /\ task'[v] = task[v]
    BY <2>3 DEF PoolInv, TypeOK
  <2>b. Ctx[t] = k
    BY <2>k
  <2>6. Gated' = Gated /\ \A c \in Contexts : GatedOf(c)' = GatedOf(c)
    <3>1. Gated' = Gated /\ w \notin Gated
      BY <2>3, <2>a DEF Gated
    <3>2. \A v \in Gated : task'[v] = task[v]
      BY <3>1, <2>a DEF Gated
    <3> QED  BY <3>1, <3>2 DEF GatedOf
  <2>7. Busy(k)' = Busy(k) \cup {w} /\ w \notin Busy(k)
    BY <2>3, <2>a, <2>b DEF Busy
  <2>8. \A c \in Contexts \ {k} : Busy(c)' = Busy(c)
    BY <2>3, <2>a, <2>b DEF Busy
  <2>9. Cardinality(Busy(k)') = Cardinality(Busy(k)) + 1
    BY <2>2, <2>7, SetsFinite, FS_AddElement
  <2>10. AccountingExact'
    BY <2>2, <2>3, <2>6, <2>8, <2>9 DEF PoolInv, TypeOK, AccountingExact
  <2>c. \A c \in Contexts : running[c] \in Nat /\ Limit[c] \in Nat /\ running[c] <= Limit[c]
    BY PoolAssumption DEF PoolInv, TypeOK
  <2>d. running'[k] = running[k] + 1 /\ \A c \in Contexts \ {k} : running'[c] = running[c]
    BY <2>3 DEF PoolInv, TypeOK
  <2>11. \A c \in Contexts : running'[c] <= Limit[c]
    <3>1. running'[k] <= Limit[k]
      BY <2>1, <2>c, <2>d
    <3> QED  BY <2>c, <2>d, <3>1
  <2> QED  BY <2>5, <2>10, <2>11 DEF PoolInv
<1>3. ASSUME NEW w \in Workers, EnterGate(w) PROVE PoolInv'
  <2>t. pc[w] \in {"call", "gated", "finished"}
    BY <1>3 DEF EnterGate
  <2>k. PICK k \in Contexts : k = Ctx[task[w]]
    BY <2>t, PoolAssumption DEF PoolInv, TypeOK
  <2>1. /\ pc[w] = "call" /\ pc' = [pc EXCEPT ![w] = "gated"]
        /\ active_calls' = active_calls + 1
        /\ query_calls' = [query_calls EXCEPT ![k] = query_calls[k] + 1]
        /\ UNCHANGED <<poolVars, task, status, interrupted, stopping>>
    BY <1>3, <2>k DEF EnterGate
  <2>2. k \in Contexts
    OBVIOUS
  <2>3. TypeOK'
    BY <2>1, <2>2 DEF PoolInv, TypeOK, WorkerPc
  <2>a. pc'[w] = "gated" /\ \A v \in Workers \ {w} : pc'[v] = pc[v]
    BY <2>1, OneMove DEF PoolInv
  <2>4. Gated' = Gated \cup {w} /\ w \notin Gated
    BY <2>1, <2>a DEF Gated
  <2>5. GatedOf(k)' = GatedOf(k) \cup {w} /\ w \notin GatedOf(k)
    BY <2>1, <2>4, <2>k DEF GatedOf
  <2>6. /\ \A c \in Contexts \ {k} : GatedOf(c)' = GatedOf(c)
        /\ \A c \in Contexts : Busy(c)' = Busy(c)
    BY <2>1, <2>4, <2>a, <2>k DEF GatedOf, Busy
  <2>7. /\ Cardinality(Gated') = Cardinality(Gated) + 1
        /\ Cardinality(GatedOf(k)') = Cardinality(GatedOf(k)) + 1
    BY <2>2, <2>4, <2>5, SetsFinite, FS_AddElement
  <2>8. AccountingExact'
    BY <2>1, <2>2, <2>6, <2>7 DEF PoolInv, TypeOK, AccountingExact
  <2> QED  BY <2>1, <2>3, <2>8 DEF PoolInv
<1>4. ASSUME NEW w \in Workers, SkipCall(w) PROVE PoolInv'
  <2>1. /\ pc[w] = "call" /\ pc' = [pc EXCEPT ![w] = "finished"]
        /\ status' = [status EXCEPT ![task[w]] = "done"]
        /\ UNCHANGED <<poolVars, gateVars, task, interrupted, stopping>>
    BY <1>4 DEF SkipCall, Finish, ReleaseUnheld
  <2>2. TypeOK'
    BY <2>1 DEF PoolInv, TypeOK, WorkerPc
  <2>a. pc'[w] = "finished" /\ \A v \in Workers \ {w} : pc'[v] = pc[v]
    BY <2>1, OneMove DEF PoolInv
  <2>3. Gated' = Gated /\ \A c \in Contexts : GatedOf(c)' = GatedOf(c) /\ Busy(c)' = Busy(c)
    BY <2>1, <2>a DEF Gated, GatedOf, Busy
  <2>4. AccountingExact'
    BY <2>1, <2>3 DEF PoolInv, AccountingExact
  <2> QED  BY <2>1, <2>2, <2>4 DEF PoolInv
<1>5. ASSUME NEW w \in Workers, LeaveGate(w) PROVE PoolInv'
  <2>t. pc[w] \in {"call", "gated", "finished"}
    BY <1>5 DEF LeaveGate
  <2>k. PICK k \in Contexts : k = Ctx[task[w]]
    BY <2>t, PoolAssumption DEF PoolInv, TypeOK
  <2>1. /\ pc[w] = "gated" /\ pc' = [pc EXCEPT ![w] = "finished"]
        /\ active_calls' = active_calls - 1
        /\ query_calls' = [query_calls EXCEPT ![k] = query_calls[k] - 1]
        /\ status' = [status EXCEPT ![task[w]] = "done"]
        /\ UNCHANGED <<poolVars, task, interrupted, stopping>>
    BY <1>5, <2>k DEF LeaveGate, ReleaseGate, Finish
  <2>2. k \in Contexts
    OBVIOUS
  <2>a. pc'[w] = "finished" /\ \A v \in Workers \ {w} : pc'[v] = pc[v]
    BY <2>1, OneMove DEF PoolInv
  <2>3. Gated' = Gated \ {w} /\ w \in Gated
    BY <2>1, <2>a DEF Gated
  <2>4. GatedOf(k)' = GatedOf(k) \ {w} /\ w \in GatedOf(k)
    BY <2>1, <2>3, <2>k DEF GatedOf
  <2>5. /\ \A c \in Contexts \ {k} : GatedOf(c)' = GatedOf(c)
        /\ \A c \in Contexts : Busy(c)' = Busy(c)
    BY <2>1, <2>3, <2>a, <2>k DEF GatedOf, Busy
  <2>6. /\ Cardinality(Gated') = Cardinality(Gated) - 1
        /\ Cardinality(GatedOf(k)') = Cardinality(GatedOf(k)) - 1
    BY <2>2, <2>3, <2>4, SetsFinite, FS_RemoveElement
  <2>7. AccountingExact'
    BY <2>1, <2>2, <2>5, <2>6 DEF PoolInv, TypeOK, AccountingExact
  <2>8. active_calls' \in Nat /\ query_calls' \in [Contexts -> Nat]
    <3>1. Cardinality(Gated') \in Nat /\ \A c \in Contexts : Cardinality(GatedOf(c)') \in Nat
      <4>1. ASSUME NEW S \in SUBSET Workers PROVE Cardinality(S) \in Nat
        BY PoolAssumption, FS_Subset, FS_CardinalityType
      <4> QED  BY <4>1 DEF Gated, GatedOf
    <3>2. query_calls' \in [Contexts -> Int]
      BY <2>1, <2>2 DEF PoolInv, TypeOK
    <3> QED  BY <2>7, <3>1, <3>2 DEF AccountingExact
  <2>9. TypeOK'
    BY <2>1, <2>8 DEF PoolInv, TypeOK, WorkerPc
  <2> QED  BY <2>1, <2>7, <2>9 DEF PoolInv
<1>6. ASSUME NEW w \in Workers, Account(w) PROVE PoolInv'
  <2>t. pc[w] \in {"call", "gated", "finished"}
    BY <1>6 DEF Account
  <2>k. PICK k \in Contexts : k = Ctx[task[w]]
    BY <2>t, PoolAssumption DEF PoolInv, TypeOK
  <2>1. /\ pc[w] = "finished" /\ pc' = [pc EXCEPT ![w] = "notify"]
        /\ running' = [running EXCEPT ![k] = running[k] - 1]
        /\ task' = [task EXCEPT ![w] = NoTask]
        /\ UNCHANGED <<tasks, closing, gateVars, status, interrupted, stopping>>
    BY <1>6, <2>k DEF Account
  <2>2. k \in Contexts
    OBVIOUS
  <2>a. /\ pc'[w] = "notify"
        /\ \A v \in Workers \ {w} : pc'[v] = pc[v] /\ task'[v] = task[v]
    BY <2>1 DEF PoolInv, TypeOK
  <2>3. Gated' = Gated /\ \A c \in Contexts : GatedOf(c)' = GatedOf(c)
    <3>1. Gated' = Gated /\ w \notin Gated
      BY <2>1, <2>a DEF Gated
    <3>2. \A v \in Gated : task'[v] = task[v]
      BY <3>1, <2>a DEF Gated
    <3> QED  BY <3>1, <3>2 DEF GatedOf
  <2>4. Busy(k)' = Busy(k) \ {w} /\ w \in Busy(k)
    BY <2>1, <2>a, <2>k DEF Busy
  <2>5. \A c \in Contexts \ {k} : Busy(c)' = Busy(c)
    BY <2>1, <2>a, <2>k DEF Busy
  <2>6. Cardinality(Busy(k)') = Cardinality(Busy(k)) - 1
    BY <2>2, <2>4, SetsFinite, FS_RemoveElement
  <2>7. AccountingExact'
    BY <2>1, <2>2, <2>3, <2>5, <2>6 DEF PoolInv, TypeOK, AccountingExact
  <2>8. running' \in [Contexts -> Nat]
    <3>1. \A c \in Contexts : Cardinality(Busy(c)') \in Nat
      <4>1. ASSUME NEW S \in SUBSET Workers PROVE Cardinality(S) \in Nat
        BY PoolAssumption, FS_Subset, FS_CardinalityType
      <4> QED  BY <4>1 DEF Busy
    <3>2. running' \in [Contexts -> Int]
      BY <2>1, <2>2 DEF PoolInv, TypeOK
    <3> QED  BY <2>7, <3>1, <3>2 DEF AccountingExact
  <2>9. TypeOK'
    BY <2>1, <2>8 DEF PoolInv, TypeOK, WorkerPc
  <2>c. \A c \in Contexts : running[c] \in Nat /\ Limit[c] \in Nat /\ running[c] <= Limit[c]
    BY PoolAssumption DEF PoolInv, TypeOK
  <2>d. running'[k] = running[k] - 1 /\ \A c \in Contexts \ {k} : running'[c] = running[c]
    BY <2>1 DEF PoolInv, TypeOK
  <2>10. \A c \in Contexts : running'[c] <= Limit[c]
    <3>1. running'[k] <= Limit[k]
      BY <2>c, <2>d
    <3> QED  BY <2>c, <2>d, <3>1
  <2> QED  BY <2>7, <2>9, <2>10 DEF PoolInv
<1>7. ASSUME NEW w \in Workers, Notify(w) PROVE PoolInv'
  <2>1. /\ UNCHANGED <<poolVars, gateVars, task, status, interrupted, stopping>>
        /\ pc[w] = "notify"
        /\ pc' = [v \in Workers |-> IF [pc EXCEPT ![w] = "awake"][v] = "asleep"
                                    THEN "awake" ELSE [pc EXCEPT ![w] = "awake"][v]]
    BY <1>7 DEF Notify, NotifyAll
  <2>2. TypeOK'
    BY <2>1 DEF PoolInv, TypeOK, WorkerPc
  <2>3. \A v \in Workers : \/ pc'[v] = pc[v]
                           \/ {pc[v], pc'[v]} \subseteq {"awake", "asleep", "notify", "exited"}
    BY <2>1 DEF PoolInv, TypeOK
  <2>4. AccountingExact'
    BY <2>1, <2>2, <2>3, IdleMove DEF PoolInv, TypeOK
  <2> QED  BY <2>1, <2>2, <2>4 DEF PoolInv
<1>8. ASSUME NEW t \in Tasks, Submit(t) PROVE PoolInv'
  <2>1. /\ UNCHANGED <<running, closing, gateVars, task, interrupted, stopping>>
        /\ tasks' = Append(tasks, t) /\ status' = [status EXCEPT ![t] = "queued"]
        /\ pc' = [v \in Workers |-> IF pc[v] = "asleep" THEN "awake" ELSE pc[v]]
    BY <1>8 DEF Submit, NotifyAll
  <2>2. TypeOK'
    BY <2>1 DEF PoolInv, TypeOK, WorkerPc
  <2>3. \A v \in Workers : \/ pc'[v] = pc[v]
                           \/ {pc[v], pc'[v]} \subseteq {"awake", "asleep", "notify", "exited"}
    BY <2>1 DEF PoolInv, TypeOK
  <2>4. AccountingExact'
    BY <2>1, <2>2, <2>3, IdleMove DEF PoolInv, TypeOK
  <2> QED  BY <2>1, <2>2, <2>4 DEF PoolInv
<1>9. ASSUME UNCHANGED <<poolVars, gateVars, pc, task>>, TypeOK' PROVE PoolInv'
  BY <1>9, IdleMove DEF PoolInv, TypeOK
<1>10. ASSUME NEW t \in Tasks, Refuse(t) PROVE PoolInv'
  BY <1>9, <1>10 DEF Refuse, PoolInv, TypeOK
<1>11. ASSUME NEW c \in Contexts, Interrupt(c) PROVE PoolInv'
  BY <1>9, <1>11 DEF Interrupt, PoolInv, TypeOK
<1>12. CASE Close
  <2>1. /\ UNCHANGED <<running, gateVars, pc, task>> /\ TypeOK'
    BY <1>12 DEF Close, PoolInv, TypeOK
  <2> QED  BY <2>1, IdleMove DEF PoolInv, TypeOK
<1>13. CASE NotifyClosing
  <2>1. /\ UNCHANGED <<poolVars, gateVars, task, status, interrupted>>
        /\ pc' = [v \in Workers |-> IF pc[v] = "asleep" THEN "awake" ELSE pc[v]]
        /\ stopping' = "joining"
    BY <1>13 DEF NotifyClosing, NotifyAll
  <2>2. TypeOK'
    BY <2>1 DEF PoolInv, TypeOK, WorkerPc
  <2>3. \A v \in Workers : \/ pc'[v] = pc[v]
                           \/ {pc[v], pc'[v]} \subseteq {"awake", "asleep", "notify", "exited"}
    BY <2>1 DEF PoolInv, TypeOK
  <2>4. AccountingExact'
    BY <2>1, <2>2, <2>3, IdleMove DEF PoolInv, TypeOK
  <2> QED  BY <2>1, <2>2, <2>4 DEF PoolInv
<1>14. CASE Join
  BY <1>9, <1>14 DEF Join, PoolInv, TypeOK
<1>15. CASE UNCHANGED vars
  BY <1>9, <1>15 DEF vars, PoolInv, TypeOK
<1> QED
  BY <1>1, <1>2, <1>3, <1>4, <1>5, <1>6, <1>7, <1>8, <1>10, <1>11, <1>12, <1>13, <1>14,
     <1>15 DEF Next, WorkerStep

-----------------------------------------------------------------------------
(* Accounting (worker loop, Gate): the three counters are exact.             *)
THEOREM Accounting == Spec => []AccountingExact
<1>1. PoolInv => AccountingExact
  BY DEF PoolInv
<1> QED  BY <1>1, PoolInit, PoolNext, PTL DEF Spec

(* The ceilings (Runnable, Gate): neither a connection's jev_concurrency nor *)
(* the process-wide limit is ever exceeded.                                  *)
THEOREM Ceilings == Spec => []WithinLimits
<1>1. PoolInv => WithinLimits
  <2> SUFFICES ASSUME PoolInv PROVE WithinLimits
    OBVIOUS
  <2>1. Cardinality(Gated) <= Cardinality(Workers)
    BY PoolAssumption, FS_Subset DEF Gated
  <2> QED  BY <2>1, PoolAssumption DEF PoolInv, AccountingExact, WithinLimits
<1> QED  BY <1>1, PoolInit, PoolNext, PTL DEF Spec

(* The Gate (Runnable, Gate): whoever comes to the Gate finds it open,       *)
(* because the pool admitted it under the same limits.                       *)
THEOREM OpenGate == Spec => []GateNeverWaits
<1>1. PoolInv => GateNeverWaits
  <2> SUFFICES ASSUME PoolInv, NEW w \in Workers, pc[w] = "call" PROVE GateOpen(w)
    BY DEF GateNeverWaits
  <2> DEFINE k == Ctx[task[w]]
  <2>1. k \in Contexts
    BY PoolAssumption DEF PoolInv, TypeOK
  <2>2. Gated \subseteq Workers \ {w}
    BY DEF Gated
  <2>3. Cardinality(Workers \ {w}) = Cardinality(Workers) - 1 /\ IsFiniteSet(Workers \ {w})
    BY PoolAssumption, FS_RemoveElement
  <2>4. Cardinality(Gated) < GLOBAL_LIMIT
    <3>1. Cardinality(Gated) <= Cardinality(Workers \ {w})
      BY <2>2, <2>3, FS_Subset
    <3>2. Cardinality(Workers) \in Nat
      BY PoolAssumption, FS_CardinalityType
    <3> QED  BY <3>1, <3>2, <2>3, SetsFinite, PoolAssumption
  <2>5. GatedOf(k) \subseteq Busy(k) \ {w} /\ w \in Busy(k)
    BY DEF GatedOf, Gated, Busy
  <2>6. Cardinality(Busy(k) \ {w}) = Cardinality(Busy(k)) - 1 /\ IsFiniteSet(Busy(k) \ {w})
    BY <2>1, <2>5, SetsFinite, FS_RemoveElement
  <2>7. Cardinality(GatedOf(k)) <= Cardinality(Busy(k) \ {w})
    BY <2>5, <2>6, FS_Subset
  <2>8. query_calls[k] < Limit[k]
    <3>1. Cardinality(Busy(k)) = running[k] /\ running[k] <= Limit[k]
          /\ query_calls[k] = Cardinality(GatedOf(k))
      BY <2>1 DEF PoolInv, AccountingExact
    <3>2. Limit[k] \in Nat
      BY <2>1, PoolAssumption
    <3> QED  BY <2>1, <2>6, <2>7, <3>1, <3>2, SetsFinite
  <2> QED  BY <2>4, <2>8 DEF GateOpen, PoolInv, AccountingExact
<1> QED  BY <1>1, PoolInit, PoolNext, PTL DEF Spec

-----------------------------------------------------------------------------
(* The queue holds tasks that wait, each of them once, and a worker's call   *)
(* is of a task that waits no more and that no other worker calls.           *)
Calling(w) == pc[w] \in {"call", "gated"}

QueueInv ==
  /\ \A i \in DOMAIN tasks : status[tasks[i]] = "queued"
  /\ \A i, j \in DOMAIN tasks : tasks[i] = tasks[j] => i = j
  /\ \A w \in Workers : Calling(w) => status[task[w]] = "taken"
  /\ \A w, v \in Workers : Calling(w) /\ Calling(v) /\ task[w] = task[v] => w = v

(* What RemoveAt leaves. *)
LEMMA Removed ==
  ASSUME NEW s \in Seq(Tasks), NEW i \in DOMAIN s
  PROVE  /\ DOMAIN RemoveAt(s, i) = 1 .. Len(s) - 1
         /\ \A j \in 1 .. Len(s) - 1 :
              /\ j < i => RemoveAt(s, i)[j] = s[j]
              /\ j >= i => RemoveAt(s, i)[j] = s[j + 1]
<1> DEFINE a == SubSeq(s, 1, i - 1)
           b == SubSeq(s, i + 1, Len(s))
<1>1. i \in 1 .. Len(s) /\ Len(s) \in Nat
  OBVIOUS
<1>2. \A j \in 1 .. i - 1 : s[j] \in Tasks
  BY <1>1
<1>3. a \in Seq(Tasks) /\ Len(a) = i - 1 /\ \A j \in 1 .. i - 1 : a[j] = s[j]
  BY <1>1, <1>2, SubSeqProperties
<1>4. \A j \in i + 1 .. Len(s) : s[j] \in Tasks
  BY <1>1
<1>5. b \in Seq(Tasks) /\ Len(b) = Len(s) - i /\ \A j \in 1 .. Len(s) - i : b[j] = s[i + j]
  BY <1>1, <1>4, SubSeqProperties
<1>6. RemoveAt(s, i) = a \o b
  BY DEF RemoveAt
<1> HIDE DEF a, b
<1>7. DOMAIN (a \o b) = 1 .. Len(s) - 1
  BY <1>1, <1>3, <1>5
<1>8. ASSUME NEW j \in 1 .. Len(s) - 1, j < i PROVE (a \o b)[j] = s[j]
  BY <1>1, <1>3, <1>5, <1>8
<1>9. ASSUME NEW j \in 1 .. Len(s) - 1, j >= i PROVE (a \o b)[j] = s[j + 1]
  <2>1. (a \o b)[j] = b[j - (i - 1)]
    BY <1>1, <1>3, <1>5, <1>9
  <2>2. b[j - (i - 1)] = s[j + 1]
    BY <1>1, <1>5, <1>9
  <2> QED
    BY <2>1, <2>2
<1> QED
  BY <1>6, <1>7, <1>8, <1>9

(* The same, the other way: where each task left in the queue comes from. *)
LEMMA Kept ==
  ASSUME NEW s \in Seq(Tasks), NEW i \in DOMAIN s, NEW j \in DOMAIN RemoveAt(s, i)
  PROVE  \E n \in DOMAIN s : /\ n # i /\ RemoveAt(s, i)[j] = s[n]
                             /\ (j < i /\ n = j) \/ (j >= i /\ n = j + 1)
<1>1. j \in 1 .. Len(s) - 1 /\ i \in 1 .. Len(s) /\ Len(s) \in Nat /\ DOMAIN s = 1 .. Len(s)
  BY Removed
<1>2. CASE j < i
  <2>1. j \in DOMAIN s /\ j # i /\ RemoveAt(s, i)[j] = s[j]
    BY <1>1, <1>2, Removed
  <2> QED  BY <1>1, <1>2, <2>1
<1>3. CASE j >= i
  <2>1. j + 1 \in DOMAIN s /\ j + 1 # i /\ RemoveAt(s, i)[j] = s[j + 1]
    BY <1>1, <1>3, Removed
  <2> QED  BY <1>3, <2>1
<1> QED
  BY <1>1, <1>2, <1>3

LEMMA QueueNext == PoolInv /\ QueueInv /\ [Next]_vars => QueueInv'
<1> SUFFICES ASSUME PoolInv, QueueInv, [Next]_vars PROVE QueueInv'
  OBVIOUS
<1>1. /\ tasks \in Seq(Tasks)
      /\ status \in [Tasks -> {"new", "queued", "taken", "done", "refused"}]
      /\ pc \in [Workers -> WorkerPc]
      /\ task \in [Workers -> Tasks \cup {NoTask}]
      /\ \A w \in Workers : Calling(w) => task[w] \in Tasks
  BY DEF PoolInv, TypeOK, Calling
<1>2. ASSUME NEW w \in Workers, NEW i \in 1 .. MaxQueue, Take(w, i) PROVE QueueInv'
  <2>1. /\ i \in DOMAIN tasks /\ tasks' = RemoveAt(tasks, i) /\ tasks[i] \in Tasks
        /\ status' = [status EXCEPT ![tasks[i]] = "taken"]
        /\ task' = [task EXCEPT ![w] = tasks[i]]
        /\ pc' = [pc EXCEPT ![w] = "call"]
    BY <1>1, <1>2 DEF Take, Runnable, CanRun
  <2>2. \A j \in DOMAIN tasks' : \E n \in DOMAIN tasks :
           n # i /\ tasks'[j] = tasks[n] /\ ((j < i /\ n = j) \/ (j >= i /\ n = j + 1))
    BY <1>1, <2>1, Kept
  <2>3. \A j \in DOMAIN tasks' : status'[tasks'[j]] = "queued"
    BY <1>1, <2>1, <2>2 DEF QueueInv
  <2>4. ASSUME NEW j \in DOMAIN tasks', NEW k \in DOMAIN tasks', tasks'[j] = tasks'[k] PROVE j = k
    <3>1. PICK n \in DOMAIN tasks : tasks'[j] = tasks[n] /\ ((j < i /\ n = j) \/ (j >= i /\ n = j + 1))
      BY <2>2
    <3>2. PICK m \in DOMAIN tasks : tasks'[k] = tasks[m] /\ ((k < i /\ m = k) \/ (k >= i /\ m = k + 1))
      BY <2>2
    <3>3. n = m
      BY <2>4, <3>1, <3>2 DEF QueueInv
    <3>4. j \in Int /\ k \in Int /\ i \in Int
      BY <1>1, <2>1, Removed
    <3> QED
      BY <3>1, <3>2, <3>3, <3>4
  <2>5. \A v \in Workers \ {w} : /\ Calling(v)' = Calling(v) /\ task'[v] = task[v]
                                 /\ Calling(v) => task[v] # tasks[i] /\ status'[task[v]] = "taken"
    BY <1>1, <2>1 DEF QueueInv, Calling
  <2>6. Calling(w)' /\ task'[w] = tasks[i] /\ status'[tasks[i]] = "taken"
    BY <1>1, <2>1 DEF Calling
  <2>7. \A v \in Workers : Calling(v)' => status'[task'[v]] = "taken"
    BY <2>5, <2>6
  <2>8. \A u, v \in Workers : Calling(u)' /\ Calling(v)' /\ task'[u] = task'[v] => u = v
    BY <2>5, <2>6 DEF QueueInv
  <2> QED
    BY <2>3, <2>4, <2>7, <2>8 DEF QueueInv, Calling
<1>3. ASSUME NEW t \in Tasks, Submit(t) PROVE QueueInv'
  <2>1. /\ tasks' = Append(tasks, t) /\ status' = [status EXCEPT ![t] = "queued"]
        /\ status[t] = "new" /\ task' = task
    BY <1>3 DEF Submit
  <2>2. /\ DOMAIN tasks' = 1 .. Len(tasks) + 1 /\ DOMAIN tasks = 1 .. Len(tasks) /\ Len(tasks) \in Nat
        /\ \A i \in DOMAIN tasks : tasks'[i] = tasks[i] /\ tasks[i] # t /\ tasks[i] \in Tasks
        /\ tasks'[Len(tasks) + 1] = t
    BY <1>1, <2>1 DEF QueueInv
  <2>3. /\ \A i \in DOMAIN tasks' : status'[tasks'[i]] = "queued"
        /\ \A i, j \in DOMAIN tasks' : tasks'[i] = tasks'[j] => i = j
    BY <1>1, <2>1, <2>2 DEF QueueInv
  <2>4. \A v \in Workers : Calling(v)' = Calling(v)
    BY <1>1, <1>3 DEF Submit, NotifyAll, Calling
  <2>5. \A v \in Workers : Calling(v) => task[v] # t /\ task[v] \in Tasks
    BY <1>1, <2>1 DEF QueueInv
  <2> QED
    BY <1>1, <2>1, <2>3, <2>4, <2>5 DEF QueueInv
<1>4. ASSUME NEW w \in Workers, pc[w] \in {"call", "gated"}, Finish(w), UNCHANGED <<tasks, task>>
      PROVE  QueueInv'
  <2>1. /\ status[task[w]] = "taken" /\ task[w] \in Tasks
        /\ \A v \in Workers \ {w} : Calling(v) => task[v] # task[w] /\ task[v] \in Tasks
    BY <1>1, <1>4 DEF QueueInv, Calling
  <2>2. status' = [status EXCEPT ![task[w]] = "done"] /\ pc' = [pc EXCEPT ![w] = "finished"]
    BY <1>4 DEF Finish
  <2>3. ~Calling(w)' /\ \A v \in Workers \ {w} : Calling(v)' = Calling(v)
    BY <1>1, <2>2 DEF Calling
  <2> QED
    BY <1>1, <1>4, <2>1, <2>2, <2>3 DEF QueueInv
<1>5. ASSUME NEW t \in Tasks, Refuse(t) PROVE QueueInv'
  <2>1. /\ status[t] = "new" /\ status' = [status EXCEPT ![t] = "refused"]
        /\ UNCHANGED <<tasks, pc, task>>
    BY <1>5 DEF Refuse, poolVars
  <2>2. \A i \in DOMAIN tasks : tasks[i] \in Tasks
    BY <1>1
  <2> QED
    BY <1>1, <2>1, <2>2 DEF QueueInv, Calling
<1>6. ASSUME UNCHANGED <<tasks, status>>,
             \A v \in Workers : Calling(v)' => Calling(v) /\ task'[v] = task[v]
      PROVE  QueueInv'
  BY <1>6 DEF QueueInv
<1>7. ASSUME NEW w \in Workers, Exit(w) \/ Sleep(w) \/ Account(w) \/ Notify(w) \/ SpuriousWake(w)
      PROVE  QueueInv'
  BY <1>1, <1>6, <1>7
     DEF Exit, Sleep, Account, Notify, SpuriousWake, NotifyAll, Calling, poolVars
<1>8. ASSUME NEW w \in Workers, EnterGate(w) PROVE QueueInv'
  <2>1. \A v \in Workers : Calling(v)' => Calling(v) /\ task'[v] = task[v]
    BY <1>1, <1>8 DEF EnterGate, Calling
  <2> QED
    BY <1>6, <1>8, <2>1 DEF EnterGate, poolVars
<1>9. ASSUME NEW w \in Workers, SkipCall(w) \/ LeaveGate(w) PROVE QueueInv'
  BY <1>4, <1>9 DEF SkipCall, LeaveGate, poolVars
<1>10. CASE Close \/ NotifyClosing \/ Join \/ UNCHANGED vars \/ \E c \in Contexts : Interrupt(c)
  BY <1>1, <1>6, <1>10
     DEF Close, NotifyClosing, Join, Interrupt, NotifyAll, Calling, vars, poolVars
<1> QED
  BY <1>2, <1>3, <1>5, <1>7, <1>8, <1>9, <1>10 DEF Next, WorkerStep

(* Only Take starts a task that waits. *)
LEMMA OrderNext ==
  ASSUME PoolInv, QueueInv, [Next]_vars, NEW i \in DOMAIN tasks, NEW j \in DOMAIN tasks,
         i < j, Ctx[tasks[i]] = Ctx[tasks[j]], status'[tasks[j]] = "taken"
  PROVE  status'[tasks[i]] = "taken"
<1>1. /\ tasks \in Seq(Tasks) /\ i \in 1 .. Len(tasks) /\ j \in 1 .. Len(tasks) /\ Len(tasks) \in Nat
      /\ status \in [Tasks -> {"new", "queued", "taken", "done", "refused"}]
      /\ tasks[i] \in Tasks /\ tasks[j] \in Tasks /\ status[tasks[j]] = "queued"
  BY DEF PoolInv, TypeOK, QueueInv
<1>2. ASSUME NEW w \in Workers, NEW k \in 1 .. MaxQueue, Take(w, k) PROVE FALSE
  <2>1. Runnable(k) /\ CanRun(k) /\ k \in DOMAIN tasks /\ status' = [status EXCEPT ![tasks[k]] = "taken"]
    BY <1>2 DEF Take, Runnable, CanRun
  <2>2. j = k
    BY <1>1, <2>1 DEF QueueInv
  <2>3. CanRun(i)
    BY <2>1, <2>2 DEF CanRun
  <2> QED
    BY <1>1, <2>1, <2>2, <2>3 DEF Runnable
<1>3. ASSUME NEW t, NEW v, v # "taken", status' = [status EXCEPT ![t] = v] PROVE FALSE
  BY <1>1, <1>3
<1>4. status' # status
  BY <1>1
<1>5. ASSUME NEW w \in Workers, WorkerStep(w) \/ SpuriousWake(w) PROVE FALSE
  BY <1>2, <1>3, <1>4, <1>5
     DEF WorkerStep, Exit, Sleep, Account, Notify, EnterGate, SkipCall, LeaveGate, Finish, SpuriousWake
<1>6. ASSUME NEW t \in Tasks, Submit(t) \/ Refuse(t) PROVE FALSE
  BY <1>3, <1>6 DEF Submit, Refuse
<1> QED
  BY <1>4, <1>5, <1>6 DEF Next, Close, NotifyClosing, Join, Interrupt, vars

(* A connection's tasks are started in the order of their submission         *)
(* (Runnable returns the first task that may run).                           *)
THEOREM Ordered == Spec => InOrder
<1>1. Init => QueueInv
  BY DEF Init, QueueInv, Calling
<1>2. PoolInv /\ QueueInv /\ [Next]_vars
        => [\A i, j \in DOMAIN tasks :
              i < j /\ Ctx[tasks[i]] = Ctx[tasks[j]] /\ status'[tasks[j]] = "taken"
                => status'[tasks[i]] = "taken"]_vars
  BY OrderNext
<1> QED  BY <1>1, <1>2, PoolInit, PoolNext, QueueNext, PTL DEF Spec, InOrder

-----------------------------------------------------------------------------
(* A worker that sleeps saw nothing to run: what can run since then is about *)
(* to be announced.                                                          *)
WakeInv ==
  (\E i \in DOMAIN tasks : CanRun(i)) /\ (\E w \in Workers : pc[w] = "asleep")
    => \E w \in Workers : pc[w] = "notify"

(* If anything can run, Runnable() finds something. *)
LEMMA FirstRunnable ==
  ASSUME tasks \in Seq(Tasks), NEW i \in DOMAIN tasks, CanRun(i)
  PROVE  \E k \in DOMAIN tasks : Runnable(k)
<1> DEFINE T == { 1 .. k : k \in { n \in DOMAIN tasks : CanRun(n) } }
           R == StrictSubsetOrdering(Nat)
<1>1. T # {} /\ T \subseteq FiniteSubsetsOf(Nat)
  <2>1. \A n \in DOMAIN tasks : n \in Nat /\ 1 .. n \in SUBSET Nat /\ IsFiniteSet(1 .. n)
    BY FS_Interval
  <2> QED
    BY <2>1 DEF FiniteSubsetsOf
<1>2. PICK I \in T : \A J \in T : <<J, I>> \notin R
  BY <1>1, FS_StrictSubsetOrderingWellFounded, WFMin
<1>3. PICK k \in DOMAIN tasks : CanRun(k) /\ I = 1 .. k
  BY <1>2
<1>4. ASSUME NEW n \in 1 .. k - 1, CanRun(n) PROVE FALSE
  <2>1. k \in Nat /\ n \in Nat /\ n < k /\ n \in DOMAIN tasks
    BY <1>3, <1>4
  <2>2. 1 .. n \in T
    BY <1>4, <2>1
  <2>3. /\ 1 .. n \in SUBSET Nat /\ 1 .. k \in SUBSET Nat
        /\ 1 .. n \subseteq 1 .. k /\ k \in 1 .. k /\ k \notin 1 .. n
    BY <1>3, <2>1
  <2>4. <<1 .. n, 1 .. k>> \in R
    BY <2>3 DEF StrictSubsetOrdering
  <2> QED
    BY <1>2, <1>3, <2>2, <2>4
<1> QED
  BY <1>3, <1>4 DEF Runnable

LEMMA WakeNext == PoolInv /\ WakeInv /\ [Next]_vars => WakeInv'
<1> SUFFICES ASSUME PoolInv, WakeInv, [Next]_vars PROVE WakeInv'
  OBVIOUS
<1>1. /\ tasks \in Seq(Tasks)
      /\ running \in [Contexts -> Nat]
      /\ pc \in [Workers -> WorkerPc]
      /\ \A t \in Tasks : Ctx[t] \in Contexts /\ Limit[Ctx[t]] \in Nat
  BY PoolAssumption DEF PoolInv, TypeOK
<1>2. ASSUME \A w \in Workers : pc'[w] # "asleep" PROVE WakeInv'
  BY <1>2 DEF WakeInv
<1>3. ASSUME NEW w \in Workers, pc'[w] = "notify" PROVE WakeInv'
  BY <1>3 DEF WakeInv
<1>4. ASSUME UNCHANGED <<tasks, running>>,
             \A w \in Workers : /\ pc'[w] = "asleep" => pc[w] = "asleep"
                                /\ pc[w] = "notify" => pc'[w] = "notify"
      PROVE  WakeInv'
  BY <1>4 DEF WakeInv, CanRun
<1>5. ASSUME NEW w \in Workers, Exit(w) \/ SpuriousWake(w) \/ EnterGate(w) \/ SkipCall(w) \/ LeaveGate(w)
      PROVE  WakeInv'
  BY <1>1, <1>4, <1>5
     DEF Exit, SpuriousWake, EnterGate, SkipCall, LeaveGate, Finish, poolVars
<1>6. ASSUME NEW w \in Workers, Sleep(w) PROVE WakeInv'
  <2>1. \A i \in DOMAIN tasks : ~CanRun(i)
    BY <1>1, <1>6, FirstRunnable DEF Sleep
  <2> QED
    BY <1>6, <2>1 DEF Sleep, poolVars, WakeInv, CanRun
<1>7. ASSUME NEW w \in Workers, Account(w) PROVE WakeInv'
  BY <1>1, <1>3, <1>7 DEF Account
<1>8. ASSUME NEW w \in Workers, Notify(w) PROVE WakeInv'
  BY <1>1, <1>2, <1>8 DEF Notify, NotifyAll
<1>9. ASSUME NEW w \in Workers, NEW i \in 1 .. MaxQueue, Take(w, i) PROVE WakeInv'
  <2>1. /\ i \in DOMAIN tasks /\ tasks' = RemoveAt(tasks, i) /\ tasks[i] \in Tasks
        /\ running' = [running EXCEPT ![Ctx[tasks[i]]] = @ + 1]
        /\ pc[w] = "awake" /\ pc' = [pc EXCEPT ![w] = "call"]
    BY <1>1, <1>9 DEF Take, Runnable, CanRun
  <2>2. \A c \in Contexts : running'[c] >= running[c] /\ running[c] \in Nat /\ running'[c] \in Nat
    BY <1>1, <2>1
  <2>3. ASSUME NEW j \in DOMAIN tasks', running'[Ctx[tasks'[j]]] < Limit[Ctx[tasks'[j]]]
        PROVE  \E n \in DOMAIN tasks : CanRun(n)
    <3>1. PICK n \in DOMAIN tasks : tasks'[j] = tasks[n]
      BY <1>1, <2>1, Kept
    <3>2. tasks[n] \in Tasks
      BY <1>1
    <3> QED
      BY <1>1, <2>2, <2>3, <3>1, <3>2 DEF CanRun
  <2>4. \A v \in Workers : (pc'[v] = "asleep" => pc[v] = "asleep") /\ (pc[v] = "notify" => pc'[v] = "notify")
    BY <1>1, <2>1
  <2> QED
    BY <2>3, <2>4 DEF WakeInv, CanRun
<1>10. ASSUME NEW t \in Tasks, Submit(t) PROVE WakeInv'
  BY <1>1, <1>2, <1>10 DEF Submit, NotifyAll
<1>11. ASSUME NEW t \in Tasks, Refuse(t) PROVE WakeInv'
  BY <1>4, <1>11 DEF Refuse, poolVars
<1>12. CASE NotifyClosing
  BY <1>1, <1>2, <1>12 DEF NotifyClosing, NotifyAll
<1>13. CASE Close \/ Join \/ UNCHANGED vars \/ \E c \in Contexts : Interrupt(c)
  BY <1>4, <1>13 DEF Close, Join, Interrupt, vars, poolVars
<1> QED
  BY <1>5, <1>6, <1>7, <1>8, <1>9, <1>10, <1>11, <1>12, <1>13 DEF Next, WorkerStep

(* No lost wakeup: while a queued task could run and a worker sleeps, a      *)
(* worker is about to call notify_all (the decrement under the mutex, the    *)
(* notify_all after it).                                                     *)
THEOREM NoLostWakeup == Spec => []WorkConserving
<1>1. Init => WakeInv
  BY DEF Init, WakeInv
<1>2. PoolInv /\ WakeInv => WorkConserving
  <2> SUFFICES ASSUME PoolInv, WakeInv, NEW i \in DOMAIN tasks,
                      Cardinality(Busy(Ctx[tasks[i]])) < Limit[Ctx[tasks[i]]]
               PROVE  (\E w \in Workers : pc[w] = "asleep")
                        => \E w \in Workers : pc[w] \in {"awake", "notify"}
    BY DEF WorkConserving
  <2>1. Ctx[tasks[i]] \in Contexts
    BY PoolAssumption DEF PoolInv, TypeOK
  <2>2. CanRun(i)
    BY <2>1 DEF CanRun, PoolInv, AccountingExact
  <2> QED
    BY <2>2 DEF WakeInv
<1> QED  BY <1>1, <1>2, PoolInit, PoolNext, WakeNext, PTL DEF Spec
=============================================================================
