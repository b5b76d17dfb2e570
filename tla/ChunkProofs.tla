------------------------------ MODULE ChunkProofs ------------------------------
(***************************************************************************)
(* Evaluate publishes and returns complete judgments only, for every       *)
(* chunk, every cut of its questions into packs, and every order in which  *)
(* the packs are answered, skipped or fail.                                *)
(***************************************************************************)
EXTENDS Chunk, SequenceTheorems, FiniteSetTheorems, TLAPS

Row1 == [key : Keys, cached : BOOLEAN, answers : SUBSET Nat, model : Models \cup {Null}]
Job1 == [state : JobStates, next : Nat, model : Models \cup {Null}]

Owned(i)    == i \in DOMAIN rows /\ ~rows[i].cached
IsRef(x)    == Owned(x[1]) /\ x[2] \in 1 .. Questions[rows[x[1]].key]
Answered(x) == x[2] \in rows[x[1]].answers /\ rows[x[1]].model \in Models
InPacks(x)  == \E j \in DOMAIN packs : \E n \in DOMAIN packs[j] : packs[j][n] = x
InPacked(x) == \E j \in DOMAIN packs' : \E n \in DOMAIN packs'[j] : packs'[j][n] = x
Complete(i) == rows[i].answers = 1 .. Questions[rows[i].key] /\ rows[i].model \in Models
AllDone     == \A j \in DOMAIN jobs : jobs[j].state = "done"

RowsInv == \A i \in DOMAIN rows : rows[i].answers \subseteq 1 .. Questions[rows[i].key]

MapInv ==
  /\ phase \notin {"scan", "failed", "unwind"} => at = Len(Input)
  /\ \A r \in 1 .. at : IF Key(r) = Null THEN mapping[r] = 0
                        ELSE mapping[r] \in DOMAIN rows /\ rows[mapping[r]].key = Key(r)
  /\ \A r \in Places : r > at => mapping[r] = 0

RefsInv == \A j \in DOMAIN packs : packs[j] # <<>> /\ \A n \in DOMAIN packs[j] : IsRef(packs[j][n])

(* The questions the loop has passed are in packs. *)
PackedInv ==
  /\ phase = "scan" => row = 1 /\ asked = 0
  /\ phase = "pack" =>
       /\ row \in 1 .. Len(rows) + 1
       /\ \A i \in 1 .. row - 1 : Owned(i) => \A q \in 1 .. Questions[rows[i].key] : InPacks(<<i, q>>)
       /\ Owned(row) => \A q \in 1 .. asked : InPacks(<<row, q>>)
  /\ phase \in {"submit", "join"} =>
       \A i \in DOMAIN rows : Owned(i) => \A q \in 1 .. Questions[rows[i].key] : InPacks(<<i, q>>)

(* A job that is done has answered its pack, unless the call or the query  *)
(* was stopped.                                                            *)
JobInv(j) ==
  /\ jobs[j].state \in {"queued", "calling"} => jobs[j].next = 1
  /\ jobs[j].state = "reading" =>
       /\ jobs[j].next \in DOMAIN packs[j] /\ jobs[j].model \in Models
       /\ \A n \in 1 .. jobs[j].next - 1 : Answered(packs[j][n])
  /\ jobs[j].state = "stopping" => stopped
  /\ jobs[j].state = "done" => stopped \/ cancelled \/ \A n \in DOMAIN packs[j] : Answered(packs[j][n])

JobsInv ==
  /\ Len(jobs) <= Len(packs)
  /\ phase \in {"scan", "pack"} => jobs = <<>>
  /\ \A j \in DOMAIN jobs : JobInv(j)

StopInv ==
  /\ stopped => error \/ phase \in {"unwind", "failed"} \/ \E j \in DOMAIN jobs : jobs[j].state = "stopping"
  /\ phase = "join" /\ Len(jobs) < Len(packs) => stopped

Late == {"publish", "await", "return", "done"}

EndInv ==
  /\ phase \in Late => AllDone /\ \A i \in DOMAIN rows : Owned(i) => Complete(i)
  /\ phase = "await" => \A i \in 1 .. row - 1 : i \in DOMAIN rows => Complete(i)
  /\ phase \in {"return", "done"} => \A i \in DOMAIN rows : Complete(i)
  /\ phase \in Late => row \in Nat \ {0}
  /\ \A i \in published : Owned(i) /\ Complete(i)
  /\ published # {} => AllDone /\ phase \in Late \cup {"failed"}

ChunkInv == TypeOK /\ RowsInv /\ MapInv /\ RefsInv /\ PackedInv /\ JobsInv /\ StopInv /\ EndInv

-----------------------------------------------------------------------------
LEMMA Constants ==
  /\ Input \in Seq(Keys \cup {Null}) /\ Len(Input) \in Nat /\ Places = 1 .. Len(Input)
  /\ \A r \in Places : Key(r) \in Keys \cup {Null}
  /\ \A k \in Keys : Questions[k] \in Nat \ {0}
  /\ Null \notin Models /\ Null \notin Keys /\ MaxFaults \in Nat
BY ChunkAssumption DEF Places, Key

LEMMA InitInv == Init => ChunkInv
<1> SUFFICES ASSUME Init PROVE ChunkInv
  OBVIOUS
<1> USE Constants DEF Init
<1>1. TypeOK
  <2>1. mapping \in [Places -> 0 .. Len(rows)] /\ hit \in [Places -> BOOLEAN]
    OBVIOUS
  <2>2. /\ rows \in Seq([key : Keys, cached : BOOLEAN, answers : SUBSET Nat, model : Models \cup {Null}])
        /\ jobs \in Seq([state : JobStates, next : Nat, model : Models \cup {Null}])
        /\ packs \in Seq(Seq(Nat \X Nat))
        /\ out \in Seq({Null} \cup [key : Keys, answers : SUBSET Nat, model : Models \cup {Null}])
    OBVIOUS
  <2>3. /\ phase \in Phases /\ at \in 0 .. Len(Input) /\ row \in Nat /\ asked \in Nat
        /\ published \subseteq Nat /\ hits \in Nat /\ faults \in 0 .. MaxFaults
    BY DEF Phases
  <2>4. stopped \in BOOLEAN /\ error \in BOOLEAN /\ cancelled \in BOOLEAN
    BY Zenon
  <2> HIDE DEF Init
  <2> QED
    BY <2>1, <2>2, <2>3, <2>4 DEF TypeOK
<1>2. RowsInv /\ MapInv /\ RefsInv
  BY DEF RowsInv, MapInv, RefsInv
<1>3. PackedInv
  BY DEF PackedInv
<1>4. JobsInv /\ StopInv /\ EndInv
  BY DEF JobsInv, StopInv, EndInv, Late, AllDone
<1> QED
  BY <1>1, <1>2, <1>3, <1>4 DEF ChunkInv

LEMMA Typed ==
  ASSUME TypeOK
  PROVE  /\ rows \in Seq(Row1) /\ Len(rows) \in Nat /\ DOMAIN rows = 1 .. Len(rows)
         /\ packs \in Seq(Seq(Nat \X Nat)) /\ Len(packs) \in Nat /\ DOMAIN packs = 1 .. Len(packs)
         /\ jobs \in Seq(Job1) /\ Len(jobs) \in Nat /\ DOMAIN jobs = 1 .. Len(jobs)
         /\ row \in Nat /\ asked \in Nat /\ at \in Nat
         /\ \A i \in DOMAIN rows : /\ rows[i] \in Row1 /\ rows[i].key \in Keys
                                   /\ Questions[rows[i].key] \in Nat \ {0}
         /\ \A j \in DOMAIN packs : /\ packs[j] \in Seq(Nat \X Nat) /\ Len(packs[j]) \in Nat
                                    /\ DOMAIN packs[j] = 1 .. Len(packs[j])
         /\ \A j \in DOMAIN jobs : jobs[j] \in Job1 /\ jobs[j].next \in Nat
<1>1. rows \in Seq(Row1) /\ packs \in Seq(Seq(Nat \X Nat)) /\ jobs \in Seq(Job1)
  BY DEF TypeOK, Row1, Job1
<1>2. /\ Len(rows) \in Nat /\ DOMAIN rows = 1 .. Len(rows)
      /\ Len(packs) \in Nat /\ DOMAIN packs = 1 .. Len(packs)
      /\ Len(jobs) \in Nat /\ DOMAIN jobs = 1 .. Len(jobs)
  BY <1>1
<1>3. ASSUME NEW i \in DOMAIN rows
      PROVE  rows[i] \in Row1 /\ rows[i].key \in Keys /\ Questions[rows[i].key] \in Nat \ {0}
  <2>1. rows[i] \in Row1
    BY <1>1
  <2>2. rows[i].key \in Keys
    BY <2>1 DEF Row1
  <2> QED
    BY <2>1, <2>2, Constants
<1>4. ASSUME NEW j \in DOMAIN packs
      PROVE  packs[j] \in Seq(Nat \X Nat) /\ Len(packs[j]) \in Nat /\ DOMAIN packs[j] = 1 .. Len(packs[j])
  <2>1. packs[j] \in Seq(Nat \X Nat)
    BY <1>1, <1>2
  <2> QED
    BY <2>1
<1>5. ASSUME NEW j \in DOMAIN jobs PROVE jobs[j] \in Job1 /\ jobs[j].next \in Nat
  <2>1. jobs[j] \in Job1
    BY <1>1
  <2> QED
    BY <2>1 DEF Job1
<1>6. row \in Nat /\ asked \in Nat /\ at \in Nat
  BY Constants DEF TypeOK
<1> QED
  BY <1>1, <1>2, <1>3, <1>4, <1>5, <1>6

(***************************************************************************)
(* A step that leaves the rows, the packs and the jobs alone disturbs only *)
(* what is said of phases.                                                 *)
(***************************************************************************)
LEMMA StillStep ==
  ASSUME ChunkInv, UNCHANGED <<rows, packs, jobs>>, stopped => stopped', cancelled => cancelled'
  PROVE  /\ RowsInv' /\ RefsInv' /\ \A j \in DOMAIN jobs : JobInv(j)'
         /\ \A x : InPacks(x)' <=> InPacks(x)
         /\ \A i : (Owned(i)' <=> Owned(i)) /\ (Complete(i)' <=> Complete(i))
         /\ AllDone' <=> AllDone
<1>1. RowsInv'
  BY DEF ChunkInv, RowsInv
<1>2. RefsInv'
  BY DEF ChunkInv, RefsInv, IsRef, Owned
<1>3. ASSUME NEW j \in DOMAIN jobs PROVE JobInv(j)'
  BY DEF ChunkInv, JobsInv, JobInv, Answered
<1>4. /\ \A x : InPacks(x)' <=> InPacks(x)
      /\ \A i : (Owned(i)' <=> Owned(i)) /\ (Complete(i)' <=> Complete(i))
      /\ AllDone' <=> AllDone
  BY DEF InPacks, Owned, Complete, AllDone
<1> QED
  BY <1>1, <1>2, <1>3, <1>4

LEMMA ScanEndInv == ASSUME ChunkInv, ScanEnd PROVE ChunkInv'
<1>1. UNCHANGED <<rows, packs, jobs>> /\ (stopped => stopped') /\ (cancelled => cancelled')
  BY DEF ScanEnd, chunkVars, scanVars, packVars, flags, endVars
<1>2. /\ RowsInv' /\ RefsInv' /\ \A j \in DOMAIN jobs : JobInv(j)'
      /\ \A x : InPacks(x)' <=> InPacks(x)
      /\ \A i : (Owned(i)' <=> Owned(i)) /\ (Complete(i)' <=> Complete(i))
      /\ AllDone' <=> AllDone
  BY <1>1, StillStep
<1>3. TypeOK'
  BY Constants, Typed DEF ChunkInv, TypeOK, Phases, ScanEnd, chunkVars, scanVars, packVars, flags, endVars
<1>4. MapInv'
  BY Typed DEF ChunkInv, MapInv, Key, ScanEnd, chunkVars, scanVars, packVars, flags, endVars
<1>5. JobsInv' /\ StopInv'
  BY <1>1, <1>2, Typed DEF ChunkInv, JobsInv, StopInv, AllDone, ScanEnd, chunkVars, scanVars, packVars, flags, endVars
<1>6. PackedInv'
  BY <1>1, <1>2, Typed DEF ChunkInv, PackedInv, RowsInv, ScanEnd, chunkVars, scanVars, packVars, flags, endVars
<1>7. EndInv'
  BY <1>1, <1>2, Typed DEF ChunkInv, EndInv, PackedInv, JobsInv, Late, Complete, AllDone, ScanEnd, endVars
<1> QED
  BY <1>2, <1>3, <1>4, <1>5, <1>6, <1>7 DEF ChunkInv

LEMMA PackNextInv == ASSUME ChunkInv, PackNext PROVE ChunkInv'
<1>1. UNCHANGED <<rows, packs, jobs>> /\ (stopped => stopped') /\ (cancelled => cancelled')
  BY DEF PackNext, chunkVars, scanVars, packVars, flags, endVars
<1>2. /\ RowsInv' /\ RefsInv' /\ \A j \in DOMAIN jobs : JobInv(j)'
      /\ \A x : InPacks(x)' <=> InPacks(x)
      /\ \A i : (Owned(i)' <=> Owned(i)) /\ (Complete(i)' <=> Complete(i))
      /\ AllDone' <=> AllDone
  BY <1>1, StillStep
<1>3. TypeOK'
  BY Constants, Typed DEF ChunkInv, TypeOK, Phases, PackNext, chunkVars, scanVars, packVars, flags, endVars
<1>4. MapInv'
  BY Typed DEF ChunkInv, MapInv, Key, PackNext, chunkVars, scanVars, packVars, flags, endVars
<1>5. JobsInv' /\ StopInv'
  BY <1>1, <1>2, Typed DEF ChunkInv, JobsInv, StopInv, AllDone, PackNext, chunkVars, scanVars, packVars, flags, endVars
<1>6. PackedInv'
  <2>1. phase' = "pack" /\ phase = "pack" /\ row' = row + 1 /\ asked' = 0 /\ row \in DOMAIN rows
    BY Typed DEF ChunkInv, PackedInv, PackNext
  <2>2. ASSUME NEW i \in 1 .. row' - 1, Owned(i), NEW q \in 1 .. Questions[rows[i].key] PROVE InPacks(<<i, q>>)
    <3>1. CASE i = row
      BY <2>1, <2>2, <3>1 DEF ChunkInv, PackedInv, PackNext, Owned
    <3>2. CASE i # row
      <4>1. i \in 1 .. row - 1
        BY <2>1, <3>2, Typed DEF ChunkInv
      <4> QED
        BY <2>1, <2>2, <4>1 DEF ChunkInv, PackedInv
    <3> QED
      BY <3>1, <3>2
  <2> QED
    BY <1>1, <1>2, <2>1, <2>2, Typed DEF ChunkInv, PackedInv
<1>7. EndInv'
  BY <1>1, <1>2, Typed DEF ChunkInv, EndInv, Late, PackNext, chunkVars, scanVars, packVars, flags, endVars
<1> QED
  BY <1>2, <1>3, <1>4, <1>5, <1>6, <1>7 DEF ChunkInv

LEMMA ReserveInv == ASSUME ChunkInv, Reserve PROVE ChunkInv'
<1>1. UNCHANGED <<rows, packs, jobs>> /\ (stopped => stopped') /\ (cancelled => cancelled')
  BY DEF Reserve, chunkVars, scanVars, packVars, flags, endVars
<1>2. /\ RowsInv' /\ RefsInv' /\ \A j \in DOMAIN jobs : JobInv(j)'
      /\ \A x : InPacks(x)' <=> InPacks(x)
      /\ \A i : (Owned(i)' <=> Owned(i)) /\ (Complete(i)' <=> Complete(i))
      /\ AllDone' <=> AllDone
  BY <1>1, StillStep
<1>3. TypeOK'
  BY Constants, Typed DEF ChunkInv, TypeOK, Phases, Reserve, chunkVars, scanVars, packVars, flags, endVars
<1>4. MapInv'
  BY Typed DEF ChunkInv, MapInv, Key, Reserve, chunkVars, scanVars, packVars, flags, endVars
<1>5. JobsInv' /\ StopInv'
  BY <1>1, <1>2, Typed DEF ChunkInv, JobsInv, StopInv, AllDone, Reserve, chunkVars, scanVars, packVars, flags, endVars
<1>6. PackedInv'
  BY <1>1, <1>2, Typed DEF ChunkInv, PackedInv, Reserve
<1>7. EndInv'
  BY <1>1, <1>2, Typed DEF ChunkInv, EndInv, Late, Reserve, chunkVars, scanVars, packVars, flags, endVars
<1> QED
  BY <1>2, <1>3, <1>4, <1>5, <1>6, <1>7 DEF ChunkInv

LEMMA SubmitEndInv == ASSUME ChunkInv, SubmitEnd PROVE ChunkInv'
<1>1. UNCHANGED <<rows, packs, jobs>> /\ (stopped => stopped') /\ (cancelled => cancelled')
  BY DEF SubmitEnd, chunkVars, scanVars, packVars, flags, endVars
<1>2. /\ RowsInv' /\ RefsInv' /\ \A j \in DOMAIN jobs : JobInv(j)'
      /\ \A x : InPacks(x)' <=> InPacks(x)
      /\ \A i : (Owned(i)' <=> Owned(i)) /\ (Complete(i)' <=> Complete(i))
      /\ AllDone' <=> AllDone
  BY <1>1, StillStep
<1>3. TypeOK'
  BY Constants, Typed DEF ChunkInv, TypeOK, Phases, SubmitEnd, chunkVars, scanVars, packVars, flags, endVars
<1>4. MapInv'
  BY Typed DEF ChunkInv, MapInv, Key, SubmitEnd, chunkVars, scanVars, packVars, flags, endVars
<1>5. JobsInv' /\ StopInv'
  <2>1. Len(jobs) = Len(packs) \/ stopped
    BY DEF SubmitEnd
  <2>2. JobsInv'
    BY <1>1, <1>2 DEF ChunkInv, JobsInv, SubmitEnd
  <2>3. StopInv'
    <3>1. phase = "submit" /\ phase' = "join" /\ UNCHANGED <<stopped, error, jobs, packs>>
      BY <1>1 DEF SubmitEnd, flags, packVars
    <3>2. Len(jobs) \in Nat /\ Len(packs) \in Nat
      BY Typed DEF ChunkInv
    <3>3. stopped => error \/ \E j \in DOMAIN jobs : jobs[j].state = "stopping"
      BY <3>1 DEF ChunkInv, StopInv
    <3>4. Len(jobs) < Len(packs) => stopped
      BY <2>1, <3>2
    <3> QED
      BY <3>1, <3>3, <3>4 DEF StopInv
  <2> QED
    BY <2>2, <2>3
<1>6. PackedInv'
  BY <1>1, <1>2, Typed DEF ChunkInv, PackedInv, SubmitEnd
<1>7. EndInv'
  BY <1>1, <1>2, Typed DEF ChunkInv, EndInv, Late, SubmitEnd, chunkVars, scanVars, packVars, flags, endVars
<1> QED
  BY <1>2, <1>3, <1>4, <1>5, <1>6, <1>7 DEF ChunkInv

LEMMA JoinInv == ASSUME ChunkInv, Join PROVE ChunkInv'
<1>1. UNCHANGED <<rows, packs, jobs>> /\ (stopped => stopped') /\ (cancelled => cancelled')
  BY DEF Join, Joined, Failed, chunkVars, scanVars, packVars, flags, endVars
<1>2. /\ RowsInv' /\ RefsInv' /\ \A j \in DOMAIN jobs : JobInv(j)'
      /\ \A x : InPacks(x)' <=> InPacks(x)
      /\ \A i : (Owned(i)' <=> Owned(i)) /\ (Complete(i)' <=> Complete(i))
      /\ AllDone' <=> AllDone
  BY <1>1, StillStep
<1>3. TypeOK'
  BY Constants, Typed DEF ChunkInv, TypeOK, Phases, Join, Joined, Failed, chunkVars, scanVars, packVars, flags, endVars
<1>4. MapInv'
  BY Typed DEF ChunkInv, MapInv, Key, Join, Joined, Failed, chunkVars, scanVars, packVars, flags, endVars
<1>5. JobsInv' /\ StopInv'
  BY <1>1, <1>2, Typed DEF ChunkInv, JobsInv, StopInv, AllDone, Join, Joined, Failed, chunkVars, scanVars, packVars, flags, endVars
<1>6. PackedInv'
  BY <1>1, <1>2, Typed DEF ChunkInv, PackedInv, RowsInv, Join, Joined, Failed, chunkVars, scanVars, packVars, flags, endVars
<1>7. EndInv'
  <2>1. CASE phase' # "publish"
    BY <1>1, <1>2, <2>1 DEF ChunkInv, EndInv, Late, Join, endVars
  <2>2. CASE phase' = "publish"
    <3>1. phase = "join" /\ AllDone /\ ~error /\ ~cancelled /\ row' = 1 /\ published' = published
      BY <2>2 DEF Join, Joined, Failed, AllDone, endVars
    <3>2. ~stopped
      BY <3>1 DEF ChunkInv, StopInv, AllDone
    <3>3. Len(jobs) = Len(packs)
      <4>1. Len(jobs) \in Nat /\ Len(packs) \in Nat
        BY Typed DEF ChunkInv
      <4> QED
        BY <3>1, <3>2, <4>1 DEF ChunkInv, StopInv, JobsInv
    <3>4. ASSUME NEW x, InPacks(x) PROVE Answered(x)
      BY <3>1, <3>2, <3>3, <3>4, Typed DEF ChunkInv, InPacks, JobsInv, JobInv, AllDone
    <3>5. ASSUME NEW i \in DOMAIN rows, Owned(i) PROVE Complete(i)
      <4> DEFINE n == Questions[rows[i].key]
      <4>1. n \in Nat \ {0} /\ rows[i].answers \subseteq 1 .. n
        BY Typed DEF ChunkInv, RowsInv
      <4>2. \A q \in 1 .. n : InPacks(<<i, q>>)
        BY <3>1, <3>5 DEF ChunkInv, PackedInv
      <4> HIDE DEF n
      <4>3. \A q \in 1 .. n : q \in rows[i].answers /\ rows[i].model \in Models
        <5> TAKE q \in 1 .. n
        <5>1. Answered(<<i, q>>)
          BY <4>2, <3>4
        <5> QED
          BY <5>1 DEF Answered
      <4>4. 1 \in 1 .. n
        BY <4>1
      <4>5. rows[i].answers = 1 .. n /\ rows[i].model \in Models
        BY <4>1, <4>3, <4>4
      <4> QED
        BY <4>5 DEF Complete, n
    <3> QED
      BY <1>1, <1>2, <2>2, <3>1, <3>5 DEF ChunkInv, EndInv, Late
  <2> QED
    BY <2>1, <2>2
<1> QED
  BY <1>2, <1>3, <1>4, <1>5, <1>6, <1>7 DEF ChunkInv

LEMMA PublishInv == ASSUME ChunkInv, Publish PROVE ChunkInv'
<1>1. UNCHANGED <<rows, packs, jobs>> /\ (stopped => stopped') /\ (cancelled => cancelled')
  BY DEF Publish, chunkVars, scanVars, packVars, flags, endVars
<1>2. /\ RowsInv' /\ RefsInv' /\ \A j \in DOMAIN jobs : JobInv(j)'
      /\ \A x : InPacks(x)' <=> InPacks(x)
      /\ \A i : (Owned(i)' <=> Owned(i)) /\ (Complete(i)' <=> Complete(i))
      /\ AllDone' <=> AllDone
  BY <1>1, StillStep
<1>3. TypeOK'
  <2>1. published' \subseteq Nat /\ row' \in Nat /\ phase' \in Phases
    <3>1. row \in Nat /\ published \subseteq Nat /\ phase \in Phases
      BY DEF ChunkInv, TypeOK
    <3>2. row' = 1 \/ row' = row + 1
      BY DEF Publish
    <3>3. published' \subseteq published \cup {row}
      BY DEF Publish
    <3>4. phase' \in Phases
      BY <3>1 DEF Publish, Phases
    <3> QED
      BY <3>1, <3>2, <3>3, <3>4
  <2> QED
    BY <2>1, <1>1 DEF ChunkInv, TypeOK, Publish, scanVars, packVars, flags
<1>4. MapInv'
  BY Typed DEF ChunkInv, MapInv, Key, Publish, chunkVars, scanVars, packVars, flags, endVars
<1>5. JobsInv' /\ StopInv'
  BY <1>1, <1>2, Typed DEF ChunkInv, JobsInv, StopInv, AllDone, Publish, chunkVars, scanVars, packVars, flags, endVars
<1>6. PackedInv'
  BY <1>1, <1>2, Typed DEF ChunkInv, PackedInv, RowsInv, Publish, chunkVars, scanVars, packVars, flags, endVars
<1>7. EndInv'
  <2>1. /\ phase = "publish" /\ phase' \in {"publish", "await"} /\ row \in Nat \ {0}
        /\ row' = 1 \/ row' = row + 1
    BY DEF ChunkInv, EndInv, Late, Publish
  <2>2. AllDone /\ \A i \in DOMAIN rows : Owned(i) => Complete(i)
    BY <2>1 DEF ChunkInv, EndInv, Late
  <2>3. ASSUME NEW i \in published' PROVE Owned(i) /\ Complete(i)
    <3>1. CASE i \in published
      BY <3>1 DEF ChunkInv, EndInv
    <3>2. CASE i \notin published
      <4>1. i = row /\ row <= Len(rows) /\ ~rows[row].cached
        <5>1. ~(row > Len(rows))
          BY <2>3, <3>2 DEF Publish
        <5>2. published' = IF rows[row].cached THEN published ELSE published \cup {row}
          BY <5>1 DEF Publish
        <5>3. row <= Len(rows)
          BY <5>1, Typed DEF ChunkInv
        <5> QED
          BY <2>3, <3>2, <5>2, <5>3
      <4> QED
        BY <2>1, <2>2, <4>1, Typed DEF ChunkInv, Owned
    <3> QED
      BY <3>1, <3>2
  <2>4. phase' = "await" => row' = 1
    BY <2>1 DEF Publish
  <2> QED
    BY <1>1, <1>2, <2>1, <2>2, <2>3, <2>4 DEF EndInv, Late
<1> QED
  BY <1>2, <1>3, <1>4, <1>5, <1>6, <1>7 DEF ChunkInv

LEMMA AwaitEndInv == ASSUME ChunkInv, AwaitEnd PROVE ChunkInv'
<1>1. UNCHANGED <<rows, packs, jobs>> /\ (stopped => stopped') /\ (cancelled => cancelled')
  BY DEF AwaitEnd, chunkVars, scanVars, packVars, flags, endVars
<1>2. /\ RowsInv' /\ RefsInv' /\ \A j \in DOMAIN jobs : JobInv(j)'
      /\ \A x : InPacks(x)' <=> InPacks(x)
      /\ \A i : (Owned(i)' <=> Owned(i)) /\ (Complete(i)' <=> Complete(i))
      /\ AllDone' <=> AllDone
  BY <1>1, StillStep
<1>3. TypeOK'
  BY Constants, Typed DEF ChunkInv, TypeOK, Phases, AwaitEnd, chunkVars, scanVars, packVars, flags, endVars
<1>4. MapInv'
  BY Typed DEF ChunkInv, MapInv, Key, AwaitEnd, chunkVars, scanVars, packVars, flags, endVars
<1>5. JobsInv' /\ StopInv'
  BY <1>1, <1>2, Typed DEF ChunkInv, JobsInv, StopInv, AllDone, AwaitEnd, chunkVars, scanVars, packVars, flags, endVars
<1>6. PackedInv'
  BY <1>1, <1>2, Typed DEF ChunkInv, PackedInv, RowsInv, AwaitEnd, chunkVars, scanVars, packVars, flags, endVars
<1>7. EndInv'
  BY <1>1, <1>2, Typed DEF ChunkInv, EndInv, Late, AwaitEnd, chunkVars, scanVars, packVars, flags, endVars
<1> QED
  BY <1>2, <1>3, <1>4, <1>5, <1>6, <1>7 DEF ChunkInv

LEMMA ReturnInv == ASSUME ChunkInv, Return PROVE ChunkInv'
<1>1. UNCHANGED <<rows, packs, jobs>> /\ (stopped => stopped') /\ (cancelled => cancelled')
  BY DEF Return, chunkVars, scanVars, packVars, flags, endVars
<1>2. /\ RowsInv' /\ RefsInv' /\ \A j \in DOMAIN jobs : JobInv(j)'
      /\ \A x : InPacks(x)' <=> InPacks(x)
      /\ \A i : (Owned(i)' <=> Owned(i)) /\ (Complete(i)' <=> Complete(i))
      /\ AllDone' <=> AllDone
  BY <1>1, StillStep
<1>3. TypeOK'
  <2>1. Result(Len(out) + 1) \in {Null} \cup [key : Keys, answers : SUBSET Nat, model : Models \cup {Null}]
    <3> DEFINE r == Len(out) + 1
    <3>1. r \in Places /\ mapping[r] \in 0 .. Len(rows)
      BY Constants DEF ChunkInv, TypeOK, Return
    <3>2. CASE mapping[r] = 0
      BY <3>2 DEF Result
    <3>3. CASE mapping[r] # 0
      <4> DEFINE x == rows[mapping[r]]
      <4>1. x \in Row1
        BY <3>1, <3>3, Typed DEF ChunkInv
      <4>2. Result(r) = [key |-> x.key, answers |-> x.answers, model |-> x.model]
        BY <3>3 DEF Result
      <4> QED
        BY <4>1, <4>2 DEF Row1
    <3> QED
      BY <3>2, <3>3
  <2> DEFINE T == {Null} \cup [key : Keys, answers : SUBSET Nat, model : Models \cup {Null}]
  <2>2. out' \in Seq(T)
    <3>1. out \in Seq(T) /\ out' = Append(out, Result(Len(out) + 1))
      BY DEF ChunkInv, TypeOK, Return
    <3> HIDE DEF T
    <3>2. Result(Len(out) + 1) \in T
      BY <2>1 DEF T
    <3> QED
      BY <3>1, <3>2
  <2> QED
    BY <2>2, <1>1 DEF ChunkInv, TypeOK, Return, scanVars, packVars, flags
<1>4. MapInv'
  BY Typed DEF ChunkInv, MapInv, Key, Return, chunkVars, scanVars, packVars, flags, endVars
<1>5. JobsInv' /\ StopInv'
  BY <1>1, <1>2, Typed DEF ChunkInv, JobsInv, StopInv, AllDone, Return, chunkVars, scanVars, packVars, flags, endVars
<1>6. PackedInv'
  BY <1>1, <1>2, Typed DEF ChunkInv, PackedInv, RowsInv, Return, chunkVars, scanVars, packVars, flags, endVars
<1>7. EndInv'
  BY <1>1, <1>2, Typed DEF ChunkInv, EndInv, Late, Return, chunkVars, scanVars, packVars, flags, endVars
<1> QED
  BY <1>2, <1>3, <1>4, <1>5, <1>6, <1>7 DEF ChunkInv

LEMMA ReturnEndInv == ASSUME ChunkInv, ReturnEnd PROVE ChunkInv'
<1>1. UNCHANGED <<rows, packs, jobs>> /\ (stopped => stopped') /\ (cancelled => cancelled')
  BY DEF ReturnEnd, chunkVars, scanVars, packVars, flags, endVars
<1>2. /\ RowsInv' /\ RefsInv' /\ \A j \in DOMAIN jobs : JobInv(j)'
      /\ \A x : InPacks(x)' <=> InPacks(x)
      /\ \A i : (Owned(i)' <=> Owned(i)) /\ (Complete(i)' <=> Complete(i))
      /\ AllDone' <=> AllDone
  BY <1>1, StillStep
<1>3. TypeOK'
  <2>1. hits' \in Nat
    <3> DEFINE S == { r \in Places : hit[r] }
    <3>1. IsFiniteSet(S)
      <4>1. IsFiniteSet(Places)
        BY Constants, FS_Interval
      <4> QED
        BY <4>1, FS_Subset
    <3> QED
      BY <3>1, FS_CardinalityType DEF ReturnEnd
  <2>2. phase' \in Phases
    BY DEF ReturnEnd, Phases
  <2> QED
    BY <2>1, <2>2, <1>1 DEF ChunkInv, TypeOK, ReturnEnd, scanVars, packVars, flags
<1>4. MapInv'
  BY Typed DEF ChunkInv, MapInv, Key, ReturnEnd, chunkVars, scanVars, packVars, flags, endVars
<1>5. JobsInv' /\ StopInv'
  BY <1>1, <1>2, Typed DEF ChunkInv, JobsInv, StopInv, AllDone, ReturnEnd, chunkVars, scanVars, packVars, flags, endVars
<1>6. PackedInv'
  BY <1>1, <1>2, Typed DEF ChunkInv, PackedInv, RowsInv, ReturnEnd, chunkVars, scanVars, packVars, flags, endVars
<1>7. EndInv'
  BY <1>1, <1>2, Typed DEF ChunkInv, EndInv, Late, ReturnEnd, chunkVars, scanVars, packVars, flags, endVars
<1> QED
  BY <1>2, <1>3, <1>4, <1>5, <1>6, <1>7 DEF ChunkInv

LEMMA ThrowsInv == ASSUME ChunkInv, Throws PROVE ChunkInv'
<1>1. UNCHANGED <<rows, packs, jobs>> /\ (stopped => stopped') /\ (cancelled => cancelled')
  BY DEF Throws, Looks, Reserving, Fault, chunkVars, scanVars, packVars, flags, endVars
<1>2. /\ RowsInv' /\ RefsInv' /\ \A j \in DOMAIN jobs : JobInv(j)'
      /\ \A x : InPacks(x)' <=> InPacks(x)
      /\ \A i : (Owned(i)' <=> Owned(i)) /\ (Complete(i)' <=> Complete(i))
      /\ AllDone' <=> AllDone
  BY <1>1, StillStep
<1>3. TypeOK'
  <2>1. phase' \in Phases /\ stopped' \in BOOLEAN /\ faults' \in 0 .. MaxFaults
    <3>1. phase' \in Phases
      BY DEF Throws, Phases
    <3>2. stopped' \in BOOLEAN
      BY Zenon DEF ChunkInv, TypeOK, Throws
    <3>3. faults' \in 0 .. MaxFaults
      BY Constants DEF ChunkInv, TypeOK, Throws, Fault
    <3> QED
      BY <3>1, <3>2, <3>3
  <2> QED
    BY <2>1, <1>1 DEF ChunkInv, TypeOK, Throws, scanVars, packVars, endVars
<1>4. MapInv'
  BY Typed DEF ChunkInv, MapInv, Key, Throws, Looks, Reserving, Fault, chunkVars, scanVars, packVars, flags, endVars
<1>5. JobsInv' /\ StopInv'
  BY <1>1, <1>2, Typed DEF ChunkInv, JobsInv, StopInv, AllDone, Throws, Looks, Reserving, Fault, chunkVars, scanVars, packVars, flags, endVars
<1>6. PackedInv'
  BY <1>1, <1>2, Typed DEF ChunkInv, PackedInv, RowsInv, Throws, Looks, Reserving, Fault, chunkVars, scanVars, packVars, flags, endVars
<1>7. EndInv'
  BY <1>1, <1>2, Typed DEF ChunkInv, EndInv, Late, Throws, Looks, Reserving, Fault, chunkVars, scanVars, packVars, flags, endVars
<1> QED
  BY <1>2, <1>3, <1>4, <1>5, <1>6, <1>7 DEF ChunkInv

LEMMA UnwindInv == ASSUME ChunkInv, Unwind PROVE ChunkInv'
<1>1. UNCHANGED <<rows, packs, jobs>> /\ (stopped => stopped') /\ (cancelled => cancelled')
  BY DEF Unwind, Joined, chunkVars, scanVars, packVars, flags, endVars
<1>2. /\ RowsInv' /\ RefsInv' /\ \A j \in DOMAIN jobs : JobInv(j)'
      /\ \A x : InPacks(x)' <=> InPacks(x)
      /\ \A i : (Owned(i)' <=> Owned(i)) /\ (Complete(i)' <=> Complete(i))
      /\ AllDone' <=> AllDone
  BY <1>1, StillStep
<1>3. TypeOK'
  BY Constants, Typed DEF ChunkInv, TypeOK, Phases, Unwind, Joined, chunkVars, scanVars, packVars, flags, endVars
<1>4. MapInv'
  BY Typed DEF ChunkInv, MapInv, Key, Unwind, Joined, chunkVars, scanVars, packVars, flags, endVars
<1>5. JobsInv' /\ StopInv'
  BY <1>1, <1>2, Typed DEF ChunkInv, JobsInv, StopInv, AllDone, Unwind, Joined, chunkVars, scanVars, packVars, flags, endVars
<1>6. PackedInv'
  BY <1>1, <1>2, Typed DEF ChunkInv, PackedInv, RowsInv, Unwind, Joined, chunkVars, scanVars, packVars, flags, endVars
<1>7. EndInv'
  BY <1>1, <1>2, Typed DEF ChunkInv, EndInv, Late, Unwind, Joined, chunkVars, scanVars, packVars, flags, endVars
<1> QED
  BY <1>2, <1>3, <1>4, <1>5, <1>6, <1>7 DEF ChunkInv

LEMMA CancelInv == ASSUME ChunkInv, Cancel PROVE ChunkInv'
<1>1. UNCHANGED <<rows, packs, jobs>> /\ (stopped => stopped') /\ (cancelled => cancelled')
  BY DEF Cancel, chunkVars, scanVars, packVars, flags, endVars
<1>2. /\ RowsInv' /\ RefsInv' /\ \A j \in DOMAIN jobs : JobInv(j)'
      /\ \A x : InPacks(x)' <=> InPacks(x)
      /\ \A i : (Owned(i)' <=> Owned(i)) /\ (Complete(i)' <=> Complete(i))
      /\ AllDone' <=> AllDone
  BY <1>1, StillStep
<1>3. TypeOK'
  BY Constants, Typed DEF ChunkInv, TypeOK, Phases, Cancel, chunkVars, scanVars, packVars, flags, endVars
<1>4. MapInv'
  BY Typed DEF ChunkInv, MapInv, Key, Cancel, chunkVars, scanVars, packVars, flags, endVars
<1>5. JobsInv' /\ StopInv'
  BY <1>1, <1>2, Typed DEF ChunkInv, JobsInv, StopInv, AllDone, Cancel, chunkVars, scanVars, packVars, flags, endVars
<1>6. PackedInv'
  BY <1>1, <1>2, Typed DEF ChunkInv, PackedInv, RowsInv, Cancel, chunkVars, scanVars, packVars, flags, endVars
<1>7. EndInv'
  BY <1>1, <1>2, Typed DEF ChunkInv, EndInv, Late, Cancel, chunkVars, scanVars, packVars, flags, endVars
<1> QED
  BY <1>2, <1>3, <1>4, <1>5, <1>6, <1>7 DEF ChunkInv

LEMMA StutterInv == ASSUME ChunkInv, UNCHANGED chunkVars PROVE ChunkInv'
<1>1. UNCHANGED <<rows, packs, jobs>> /\ (stopped => stopped') /\ (cancelled => cancelled')
  BY DEF chunkVars, scanVars, packVars, flags, endVars
<1>2. /\ RowsInv' /\ RefsInv' /\ \A j \in DOMAIN jobs : JobInv(j)'
      /\ \A x : InPacks(x)' <=> InPacks(x)
      /\ \A i : (Owned(i)' <=> Owned(i)) /\ (Complete(i)' <=> Complete(i))
      /\ AllDone' <=> AllDone
  BY <1>1, StillStep
<1>3. TypeOK'
  BY Constants, Typed DEF ChunkInv, TypeOK, Phases, chunkVars, scanVars, packVars, flags, endVars
<1>4. MapInv'
  BY Typed DEF ChunkInv, MapInv, Key, chunkVars, scanVars, packVars, flags, endVars
<1>5. JobsInv' /\ StopInv'
  BY <1>1, <1>2, Typed DEF ChunkInv, JobsInv, StopInv, AllDone, chunkVars, scanVars, packVars, flags, endVars
<1>6. PackedInv'
  BY <1>1, <1>2, Typed DEF ChunkInv, PackedInv, RowsInv, chunkVars, scanVars, packVars, flags, endVars
<1>7. EndInv'
  BY <1>1, <1>2, Typed DEF ChunkInv, EndInv, Late, chunkVars, scanVars, packVars, flags, endVars
<1> QED
  BY <1>2, <1>3, <1>4, <1>5, <1>6, <1>7 DEF ChunkInv

(***************************************************************************)
(* A row is taken: the rows before it keep their places.                   *)
(***************************************************************************)
Kept == /\ rows' \in Seq(Row1) /\ Len(rows) <= Len(rows')
        /\ \A i \in DOMAIN rows : i \in DOMAIN rows' /\ rows'[i] = rows[i]

NewRow1(c) == [key |-> Key(at + 1), cached |-> c, answers |-> {}, model |-> Null]

LEMMA RowTaken ==
  ASSUME ChunkInv, Scan
  PROVE  /\ Kept /\ \A i \in DOMAIN rows' : i \notin DOMAIN rows => rows'[i].answers = {}
         /\ mapping' \in [Places -> 0 .. Len(rows')] /\ hit' \in [Places -> BOOLEAN]
         /\ at + 1 \in Places
         /\ \A r \in Places : r # at + 1 => mapping'[r] = mapping[r]
         /\ IF Key(at + 1) = Null THEN mapping'[at + 1] = mapping[at + 1] /\ rows' = rows
            ELSE mapping'[at + 1] \in DOMAIN rows' /\ rows'[mapping'[at + 1]].key = Key(at + 1)
<1> DEFINE r == at + 1
<1>1. r \in Places /\ mapping \in [Places -> 0 .. Len(rows)] /\ hit \in [Places -> BOOLEAN]
  BY Constants DEF ChunkInv, TypeOK, Scan
<1>2. rows \in Seq(Row1) /\ Len(rows) \in Nat /\ DOMAIN rows = 1 .. Len(rows)
  BY Typed DEF ChunkInv
<1>3. CASE Key(r) = Null /\ hit' = [hit EXCEPT ![r] = NullHit] /\ UNCHANGED <<rows, mapping>>
  BY <1>1, <1>2, <1>3 DEF Kept, NullHit
<1>4. CASE /\ \E i \in DOMAIN rows : rows[i].key = Key(r) /\ mapping' = [mapping EXCEPT ![r] = FoundRow(i)]
           /\ hit' = [hit EXCEPT ![r] = TRUE] /\ UNCHANGED rows
  <2>1. PICK i \in DOMAIN rows : rows[i].key = Key(r) /\ mapping' = [mapping EXCEPT ![r] = i]
    BY <1>4 DEF FoundRow
  <2>2. Key(r) # Null
    BY <2>1, Constants, Typed DEF ChunkInv
  <2> QED
    BY <1>1, <1>2, <1>4, <2>1, <2>2 DEF Kept
<1>5. ASSUME NEW c \in BOOLEAN, Key(r) # Null, mapping' = [mapping EXCEPT ![r] = Len(rows) + 1],
             rows' = Append(rows, NewRow1(c)), hit' = [hit EXCEPT ![r] = c]
      PROVE  /\ Kept /\ \A i \in DOMAIN rows' : i \notin DOMAIN rows => rows'[i].answers = {}
             /\ mapping' \in [Places -> 0 .. Len(rows')] /\ hit' \in [Places -> BOOLEAN]
             /\ \A b \in Places : b # r => mapping'[b] = mapping[b]
             /\ mapping'[r] \in DOMAIN rows' /\ rows'[mapping'[r]].key = Key(r)
  <2>1. NewRow1(c) \in Row1 /\ NewRow1(c).answers = {} /\ NewRow1(c).key = Key(r)
    BY <1>1, <1>5, Constants DEF NewRow1, Row1
  <2> HIDE DEF NewRow1
  <2>2. /\ rows' \in Seq(Row1) /\ Len(rows') = Len(rows) + 1 /\ DOMAIN rows' = 1 .. Len(rows) + 1
        /\ \A i \in DOMAIN rows : rows'[i] = rows[i]
        /\ rows'[Len(rows) + 1] = NewRow1(c)
    BY <1>2, <1>5, <2>1
  <2>3. Kept
    BY <1>2, <2>2 DEF Kept
  <2>4. \A i \in DOMAIN rows' : i \notin DOMAIN rows => rows'[i].answers = {}
    BY <1>2, <2>1, <2>2
  <2>5. mapping' \in [Places -> 0 .. Len(rows')] /\ hit' \in [Places -> BOOLEAN]
    BY <1>1, <1>2, <1>5, <2>2
  <2> QED
    BY <1>1, <1>2, <1>5, <2>1, <2>2, <2>3, <2>4, <2>5
<1> QED
  BY <1>1, <1>3, <1>4, <1>5 DEF Scan, NewRow, NewRow1

LEMMA ScanInv == ASSUME ChunkInv, Scan PROVE ChunkInv'
<1>1. /\ phase = "scan" /\ phase' = "scan" /\ at' = at + 1 /\ jobs = <<>> /\ row = 1 /\ asked = 0
      /\ UNCHANGED <<row, packVars, jobs, flags, cancelled, endVars, faults>>
  BY DEF ChunkInv, JobsInv, PackedInv, Scan
<1>2. /\ Kept /\ \A i \in DOMAIN rows' : i \notin DOMAIN rows => rows'[i].answers = {}
      /\ mapping' \in [Places -> 0 .. Len(rows')] /\ hit' \in [Places -> BOOLEAN]
      /\ at + 1 \in Places
      /\ \A r \in Places : r # at + 1 => mapping'[r] = mapping[r]
      /\ IF Key(at + 1) = Null THEN mapping'[at + 1] = mapping[at + 1] /\ rows' = rows
         ELSE mapping'[at + 1] \in DOMAIN rows' /\ rows'[mapping'[at + 1]].key = Key(at + 1)
  BY RowTaken
<1>3. TypeOK'
  BY <1>1, <1>2, Constants DEF ChunkInv, TypeOK, Kept, Row1, packVars, flags, endVars
<1>4. RowsInv'
  BY <1>2, Constants DEF ChunkInv, RowsInv, Kept
<1>5. RefsInv'
  BY <1>1, <1>2 DEF ChunkInv, RefsInv, IsRef, Owned, Kept, packVars
<1>6. JobsInv' /\ StopInv'
  BY <1>1 DEF ChunkInv, JobsInv, StopInv, packVars, flags
<1>7. PackedInv'
  BY <1>1 DEF PackedInv, packVars
<1>8. EndInv'
  BY <1>1, <1>2 DEF ChunkInv, EndInv, Late, Owned, Complete, AllDone, Kept, endVars
<1>9. MapInv'
  <2>1. at \in Nat /\ DOMAIN rows = 1 .. Len(rows) /\ Len(rows) \in Nat
    BY Typed DEF ChunkInv
  <2>2. ASSUME NEW r \in 1 .. at + 1
        PROVE  IF Key(r) = Null THEN mapping'[r] = 0
               ELSE mapping'[r] \in DOMAIN rows' /\ rows'[mapping'[r]].key = Key(r)
    <3>1. CASE r = at + 1
      BY <1>2, <2>1, <3>1 DEF ChunkInv, MapInv
    <3>2. CASE r # at + 1
      <4>1. r \in 1 .. at /\ r \in Places /\ mapping'[r] = mapping[r]
        BY <1>2, <2>1, <3>2, Constants
      <4> QED
        BY <1>2, <4>1 DEF ChunkInv, MapInv, Kept
    <3> QED
      BY <3>1, <3>2
  <2>3. \A r \in Places : r > at + 1 => mapping'[r] = 0
    BY <1>2, <2>1, Constants DEF ChunkInv, MapInv
  <2> QED
    BY <1>1, <2>2, <2>3 DEF MapInv, Key
<1> QED
  BY <1>3, <1>4, <1>5, <1>6, <1>7, <1>8, <1>9 DEF ChunkInv

(***************************************************************************)
(* A question is packed: no ref is lost.                                   *)
(***************************************************************************)
LEMMA Packed ==
  ASSUME ChunkInv, Pack
  PROVE  /\ packs' \in Seq(Seq(Nat \X Nat))
         /\ \A x : InPacks(x) => InPacked(x)
         /\ InPacked(<<row, asked + 1>>)
         /\ \A j \in DOMAIN packs' : packs'[j] # <<>> /\
              \A n \in DOMAIN packs'[j] : packs'[j][n] = <<row, asked + 1>> \/ InPacks(packs'[j][n])
<1> DEFINE x == <<row, asked + 1>>
           R  == Nat \X Nat
<1>1. packs \in Seq(Seq(R)) /\ Len(packs) \in Nat /\ DOMAIN packs = 1 .. Len(packs)
  BY Typed DEF ChunkInv
<1>2. x \in R /\ \A j \in DOMAIN packs : packs[j] \in Seq(R) /\ packs[j] # <<>>
  BY <1>1, Typed DEF ChunkInv, RefsInv
<1> HIDE DEF x, R
<1>3. CASE packs' = Append(packs, <<x>>)
  <2> DEFINE one == <<x>>
  <2>1. one \in Seq(R) /\ one # <<>> /\ 1 \in DOMAIN one /\ \A n \in DOMAIN one : one[n] = x
    BY <1>2
  <2> HIDE DEF one
  <2>2. /\ packs' \in Seq(Seq(R)) /\ DOMAIN packs' = 1 .. Len(packs) + 1
        /\ \A j \in DOMAIN packs : packs'[j] = packs[j]
        /\ packs'[Len(packs) + 1] = one
    BY <1>1, <1>3, <2>1 DEF one
  <2>3. \A y : InPacks(y) => InPacked(y)
    BY <1>1, <2>2 DEF InPacks, InPacked
  <2>4. InPacked(x)
    <3>1. Len(packs) + 1 \in DOMAIN packs' /\ 1 \in DOMAIN packs'[Len(packs) + 1] /\ packs'[Len(packs) + 1][1] = x
      BY <1>1, <2>1, <2>2
    <3> QED
      BY <3>1 DEF InPacks, InPacked
  <2>5. ASSUME NEW j \in DOMAIN packs' PROVE packs'[j] # <<>> /\ \A n \in DOMAIN packs'[j] : packs'[j][n] = x \/ InPacks(packs'[j][n])
    <3>1. CASE j \in DOMAIN packs
      BY <1>2, <2>2, <3>1 DEF InPacks, InPacked
    <3>2. CASE j = Len(packs) + 1
      BY <2>1, <2>2, <3>2
    <3> QED
      BY <1>1, <2>2, <3>1, <3>2
  <2> QED
    BY <2>2, <2>3, <2>4, <2>5 DEF x, R
<1>4. CASE Fits /\ packs' = [packs EXCEPT ![Len(packs)] = Append(@, x)]
  <2> DEFINE l   == Len(packs)
             new == Append(packs[l], x)
  <2>1. l \in DOMAIN packs
    BY <1>1, <1>4 DEF Fits
  <2>2. /\ packs[l] \in Seq(R) /\ new \in Seq(R) /\ Len(packs[l]) \in Nat
        /\ DOMAIN new = 1 .. Len(packs[l]) + 1 /\ DOMAIN packs[l] = 1 .. Len(packs[l])
        /\ new[Len(packs[l]) + 1] = x /\ \A n \in DOMAIN packs[l] : new[n] = packs[l][n]
    BY <1>2, <2>1
  <2>3. packs' = [packs EXCEPT ![l] = new]
    BY <1>4
  <2> HIDE DEF new, l
  <2>4. packs' \in Seq(Seq(R)) /\ DOMAIN packs' = DOMAIN packs /\ packs'[l] = new
        /\ \A j \in DOMAIN packs : j # l => packs'[j] = packs[j]
    BY <1>1, <2>1, <2>2, <2>3
  <2>5. ASSUME NEW y, InPacks(y) PROVE InPacked(y)
    <3>1. PICK j \in DOMAIN packs : \E n \in DOMAIN packs[j] : packs[j][n] = y
      BY <2>5 DEF InPacks, InPacked
    <3>2. PICK n \in DOMAIN packs[j] : packs[j][n] = y
      BY <3>1
    <3>3. j \in DOMAIN packs' /\ n \in DOMAIN packs'[j] /\ packs'[j][n] = y
      <4>1. CASE j # l
        BY <2>4, <3>2, <4>1
      <4>2. CASE j = l
        <5>1. n \in DOMAIN new /\ new[n] = y
          BY <2>2, <3>2, <4>2
        <5> QED
          BY <2>1, <2>4, <4>2, <5>1
      <4> QED
        BY <4>1, <4>2
    <3> QED
      BY <3>3 DEF InPacks, InPacked
  <2>6. InPacked(x)
    <3>1. Len(packs[l]) + 1 \in DOMAIN new /\ new[Len(packs[l]) + 1] = x
      BY <2>2
    <3>2. l \in DOMAIN packs' /\ Len(packs[l]) + 1 \in DOMAIN packs'[l] /\ packs'[l][Len(packs[l]) + 1] = x
      BY <2>1, <2>4, <3>1
    <3> QED
      BY <3>2 DEF InPacks, InPacked
  <2>7. ASSUME NEW j \in DOMAIN packs' PROVE packs'[j] # <<>> /\ \A n \in DOMAIN packs'[j] : packs'[j][n] = x \/ InPacks(packs'[j][n])
    <3>1. CASE j # l
      BY <1>2, <2>4, <3>1 DEF InPacks, InPacked
    <3>2. CASE j = l
      <4>1. new # <<>>
        BY <2>2
      <4>2. \A n \in DOMAIN new : new[n] = x \/ InPacks(new[n])
        BY <2>1, <2>2 DEF InPacks, InPacked
      <4> QED
        BY <2>4, <3>2, <4>1, <4>2
    <3> QED
      BY <3>1, <3>2
  <2> QED
    BY <2>4, <2>5, <2>6, <2>7 DEF x, R
<1> QED
  BY <1>3, <1>4 DEF Pack, x

LEMMA PackInv == ASSUME ChunkInv, Pack PROVE ChunkInv'
<1>1. /\ phase = "pack" /\ phase' = "pack" /\ jobs = <<>> /\ asked' = asked + 1
      /\ row \in DOMAIN rows /\ ~rows[row].cached /\ asked + 1 \in 1 .. Questions[rows[row].key]
      /\ UNCHANGED <<scanVars, rows, row, jobs, flags, cancelled, endVars, faults>>
  <2>1. row \in 1 .. Len(rows) + 1 /\ row <= Len(rows) /\ asked < Questions[rows[row].key] /\ ~rows[row].cached
    BY DEF ChunkInv, PackedInv, Pack
  <2>2. row \in DOMAIN rows
    BY <2>1, Typed DEF ChunkInv
  <2>3. asked + 1 \in 1 .. Questions[rows[row].key]
    BY <2>1, <2>2, Typed DEF ChunkInv
  <2> QED
    BY <2>1, <2>2, <2>3 DEF ChunkInv, JobsInv, Pack
<1>2. /\ packs' \in Seq(Seq(Nat \X Nat))
      /\ \A x : InPacks(x) => InPacked(x)
      /\ InPacked(<<row, asked + 1>>)
      /\ \A j \in DOMAIN packs' : packs'[j] # <<>> /\
           \A n \in DOMAIN packs'[j] : packs'[j][n] = <<row, asked + 1>> \/ InPacks(packs'[j][n])
  BY Packed
<1>3. TypeOK'
  BY <1>1, <1>2 DEF ChunkInv, TypeOK, scanVars, flags, endVars
<1>4. RowsInv' /\ MapInv' /\ StopInv'
  BY <1>1 DEF ChunkInv, RowsInv, MapInv, StopInv, Key, scanVars, flags
<1>5. RefsInv'
  <2>1. \A x : InPacks(x) => IsRef(x)
    BY DEF ChunkInv, RefsInv, InPacks
  <2>2. IsRef(<<row, asked + 1>>)
    BY <1>1 DEF IsRef, Owned
  <2>3. \A x : IsRef(x) => IsRef(x)'
    BY <1>1 DEF IsRef, Owned
  <2> QED
    BY <1>2, <2>1, <2>2, <2>3 DEF RefsInv
<1>6. JobsInv'
  <2>1. Len(packs') \in Nat
    BY <1>2
  <2> QED
    BY <1>1, <2>1 DEF JobsInv
<1>7. PackedInv'
  <2>1. ASSUME NEW q \in 1 .. asked + 1 PROVE InPacked(<<row, q>>)
    <3>1. CASE q = asked + 1
      <4>1. <<row, q>> = <<row, asked + 1>>
        BY <3>1
      <4> QED
        BY <1>2, <4>1, Zenon
    <3>2. CASE q # asked + 1
      <4>1. q \in 1 .. asked
        BY <3>2, Typed DEF ChunkInv
      <4> QED
        BY <1>1, <1>2, <4>1 DEF ChunkInv, PackedInv, Owned
    <3> QED
      BY <3>1, <3>2
  <2>2. ASSUME NEW i \in 1 .. row - 1, Owned(i), NEW q \in 1 .. Questions[rows[i].key] PROVE InPacked(<<i, q>>)
    BY <1>1, <1>2, <2>2 DEF ChunkInv, PackedInv
  <2> QED
    BY <1>1, <2>1, <2>2 DEF ChunkInv, PackedInv, Owned, InPacks, InPacked
<1>8. EndInv'
  BY <1>1 DEF ChunkInv, EndInv, Late, Owned, Complete, AllDone, endVars
<1> QED
  BY <1>3, <1>4, <1>5, <1>6, <1>7, <1>8 DEF ChunkInv

(***************************************************************************)
(* A row may gain answers and a model: what was answered stays answered.   *)
(***************************************************************************)
Grown == /\ rows' \in Seq(Row1) /\ Len(rows') = Len(rows)
         /\ \A i \in DOMAIN rows : /\ rows'[i].key = rows[i].key /\ rows'[i].cached = rows[i].cached
                                   /\ rows[i].answers \subseteq rows'[i].answers
                                   /\ rows'[i].answers \subseteq 1 .. Questions[rows[i].key]
                                   /\ rows[i].model \in Models => rows'[i].model \in Models

LEMMA RowsGrow ==
  ASSUME ChunkInv, Grown, UNCHANGED packs
  PROVE  /\ RowsInv' /\ RefsInv' /\ DOMAIN rows' = DOMAIN rows
         /\ \A x : IsRef(x) /\ Answered(x) => Answered(x)'
         /\ \A i : Owned(i)' <=> Owned(i)
         /\ \A i \in DOMAIN rows : Complete(i) => Complete(i)'
<1>1. DOMAIN rows' = DOMAIN rows
  BY Typed DEF ChunkInv, Grown
<1>2. RowsInv'
  BY <1>1 DEF RowsInv, Grown
<1>3. \A i : Owned(i)' <=> Owned(i)
  BY <1>1 DEF Owned, Grown
<1>4. RefsInv'
  BY <1>1 DEF ChunkInv, RefsInv, IsRef, Owned, Grown
<1>5. \A x : IsRef(x) /\ Answered(x) => Answered(x)'
  BY DEF IsRef, Owned, Answered, Grown
<1>6. ASSUME NEW i \in DOMAIN rows, Complete(i) PROVE Complete(i)'
  BY <1>6 DEF Complete, Grown
<1> QED
  BY <1>1, <1>2, <1>3, <1>4, <1>5, <1>6

LEMMA NotGrown == ASSUME ChunkInv, UNCHANGED rows PROVE Grown
BY Typed DEF ChunkInv, RowsInv, Grown

(***************************************************************************)
(* What a step of one job needs to show: its own part.                     *)
(***************************************************************************)
LEMMA JobStep ==
  ASSUME ChunkInv, Grown, UNCHANGED <<phase, scanVars, row, packVars, cancelled, endVars>>,
         NEW j \in DOMAIN jobs, NEW job \in Job1, SetJob(j, job), jobs[j].state # "done",
         stopped' \in BOOLEAN, error' \in BOOLEAN, faults' \in 0 .. MaxFaults, stopped => stopped',
         error' \/ job.state = "stopping" \/ (UNCHANGED flags /\ jobs[j].state # "stopping"),
         JobInv(j)'
  PROVE  ChunkInv'
<1>1. /\ jobs \in Seq(Job1) /\ Len(jobs) \in Nat /\ DOMAIN jobs = 1 .. Len(jobs)
      /\ packs \in Seq(Seq(Nat \X Nat)) /\ Len(packs) \in Nat /\ DOMAIN packs = 1 .. Len(packs)
  BY Typed DEF ChunkInv
<1>2. /\ jobs' \in Seq(Job1) /\ Len(jobs') = Len(jobs) /\ DOMAIN jobs' = DOMAIN jobs
      /\ jobs'[j] = job /\ \A k \in DOMAIN jobs : k # j => jobs'[k] = jobs[k]
  BY <1>1 DEF SetJob
<1>3. /\ UNCHANGED <<phase, at, mapping, hit, row, asked, packs, cancelled, published, out, hits>>
      /\ phase \notin {"scan", "pack"} \cup Late /\ published = {} /\ ~AllDone
  <2>1. UNCHANGED <<phase, at, mapping, hit, row, asked, packs, cancelled, published, out, hits>>
    BY DEF scanVars, packVars, endVars
  <2>2. ~AllDone
    BY DEF AllDone
  <2>3. jobs # <<>>
    BY <1>1
  <2> QED
    BY <2>1, <2>2, <2>3 DEF ChunkInv, JobsInv, EndInv
<1>4. /\ RowsInv' /\ RefsInv' /\ DOMAIN rows' = DOMAIN rows
      /\ \A x : IsRef(x) /\ Answered(x) => Answered(x)'
      /\ \A i : Owned(i)' <=> Owned(i)
  BY <1>3, RowsGrow
<1>5. TypeOK'
  BY <1>2, <1>3 DEF ChunkInv, TypeOK, Grown, Row1, Job1
<1>6. MapInv'
  BY <1>3, <1>4, Constants DEF ChunkInv, MapInv, Grown, Key
<1>7. PackedInv'
  <2>1. \A i \in DOMAIN rows : rows'[i].key = rows[i].key
    BY DEF Grown
  <2> QED
    BY <1>3, <1>4, <2>1 DEF ChunkInv, PackedInv, InPacks
<1>8. JobsInv'
  <2>1. ASSUME NEW k \in DOMAIN jobs PROVE JobInv(k)'
    <3>1. CASE k # j
      <4>1. jobs'[k] = jobs[k] /\ JobInv(k) /\ k \in DOMAIN packs /\ packs' = packs
        BY <1>1, <1>2, <1>3, <3>1 DEF ChunkInv, JobsInv
      <4>2. \A n \in DOMAIN packs[k] : Answered(packs[k][n]) => Answered(packs[k][n])'
        BY <1>3, <1>4, <4>1 DEF ChunkInv, RefsInv, Answered
      <4>3. DOMAIN packs[k] = 1 .. Len(packs[k]) /\ Len(packs[k]) \in Nat /\ jobs[k].next \in Nat
        BY <4>1, Typed DEF ChunkInv
      <4> QED
        BY <1>3, <4>1, <4>2, <4>3 DEF JobInv
    <3> QED
      BY <3>1
  <2> QED
    BY <1>2, <1>3, <2>1 DEF ChunkInv, JobsInv
<1>9. StopInv'
  BY <1>2, <1>3 DEF ChunkInv, StopInv, flags
<1>10. EndInv'
  BY <1>3 DEF EndInv, Late
<1> QED
  BY <1>4, <1>5, <1>6, <1>7, <1>8, <1>9, <1>10 DEF ChunkInv

LEMMA JobStartInv == ASSUME ChunkInv, NEW j \in DOMAIN jobs, JobStart(j) PROVE ChunkInv'
<1>1. Grown /\ jobs[j] \in Job1 /\ jobs[j].state = "queued" /\ jobs[j].next = 1
  BY NotGrown, Typed DEF ChunkInv, JobsInv, JobInv, JobStart
<1> DEFINE job == JobIs(j, IF stopped \/ cancelled THEN "done" ELSE "calling")
<1>2. /\ job \in Job1 /\ job.next = 1
      /\ job.state = IF stopped \/ cancelled THEN "done" ELSE "calling"
  BY <1>1 DEF JobIs, Job1, JobStates
<1>3. SetJob(j, job)
  BY DEF JobStart
<1> HIDE DEF job
<1>4. jobs'[j] = job
  BY <1>3, Typed DEF ChunkInv, SetJob
<1>5. JobInv(j)'
  BY <1>2, <1>4 DEF JobInv, JobStart, flags
<1> QED
  BY <1>1, <1>2, <1>3, <1>5, JobStep DEF JobStart, ChunkInv, TypeOK, flags

LEMMA JobAnsweredInv ==
  ASSUME ChunkInv, NEW j \in DOMAIN jobs, NEW m \in Models, JobAnswered(j, m) PROVE ChunkInv'
<1>1. /\ Grown /\ jobs[j] \in Job1 /\ jobs[j].state = "calling" /\ jobs[j].next = 1
      /\ j \in DOMAIN packs /\ 1 \in DOMAIN packs[j] /\ UNCHANGED packs
  <2>1. Grown /\ jobs[j] \in Job1 /\ jobs[j].state = "calling" /\ jobs[j].next = 1 /\ UNCHANGED packs
    BY NotGrown, Typed DEF ChunkInv, JobsInv, JobInv, JobAnswered, packVars
  <2>2. j \in DOMAIN packs /\ packs[j] # <<>>
    BY Typed DEF ChunkInv, JobsInv, RefsInv
  <2>3. packs[j] \in Seq(Nat \X Nat)
    BY <2>2, Typed DEF ChunkInv
  <2> QED
    BY <2>1, <2>2, <2>3
<1> DEFINE job == [jobs[j] EXCEPT !.state = "reading", !.model = m]
<1>2. job \in Job1 /\ job.next = 1 /\ job.state = "reading" /\ job.model = m
  BY <1>1 DEF Job1, JobStates
<1>3. SetJob(j, job)
  BY DEF JobAnswered
<1> HIDE DEF job
<1>4. jobs'[j] = job
  BY <1>3, Typed DEF ChunkInv, SetJob
<1>5. JobInv(j)'
  BY <1>1, <1>2, <1>4 DEF JobInv
<1> QED
  BY <1>1, <1>2, <1>3, <1>5, JobStep DEF JobAnswered, ChunkInv, TypeOK, flags

LEMMA JobIsTyped ==
  ASSUME ChunkInv, NEW j \in DOMAIN jobs, NEW state \in JobStates, SetJob(j, JobIs(j, state))
  PROVE  /\ JobIs(j, state) \in Job1 /\ JobIs(j, state).state = state
         /\ jobs'[j] = JobIs(j, state)
<1>1. jobs[j] \in Job1
  BY Typed DEF ChunkInv
<1> QED
  BY <1>1, Typed DEF ChunkInv, SetJob, JobIs, Job1

LEMMA JobFailsInv == ASSUME ChunkInv, NEW j \in DOMAIN jobs, JobFails(j) PROVE ChunkInv'
<1>1. Grown
  BY NotGrown DEF JobFails
<1>2. JobIs(j, "failing") \in Job1 /\ JobIs(j, "failing").state = "failing" /\ jobs'[j] = JobIs(j, "failing")
  BY JobIsTyped DEF JobFails, JobStates
<1>3. JobInv(j)'
  BY <1>2 DEF JobInv
<1>4. faults' \in 0 .. MaxFaults
  BY Constants DEF JobFails, Fault, ChunkInv, TypeOK
<1>5. jobs[j].state \notin {"done", "stopping"}
  BY DEF JobFails
<1> QED
  BY <1>1, <1>2, <1>3, <1>4, <1>5, JobStep DEF JobFails, ChunkInv, TypeOK, flags

LEMMA JobStopInv == ASSUME ChunkInv, NEW j \in DOMAIN jobs, JobStop(j) PROVE ChunkInv'
<1>1. Grown
  BY NotGrown DEF JobStop
<1>2. JobIs(j, "stopping") \in Job1 /\ JobIs(j, "stopping").state = "stopping" /\ jobs'[j] = JobIs(j, "stopping")
  BY JobIsTyped DEF JobStop, JobStates
<1>3. JobInv(j)'
  BY <1>2 DEF JobInv, JobStop
<1> QED
  BY <1>1, <1>2, <1>3, JobStep DEF JobStop, ChunkInv, TypeOK

LEMMA JobErrorInv == ASSUME ChunkInv, NEW j \in DOMAIN jobs, JobError(j) PROVE ChunkInv'
<1>1. Grown
  BY NotGrown DEF JobError
<1>2. JobIs(j, "done") \in Job1 /\ JobIs(j, "done").state = "done" /\ jobs'[j] = JobIs(j, "done")
  BY JobIsTyped DEF JobError, JobStates
<1>3. stopped /\ stopped'
  BY DEF ChunkInv, JobsInv, JobInv, JobError
<1>4. JobInv(j)'
  BY <1>2, <1>3 DEF JobInv
<1> QED
  BY <1>1, <1>2, <1>3, <1>4, JobStep DEF JobError, ChunkInv, TypeOK

(***************************************************************************)
(* An answer is read: its row keeps the others it has.                     *)
(***************************************************************************)
LEMMA AnswerGrows ==
  ASSUME ChunkInv, NEW i \in DOMAIN rows, NEW q \in 1 .. Questions[rows[i].key], NEW m \in Models \cup {Null},
         rows[i].model \in Models => m \in Models, SetRow(i, rows[i].answers \cup {q}, m)
  PROVE  Grown /\ q \in rows'[i].answers /\ rows'[i].model = m
<1> DEFINE new == [rows[i] EXCEPT !.answers = rows[i].answers \cup {q}, !.model = m]
<1>1. /\ rows \in Seq(Row1) /\ rows[i] \in Row1 /\ Len(rows) \in Nat /\ DOMAIN rows = 1 .. Len(rows)
      /\ q \in Nat /\ \A k \in DOMAIN rows : rows[k].answers \subseteq 1 .. Questions[rows[k].key]
  BY Typed DEF ChunkInv, RowsInv
<1>2. /\ new \in Row1 /\ new.key = rows[i].key /\ new.cached = rows[i].cached
      /\ new.answers = rows[i].answers \cup {q} /\ new.model = m
  BY <1>1 DEF Row1
<1>3. rows' = [rows EXCEPT ![i] = new]
  BY DEF SetRow
<1> HIDE DEF new
<1>4. /\ rows' \in Seq(Row1) /\ Len(rows') = Len(rows) /\ rows'[i] = new
      /\ \A k \in DOMAIN rows : k # i => rows'[k] = rows[k]
  BY <1>1, <1>2, <1>3
<1>5. ASSUME NEW k \in DOMAIN rows
      PROVE  /\ rows'[k].key = rows[k].key /\ rows'[k].cached = rows[k].cached
             /\ rows[k].answers \subseteq rows'[k].answers
             /\ rows'[k].answers \subseteq 1 .. Questions[rows[k].key]
             /\ rows[k].model \in Models => rows'[k].model \in Models
  BY <1>1, <1>2, <1>4
<1> QED
  BY <1>2, <1>4, <1>5 DEF Grown

LEMMA JobAnswerInv == ASSUME ChunkInv, NEW j \in DOMAIN jobs, JobAnswer(j) PROVE ChunkInv'
<1> DEFINE n   == jobs[j].next
           i   == packs[j][n][1]
           q   == packs[j][n][2]
           one == rows[i].model \in {Null, jobs[j].model}
           m   == IF one THEN jobs[j].model ELSE rows[i].model
           job == IF ~one THEN JobIs(j, "failing")
                  ELSE IF n = Len(packs[j]) THEN JobIs(j, "done") ELSE [jobs[j] EXCEPT !.next = @ + 1]
<1>1. /\ jobs[j] \in Job1 /\ jobs[j].state = "reading" /\ jobs[j].model \in Models /\ n \in Nat
      /\ \A k \in 1 .. n - 1 : Answered(packs[j][k])
  BY Typed DEF ChunkInv, JobsInv, JobInv, JobAnswer
<1>2. /\ j \in DOMAIN packs /\ packs[j] \in Seq(Nat \X Nat) /\ Len(packs[j]) \in Nat
      /\ DOMAIN packs[j] = 1 .. Len(packs[j]) /\ n \in DOMAIN packs[j] /\ UNCHANGED packs
      /\ \A k \in DOMAIN packs[j] : IsRef(packs[j][k])
  <2>1. j \in DOMAIN packs /\ n \in DOMAIN packs[j] /\ UNCHANGED packs
    <3>1. j \in DOMAIN packs /\ UNCHANGED packs
      <4>1. j \in DOMAIN packs
        BY Typed DEF ChunkInv, JobsInv
      <4>2. UNCHANGED packs
        BY DEF JobAnswer, packVars
      <4> QED
        BY <4>1, <4>2
    <3>2. JobInv(j)
      BY DEF ChunkInv, JobsInv
    <3> QED
      BY <1>1, <3>1, <3>2 DEF JobInv
  <2>2. packs[j] \in Seq(Nat \X Nat) /\ Len(packs[j]) \in Nat /\ DOMAIN packs[j] = 1 .. Len(packs[j])
    BY <2>1, Typed DEF ChunkInv
  <2>3. \A k \in DOMAIN packs[j] : IsRef(packs[j][k])
    BY <2>1 DEF ChunkInv, RefsInv
  <2> QED
    BY <2>1, <2>2, <2>3
<1>3. i \in DOMAIN rows /\ q \in 1 .. Questions[rows[i].key] /\ rows[i] \in Row1
  BY <1>2, Typed DEF ChunkInv, IsRef, Owned
<1>4. /\ SetRow(i, rows[i].answers \cup {q}, m) /\ SetJob(j, job)
      /\ m \in Models \cup {Null} /\ (rows[i].model \in Models => m \in Models)
  <2>1. rows[i].model \in Models \cup {Null}
    BY <1>3 DEF Row1
  <2> QED
    BY <1>1, <2>1 DEF JobAnswer
<1> HIDE DEF m
<1>5. Grown /\ q \in rows'[i].answers /\ rows'[i].model = m
  <2> HIDE DEF i, q
  <2> QED
    BY <1>3, <1>4, AnswerGrows
<1>6. job \in Job1 /\ job.state \in {"failing", "done", "reading"}
  <2>1. /\ JobIs(j, "failing") \in Job1 /\ JobIs(j, "failing").state = "failing"
        /\ JobIs(j, "done") \in Job1 /\ JobIs(j, "done").state = "done"
        /\ [jobs[j] EXCEPT !.next = @ + 1] \in Job1
        /\ [jobs[j] EXCEPT !.next = @ + 1].state = "reading"
    BY <1>1 DEF JobIs, Job1, JobStates
  <2> QED
    BY <2>1
<1>7. jobs'[j] = job
  BY <1>4, Typed DEF ChunkInv, SetJob
<1>8. one => \A k \in 1 .. n : Answered(packs[j][k])'
  <2>1. ASSUME one, NEW k \in 1 .. n PROVE Answered(packs[j][k])'
    <3>1. CASE k = n
      BY <1>1, <1>2, <1>5, <2>1, <3>1 DEF Answered, m
    <3>2. CASE k # n
      <4>1. k \in 1 .. n - 1 /\ k \in DOMAIN packs[j]
        BY <1>1, <1>2, <3>2
      <4> QED
        BY <1>1, <1>2, <1>5, <4>1, RowsGrow DEF Answered
    <3> QED
      BY <3>1, <3>2
  <2> QED
    BY <2>1
<1>9. JobInv(j)'
  <2>1. CASE ~one
    <3>1. job.state = "failing"
      BY <1>1, <2>1 DEF JobIs, Job1
    <3> QED
      BY <1>7, <3>1 DEF JobInv
  <2>2. CASE one /\ n = Len(packs[j])
    <3>1. job.state = "done"
      BY <1>1, <2>2 DEF JobIs, Job1
    <3>2. \A k \in DOMAIN packs[j] : Answered(packs[j][k])'
      BY <1>2, <1>8, <2>2
    <3> QED
      BY <1>2, <1>7, <3>1, <3>2 DEF JobInv, Answered
  <2>3. CASE one /\ n # Len(packs[j])
    <3>1. job.state = "reading" /\ job.next = n + 1 /\ job.model = jobs[j].model
      BY <1>1, <2>3 DEF Job1
    <3>2. n + 1 \in DOMAIN packs[j] /\ (n + 1) - 1 = n
      BY <1>1, <1>2, <2>3
    <3> HIDE DEF job, n
    <3> QED
      BY <1>1, <1>2, <1>7, <1>8, <2>3, <3>1, <3>2 DEF JobInv, Answered
  <2> QED
    BY <2>1, <2>2, <2>3
<1> QED
  <2> HIDE DEF job
  <2>1. UNCHANGED <<phase, scanVars, row, packVars, flags, cancelled, endVars, faults>>
    BY DEF JobAnswer
  <2> QED
    BY <1>1, <1>4, <1>5, <1>6, <1>9, <2>1, JobStep DEF ChunkInv, TypeOK, flags

LEMMA SubmitInv == ASSUME ChunkInv, Submit PROVE ChunkInv'
<1> DEFINE job == [state |-> "queued", next |-> 1, model |-> Null]
<1>1. /\ phase = "submit" /\ Len(jobs) < Len(packs) /\ ~stopped /\ published = {}
      /\ UNCHANGED <<phase, scanVars, rows, row, packVars, flags, cancelled, endVars, faults>>
  BY DEF ChunkInv, EndInv, Late, Submit
<1>2. /\ jobs \in Seq(Job1) /\ Len(jobs) \in Nat /\ DOMAIN jobs = 1 .. Len(jobs) /\ Len(packs) \in Nat
  BY Typed DEF ChunkInv
<1>3. job \in Job1 /\ jobs' = Append(jobs, job) /\ job.state = "queued" /\ job.next = 1
  BY DEF Submit, Job1, JobStates
<1> HIDE DEF job
<1>4. /\ jobs' \in Seq(Job1) /\ Len(jobs') = Len(jobs) + 1 /\ DOMAIN jobs' = 1 .. Len(jobs) + 1
      /\ jobs'[Len(jobs) + 1] = job /\ \A j \in DOMAIN jobs : jobs'[j] = jobs[j]
  BY <1>2, <1>3
<1>5. TypeOK'
  BY <1>1, <1>4 DEF ChunkInv, TypeOK, Job1, scanVars, packVars, flags, endVars
<1>6. RowsInv' /\ MapInv' /\ RefsInv' /\ PackedInv'
  BY <1>1 DEF ChunkInv, RowsInv, MapInv, RefsInv, PackedInv, IsRef, InPacks, Owned, Key, scanVars, packVars
<1>7. JobsInv'
  <2>1. ASSUME NEW j \in DOMAIN jobs' PROVE JobInv(j)'
    <3>1. CASE j \in DOMAIN jobs
      BY <1>1, <1>4, <3>1 DEF ChunkInv, JobsInv, JobInv, Answered, packVars, flags
    <3>2. CASE j = Len(jobs) + 1
      BY <1>3, <1>4, <3>2 DEF JobInv
    <3> QED
      BY <1>2, <1>4, <3>1, <3>2
  <2> QED
    BY <1>1, <1>2, <1>4, <2>1 DEF JobsInv, packVars
<1>8. StopInv' /\ EndInv'
  BY <1>1 DEF StopInv, EndInv, Late, flags, endVars
<1> QED
  BY <1>5, <1>6, <1>7, <1>8 DEF ChunkInv

(***************************************************************************)
(* A claimed row gets all its answers at once.                             *)
(***************************************************************************)
LEMMA AwaitInv == ASSUME ChunkInv, Await PROVE ChunkInv'
<1>1. /\ phase = "await" /\ row' = row + 1 /\ row \in DOMAIN rows
      /\ UNCHANGED <<phase, scanVars, packVars, jobs, flags, cancelled, endVars, faults>>
  BY Typed DEF ChunkInv, EndInv, Late, Await
<1>2. /\ rows \in Seq(Row1) /\ Len(rows) \in Nat /\ DOMAIN rows = 1 .. Len(rows) /\ rows[row] \in Row1
      /\ Questions[rows[row].key] \in Nat
  BY <1>1, Typed DEF ChunkInv
<1>3. Grown /\ rows'[row].answers = 1 .. Questions[rows'[row].key] /\ rows'[row].model \in Models
  <2>1. CASE ~rows[row].cached
    <3>1. UNCHANGED rows /\ Complete(row)
      BY <1>1, <2>1 DEF ChunkInv, EndInv, Late, Owned, Await
    <3> QED
      BY <1>1, <3>1, NotGrown DEF Complete
  <2>2. CASE rows[row].cached
    <3>1. PICK m \in Models : SetRow(row, 1 .. Questions[rows[row].key], m)
      BY <2>2 DEF Await
    <3> DEFINE new == [rows[row] EXCEPT !.answers = 1 .. Questions[rows[row].key], !.model = m]
    <3>2. /\ new \in Row1 /\ new.key = rows[row].key /\ new.cached = rows[row].cached
          /\ new.answers = 1 .. Questions[rows[row].key] /\ new.model = m
      <4>1. 1 .. Questions[rows[row].key] \in SUBSET Nat
        BY <1>2
      <4> QED
        BY <1>2, <4>1 DEF Row1
    <3>3. rows' = [rows EXCEPT ![row] = new]
      BY <3>1 DEF SetRow
    <3> HIDE DEF new
    <3>4. /\ rows' \in Seq(Row1) /\ Len(rows') = Len(rows) /\ rows'[row] = new
          /\ \A k \in DOMAIN rows : k # row => rows'[k] = rows[k]
      BY <1>1, <1>2, <3>2, <3>3
    <3>5. \A k \in DOMAIN rows : rows[k].answers \subseteq 1 .. Questions[rows[k].key]
      BY DEF ChunkInv, RowsInv
    <3> QED
      <4>1. rows'[row].answers = 1 .. Questions[rows'[row].key] /\ rows'[row].model \in Models
        BY <3>2, <3>4
      <4>2. Grown
        <5>1. ASSUME NEW k \in DOMAIN rows
              PROVE  /\ rows'[k].key = rows[k].key /\ rows'[k].cached = rows[k].cached
                     /\ rows[k].answers \subseteq rows'[k].answers
                     /\ rows'[k].answers \subseteq 1 .. Questions[rows[k].key]
                     /\ rows[k].model \in Models => rows'[k].model \in Models
          BY <1>1, <3>2, <3>4, <3>5
        <5> QED
          BY <3>4, <5>1 DEF Grown
      <4> QED
        BY <4>1, <4>2
  <2> QED
    BY <2>1, <2>2
<1>4. /\ RowsInv' /\ RefsInv' /\ DOMAIN rows' = DOMAIN rows
      /\ \A x : IsRef(x) /\ Answered(x) => Answered(x)'
      /\ \A i : Owned(i)' <=> Owned(i)
      /\ \A i \in DOMAIN rows : Complete(i) => Complete(i)'
  BY <1>1, <1>3, RowsGrow DEF packVars
<1>5. TypeOK'
  BY <1>1, <1>2, <1>3 DEF ChunkInv, TypeOK, Grown, Row1, scanVars, packVars, flags, endVars
<1>6. MapInv'
  BY <1>1, <1>3, <1>4 DEF ChunkInv, MapInv, Grown, Key, scanVars
<1>7. PackedInv' /\ StopInv'
  BY <1>1 DEF ChunkInv, PackedInv, StopInv, packVars, flags
<1>8. JobsInv'
  <2>1. ASSUME NEW j \in DOMAIN jobs PROVE JobInv(j)'
    <3>1. JobInv(j) /\ j \in DOMAIN packs /\ jobs[j].state = "done"
      BY <1>1, Typed DEF ChunkInv, JobsInv, EndInv, Late, AllDone
    <3>2. \A n \in DOMAIN packs[j] : Answered(packs[j][n]) => Answered(packs[j][n])'
      BY <1>1, <1>4, <3>1 DEF ChunkInv, RefsInv, Answered, packVars
    <3> QED
      BY <1>1, <3>1, <3>2 DEF JobInv, packVars, flags
  <2> QED
    BY <1>1, <2>1 DEF ChunkInv, JobsInv, packVars
<1>9. EndInv'
  <2>1. ASSUME NEW i \in 1 .. row, i \in DOMAIN rows PROVE Complete(i)'
    <3>1. CASE i = row
      BY <1>3, <3>1 DEF Complete
    <3>2. CASE i # row
      <4>1. i \in 1 .. row - 1
        BY <1>1, <1>2, <3>2
      <4> QED
        BY <1>1, <1>4, <2>1, <4>1 DEF ChunkInv, EndInv
    <3> QED
      BY <3>1, <3>2
  <2>2. /\ AllDone' /\ \A i \in DOMAIN rows' : Owned(i)' => Complete(i)'
        /\ \A i \in published' : Owned(i)' /\ Complete(i)'
    BY <1>1, <1>4 DEF ChunkInv, EndInv, Late, AllDone, Owned, endVars
  <2>3. row' - 1 = row /\ row' \in Nat \ {0}
    BY <1>1, <1>2
  <2> QED
    BY <1>1, <1>4, <2>1, <2>2, <2>3 DEF EndInv, Late
<1> QED
  BY <1>4, <1>5, <1>6, <1>7, <1>8, <1>9 DEF ChunkInv

-----------------------------------------------------------------------------
LEMMA NextInv == ChunkInv /\ [Next]_chunkVars => ChunkInv'
<1> SUFFICES ASSUME ChunkInv, [Next]_chunkVars PROVE ChunkInv'
  OBVIOUS
<1>1. CASE Scan \/ ScanEnd \/ Pack \/ PackNext \/ Reserve \/ Submit \/ SubmitEnd
  BY <1>1, ScanInv, ScanEndInv, PackInv, PackNextInv, ReserveInv, SubmitInv, SubmitEndInv
<1>2. CASE Join \/ Publish \/ Await \/ AwaitEnd \/ Return \/ ReturnEnd \/ Unwind
  BY <1>2, JoinInv, PublishInv, AwaitInv, AwaitEndInv, ReturnInv, ReturnEndInv, UnwindInv
<1>3. CASE Throws \/ Cancel \/ UNCHANGED chunkVars
  BY <1>3, ThrowsInv, CancelInv, StutterInv
<1>4. ASSUME NEW j \in DOMAIN jobs, Job(j) PROVE ChunkInv'
  BY <1>4, JobStartInv, JobAnsweredInv, JobAnswerInv, JobFailsInv, JobStopInv, JobErrorInv DEF Job
<1> QED
  BY <1>1, <1>2, <1>3, <1>4 DEF Next, Thread

LEMMA Invariant == Spec => []ChunkInv
<1> QED
  BY InitInv, NextInv, PTL DEF Spec

(* Type correctness. *)
THEOREM ChunkTypeCorrect == Spec => []TypeOK
<1>1. ChunkInv => TypeOK
  BY DEF ChunkInv
<1> QED
  BY <1>1, Invariant, PTL

(***************************************************************************)
(* What this call completes for others is complete, although jobs may      *)
(* return without a word when the query is cancelled and packs may never   *)
(* be submitted (jev_extension.cpp:1052, 1090, 1101-1116).                 *)
(***************************************************************************)
THEOREM PublishedIsComplete == Spec => []PublishedComplete
<1>1. ChunkInv => PublishedComplete
  BY DEF ChunkInv, EndInv, Complete, PublishedComplete
<1> QED
  BY <1>1, Invariant, PTL

(***************************************************************************)
(* A scalar call returns, row by row, the complete judgment of each row's  *)
(* own key, whoever asked (jev_extension.cpp:962-983, 1063-1077,           *)
(* 1112-1128): the invariant says that a row of the chunk maps to a        *)
(* distinct row of its key, and that the rows are complete when results    *)
(* are read.                                                               *)
(***************************************************************************)
LEMMA ResultIsJudged ==
  ASSUME ChunkInv, phase = "return", NEW r \in Places
  PROVE  Result(r) \in Caller!Results(Input[r])
<1>1. at = Len(Input) /\ r \in 1 .. at
  BY Constants DEF ChunkInv, MapInv
<1>2. CASE Key(r) = Null
  <2>1. Result(r) = Null
    BY <1>1, <1>2 DEF ChunkInv, MapInv, Result
  <2> QED
    BY <1>2, <2>1 DEF Key, Caller!Results
<1>3. CASE Key(r) # Null
  <2>1. mapping[r] \in DOMAIN rows /\ rows[mapping[r]].key = Key(r) /\ mapping[r] # 0
    BY <1>1, <1>3, Typed DEF ChunkInv, MapInv
  <2>2. Complete(mapping[r])
    BY <2>1 DEF ChunkInv, EndInv
  <2>3. /\ Result(r) = [key |-> Key(r), answers |-> 1 .. Questions[Key(r)], model |-> rows[mapping[r]].model]
        /\ rows[mapping[r]].model \in Models
    BY <2>1, <2>2 DEF Result, Complete
  <2> QED
    BY <1>3, <2>3 DEF Key, Caller!Results
<1> QED
  BY <1>2, <1>3

THEOREM ChunkImplementsJudged == Spec => ImplementsJudged
<1>1. Init => Caller!Init
  BY DEF Init, Caller!Init
<1>2. ChunkInv /\ [Next]_chunkVars => [Caller!Emit]_out
  <2> SUFFICES ASSUME ChunkInv, [Next]_chunkVars, out' # out PROVE Caller!Emit
    OBVIOUS
  <2>1. Return
    BY DEF Next, Thread, Job, Scan, ScanEnd, Pack, PackNext, Reserve, Submit, SubmitEnd, Join, Publish, Await,
           AwaitEnd, ReturnEnd, Unwind, Throws, Cancel, JobStart, JobAnswered, JobAnswer, JobFails, JobStop,
           JobError, chunkVars, endVars
  <2>2. Len(out) + 1 \in Places /\ phase = "return" /\ out' = Append(out, Result(Len(out) + 1)) /\ Len(out) < Len(Input)
    <3>1. Len(out) \in Nat
      BY DEF ChunkInv, TypeOK
    <3> QED
      BY <2>1, <3>1, Constants DEF Return
  <2>3. Result(Len(out) + 1) \in Caller!Results(Input[Len(out) + 1])
    BY <2>2, ResultIsJudged
  <2> QED
    BY <2>2, <2>3 DEF Caller!Emit
<1> QED
  BY <1>1, <1>2, Invariant, PTL DEF Spec, ImplementsJudged, Caller!Spec
================================================================================
