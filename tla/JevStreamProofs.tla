---------------------------- MODULE JevStreamProofs ----------------------------
(***************************************************************************)
(* A jev_stream returns the rows of its input in order, each with its own  *)
(* complete judgment, for every input, every bound and every way its packs *)
(* are cut and answered.                                                   *)
(***************************************************************************)
EXTENDS JevStream, SumTheorems, SequenceTheorems, FiniteSetTheorems, TLAPS

(* A question that is asked belongs to a row that was taken and is not NULL. *)
Asked(q) == /\ q[1] \in 1 .. offset /\ Key(q[1]) # Null
            /\ q[2] \in 1 .. Questions[Key(q[1])]

(* The rows that wait are the next of the input, in order. *)
OrderInv ==
  phase # "closed" =>
    /\ offset = Len(out) + Len(rows)
    /\ \A i \in DOMAIN rows : rows[i] = Len(out) + i

FlightInv ==
  \A r \in 1 .. offset : Key(r) # Null => flight[r] \in Rows /\ Key(flight[r]) = Key(r)

AskingInv ==
  /\ phase \in {"input", "ask", "flushask", "drain"} => chunk \in DOMAIN Ends
  /\ phase \in {"ask", "flushask"} => rows # <<>> /\ Key(Last(rows)) # Null

JobsInv ==
  /\ \A i \in DOMAIN pack : Asked(pack[i])
  /\ \A j \in DOMAIN jobs :
       /\ \A i \in DOMAIN jobs[j].refs : Asked(jobs[j].refs[i])
       /\ jobs[j].state = "completing" => jobs[j].model \in Models
       /\ jobs[j].state = "completing" => jobs[j].next \in DOMAIN jobs[j].refs
       /\ jobs[j].state \in {"queued", "calling"} => jobs[j].next = 1 /\ jobs[j].refs # <<>>

AnswerInv ==
  /\ \A r \in Rows : answers[r] # {} => Key(r) # Null /\ answers[r] \subseteq 1 .. Questions[Key(r)]
  /\ \A r \in ready : answers[r] = 1 .. Questions[Key(r)] /\ model[r] \in Models

StreamInv == TypeOK /\ OrderInv /\ FlightInv /\ AskingInv /\ JobsInv /\ AnswerInv

-----------------------------------------------------------------------------
Job1 == [refs : Seq(Rows \X Nat), state : JobStates, next : Nat, model : Models \cup {Null}]

LEMMA Constants ==
  /\ Input \in Seq(Keys \cup {Null}) /\ Len(Input) \in Nat /\ Rows = 1 .. Len(Input)
  /\ \A r \in Rows : Key(r) \in Keys \cup {Null}
  /\ \A k \in Keys : Questions[k] \in Nat \ {0}
  /\ \A k \in Keys \cup {Null} : KeyBytes[k] \in Nat
  /\ VectorSize \in Nat \ {0} /\ SizeMax \in Nat /\ MaxFaults \in Nat /\ AnswerBytes \subseteq Nat
  /\ Null \notin Models /\ Null \notin Keys
  /\ Len(Ends) \in Nat /\ DOMAIN Ends = 1 .. Len(Ends)
  /\ \A i \in 1 .. Len(Ends) : Ends[i] \in 0 .. Len(Input)
<1>1. Input \in Seq(Keys \cup {Null}) /\ Len(Input) \in Nat /\ Rows = 1 .. Len(Input)
  BY StreamAssumption DEF Rows
<1>2. \A r \in Rows : Key(r) \in Keys \cup {Null}
  BY <1>1 DEF Key
<1>3. Ends \in Seq(0 .. Len(Input))
  BY StreamAssumption
<1>4. Len(Ends) \in Nat /\ DOMAIN Ends = 1 .. Len(Ends) /\ \A i \in 1 .. Len(Ends) : Ends[i] \in 0 .. Len(Input)
  BY <1>3
<1>5. /\ \A k \in Keys : Questions[k] \in Nat \ {0}
      /\ \A k \in Keys \cup {Null} : KeyBytes[k] \in Nat
      /\ VectorSize \in Nat \ {0} /\ SizeMax \in Nat /\ MaxFaults \in Nat /\ AnswerBytes \subseteq Nat
      /\ Null \notin Models /\ Null \notin Keys
  BY StreamAssumption
<1> QED
  BY <1>1, <1>2, <1>4, <1>5

LEMMA SizeTBounds ==
  ASSUME NEW n \in Int
  PROVE  SizeT(n) \in 0 .. SizeMax
<1> DEFINE m == SizeMax + 1
<1>1. m \in Nat /\ m > 0 /\ SizeMax = m - 1
  BY Constants
<1> HIDE DEF m
<1>2. n % m \in 0 .. m - 1
  BY <1>1
<1> QED
  BY <1>1, <1>2 DEF SizeT, m

LEMMA ReapedJobs ==
  ASSUME TypeOK
  PROVE  /\ Reaped \in Seq(Job1)
         /\ \A i \in DOMAIN Reaped : \E j \in DOMAIN jobs : Reaped[i] = jobs[j]
<1> DEFINE done == { n \in DOMAIN jobs : \A i \in 1 .. n : jobs[i].state = "done" }
           c == Cardinality(done)
<1>1. jobs \in Seq(Job1) /\ DOMAIN jobs = 1 .. Len(jobs) /\ Len(jobs) \in Nat
  BY DEF TypeOK, Job1
<1>2. IsFiniteSet(done) /\ c \in Nat
  <2>1. IsFiniteSet(1 .. Len(jobs)) /\ done \in SUBSET (1 .. Len(jobs))
    BY <1>1, FS_Interval
  <2> QED
    BY <2>1, FS_Subset, FS_CardinalityType
<1>3. Reaped = SubSeq(jobs, c + 1, Len(jobs))
  BY DEF Reaped
<1> HIDE DEF c, done
<1>4. SubSeq(jobs, c + 1, Len(jobs)) \in Seq(Job1)
  BY <1>1, <1>2
<1>5. \A i \in 1 .. Len(SubSeq(jobs, c + 1, Len(jobs))) :
        SubSeq(jobs, c + 1, Len(jobs))[i] = jobs[c + i] /\ c + i \in 1 .. Len(jobs)
  BY <1>1, <1>2
<1> QED
  BY <1>1, <1>3, <1>4, <1>5

LEMMA TypedJob ==
  ASSUME TypeOK, NEW j \in DOMAIN jobs
  PROVE  jobs \in Seq(Job1) /\ jobs[j] \in Job1
<1>1. jobs \in Seq(Job1)
  BY DEF TypeOK, Job1
<1> QED
  BY <1>1

(* A job keeps its refs; it keeps JobsInv when its own state does. *)
LEMMA OneJob ==
  ASSUME TypeOK, JobsInv, NEW j \in DOMAIN jobs, NEW job \in Job1, SetJob(j, job),
         job.refs = jobs[j].refs, UNCHANGED <<pack, offset>>,
         job.state = "completing" => job.model \in Models /\ job.next \in DOMAIN job.refs,
         job.state \in {"queued", "calling"} => job.next = 1 /\ job.refs # <<>>
  PROVE  jobs' \in Seq(Job1) /\ JobsInv'
<1>1. jobs \in Seq(Job1) /\ DOMAIN jobs = 1 .. Len(jobs) /\ Len(jobs) \in Nat
  BY DEF TypeOK, Job1
<1>2. jobs' = [jobs EXCEPT ![j] = job]
  BY DEF SetJob
<1>3. jobs' \in Seq(Job1) /\ DOMAIN jobs' = DOMAIN jobs /\ jobs'[j] = job
      /\ \A k \in DOMAIN jobs : k # j => jobs'[k] = jobs[k]
  BY <1>1, <1>2
<1>4. \A q : Asked(q)' <=> Asked(q)
  BY DEF Asked, Key
<1>5. \A i \in DOMAIN pack' : Asked(pack'[i])
  BY DEF JobsInv
<1>6. ASSUME NEW k \in DOMAIN jobs'
      PROVE  /\ \A i \in DOMAIN jobs'[k].refs : Asked(jobs'[k].refs[i])
             /\ jobs'[k].state = "completing" => jobs'[k].model \in Models
             /\ jobs'[k].state = "completing" => jobs'[k].next \in DOMAIN jobs'[k].refs
             /\ jobs'[k].state \in {"queued", "calling"} => jobs'[k].next = 1 /\ jobs'[k].refs # <<>>
  <2>1. CASE k = j
    BY <1>3, <1>6, <2>1 DEF JobsInv
  <2>2. CASE k # j
    BY <1>3, <1>6, <2>2 DEF JobsInv
  <2> QED
    BY <2>1, <2>2
<1> QED
  BY <1>3, <1>4, <1>5, <1>6 DEF JobsInv

LEMMA InitInv == Init => StreamInv
<1> SUFFICES ASSUME Init PROVE StreamInv
  OBVIOUS
<1>1. TypeOK
  <2>1. \A S : <<>> \in Seq(S)
    OBVIOUS
  <2>2. 0 \in Nat /\ 0 \in 0 .. SizeMax /\ 0 \in 0 .. MaxFaults /\ 0 \in 0 .. VectorSize /\ 0 \in 0 .. Len(Input)
        /\ 1 \in 1 .. Len(Ends) + 1
    BY Constants
  <2>3. flight \in [Rows -> Nat] /\ rowBytes \in [Rows -> Nat]
    BY DEF Init
  <2>4. answers \in [Rows -> SUBSET Nat] /\ model \in [Rows -> Models \cup {Null}] /\ ready \subseteq Rows
    BY DEF Init
  <2>5. retained \in Int /\ hits \in Nat /\ asked \in Nat
    BY DEF Init
  <2>6. stopped \in BOOLEAN /\ error \in BOOLEAN /\ phase \in Phases
    BY Zenon DEF Init, Phases
  <2> QED
    BY <2>1, <2>2, <2>3, <2>4, <2>5, <2>6 DEF Init, TypeOK
<1>2. OrderInv /\ AskingInv /\ JobsInv
  BY DEF Init, OrderInv, AskingInv, JobsInv
<1>3. FlightInv /\ AnswerInv
  BY DEF Init, FlightInv, AnswerInv
<1> QED
  BY <1>1, <1>2, <1>3 DEF StreamInv

(* What a step of the thread that leaves the rows alone keeps. *)
LEMMA RowsKept ==
  ASSUME StreamInv, TypeOK', phase # "closed",
         UNCHANGED <<offset, rows, flight, pack, answers, model, ready, out>>,
         \A i \in DOMAIN jobs' : \E j \in DOMAIN jobs : jobs'[i] = jobs[j]
  PROVE  OrderInv' /\ FlightInv' /\ JobsInv' /\ AnswerInv'
<1>1. \A q : Asked(q)' <=> Asked(q)
  BY DEF Asked, Key
<1>2. OrderInv'
  BY DEF StreamInv, OrderInv
<1>3. FlightInv' /\ AnswerInv'
  BY DEF StreamInv, FlightInv, AnswerInv, Key
<1>4. JobsInv'
  BY <1>1 DEF StreamInv, JobsInv
<1> QED
  BY <1>2, <1>3, <1>4

LEMMA AddStep == ASSUME StreamInv, Add PROVE StreamInv'
<1> DEFINE r == offset + 1
<1>1. /\ rows \in Seq(Rows) /\ Len(rows) \in Nat /\ offset \in Nat /\ phase = "input"
      /\ chunk \in DOMAIN Ends /\ offset < Ends[chunk]
  BY DEF StreamInv, TypeOK, AskingInv, Add
<1>2. r \in Rows /\ r \in 1 .. Len(Input) /\ r \in Nat /\ Key(r) \in Keys \cup {Null}
  BY <1>1, Constants
<1>3. rows' = Append(rows, r) /\ offset' = r /\ rows' \in Seq(Rows) /\ Len(rows') = Len(rows) + 1
      /\ rows' # <<>> /\ Last(rows') = r
      /\ \A i \in DOMAIN rows : rows'[i] = rows[i]
      /\ rows'[Len(rows) + 1] = r /\ DOMAIN rows = 1 .. Len(rows) /\ DOMAIN rows' = 1 .. Len(rows) + 1
  BY <1>1, <1>2 DEF Add, Last
<1>4. /\ UNCHANGED <<chunk, pack, jobs, answers, model, rowBytes, ready, resultBytes, stopped, error, count, out, faults>>
      /\ retained' = retained + KeyBytes[Key(r)] /\ hits' \in {hits, hits + 1}
      /\ phase' \in {"input", "ask"} /\ asked' \in {asked, 0}
  BY <1>1 DEF Add, jobVars, ansVars, flags, outVars
<1>5. flight' \in [Rows -> Nat] /\ (\A p \in Rows : p # r => flight'[p] = flight[p])
      /\ (Key(r) # Null => flight'[r] \in Rows /\ Key(flight'[r]) = Key(r))
      /\ (phase' = "ask" => Key(r) # Null)
  <2>1. flight \in [Rows -> Nat]
    BY DEF StreamInv, TypeOK
  <2>2. CASE Key(r) = Null /\ UNCHANGED <<phase, flight>>
    BY <2>1, <2>2, <1>1
  <2>3. CASE phase' = phase /\ \E f \in 1 .. offset : Owns(f) /\ Key(f) = Key(r) /\ flight' = [flight EXCEPT ![r] = f]
    <3>1. PICK f \in 1 .. offset : Owns(f) /\ Key(f) = Key(r) /\ flight' = [flight EXCEPT ![r] = f]
      BY <2>3
    <3>2. f \in Rows /\ f \in Nat
      BY <1>1, <1>2, Constants
    <3> QED
      BY <3>1, <3>2, <2>1, <2>3, <1>1, <1>2
  <2>4. CASE Key(r) # Null /\ flight' = [flight EXCEPT ![r] = r]
    BY <2>1, <2>4, <1>2
  <2> QED
    BY <2>2, <2>3, <2>4 DEF Add
<1>6. TypeOK'
  <2>1. KeyBytes[Key(r)] \in Nat
    BY <1>2, Constants
  <2>2. retained' \in Int /\ hits' \in Nat /\ offset' \in 0 .. Len(Input) /\ asked' \in Nat /\ phase' \in Phases
    <3>1. retained \in Int /\ hits \in Nat /\ asked \in Nat
      BY DEF StreamInv, TypeOK
    <3>2. retained' = retained + KeyBytes[Key(r)]
      BY <1>4
    <3>3. retained' \in Int
      BY <2>1, <3>1, <3>2
    <3>4. hits' \in Nat /\ asked' \in Nat /\ phase' \in Phases
      BY <3>1, <1>4 DEF Phases
    <3>5. offset' \in 0 .. Len(Input)
      BY <1>2, <1>3, Constants
    <3> QED
      BY <3>3, <3>4, <3>5
  <2> QED
    BY <2>2, <1>3, <1>4, <1>5 DEF StreamInv, TypeOK
<1>7. OrderInv'
  <2>1. offset = Len(out) + Len(rows) /\ \A i \in DOMAIN rows : rows[i] = Len(out) + i
    BY <1>1 DEF StreamInv, OrderInv
  <2>2. Len(out) \in Nat
    BY DEF StreamInv, TypeOK
  <2>3. offset' = Len(out) + Len(rows) + 1 /\ \A i \in DOMAIN rows' : rows'[i] = Len(out) + i
    BY <2>1, <2>2, <1>1, <1>3
  <2> QED
    BY <2>2, <2>3, <1>1, <1>3, <1>4 DEF OrderInv
<1>8. FlightInv'
  <2> SUFFICES ASSUME NEW p \in 1 .. offset', Key(p) # Null
               PROVE  flight'[p] \in Rows /\ Key(flight'[p]) = Key(p)
    BY DEF FlightInv, Key
  <2>1. CASE p = r
    BY <2>1, <1>5
  <2>2. CASE p # r
    <3>1. p \in 1 .. offset /\ p \in Rows
      BY <2>2, <1>1, <1>2, <1>3, Constants
    <3> QED
      BY <3>1, <2>2, <1>5 DEF StreamInv, FlightInv
  <2> QED
    BY <2>1, <2>2
<1>9. AskingInv'
  BY <1>1, <1>3, <1>4, <1>5 DEF AskingInv, Key
<1>10. JobsInv'
  <2>1. ASSUME NEW q, Asked(q) PROVE Asked(q)'
    BY <2>1, <1>1, <1>3 DEF Asked, Key
  <2> QED
    BY <2>1, <1>4 DEF StreamInv, JobsInv
<1>11. AnswerInv'
  BY <1>4 DEF StreamInv, AnswerInv, Key
<1> QED
  BY <1>6, <1>7, <1>8, <1>9, <1>10, <1>11 DEF StreamInv

LEMMA AskStep == ASSUME StreamInv, Ask PROVE StreamInv'
<1> DEFINE r == Last(rows)
<1>1. /\ rows \in Seq(Rows) /\ rows # <<>> /\ Key(r) # Null /\ phase = "ask" /\ chunk \in DOMAIN Ends
      /\ asked < Questions[Key(r)] /\ asked \in Nat
      /\ phase' \in {"ask", "flushask"}
      /\ UNCHANGED <<chunk, offset, rows, flight, retained, hits, jobs, ansVars, flags, outVars, faults>>
  BY DEF StreamInv, TypeOK, AskingInv, Ask
<1>2. r \in Rows /\ r \in 1 .. offset
  <2>1. Len(rows) \in Nat \ {0} /\ DOMAIN rows = 1 .. Len(rows) /\ r = rows[Len(rows)]
    BY <1>1 DEF Last
  <2>2. Len(out) \in Nat
    BY DEF StreamInv, TypeOK
  <2> QED
    BY <2>1, <2>2, <1>1 DEF StreamInv, OrderInv
<1>3. Questions[Key(r)] \in Nat
  BY <1>1, <1>2, Constants
<1>4. pack \in Seq(Rows \X Nat)
  BY DEF StreamInv, TypeOK
<1>5. \/ pack' = Append(pack, <<r, asked + 1>>) /\ asked' = asked + 1
      \/ UNCHANGED <<pack, asked>>
  BY DEF Ask
<1>6. TypeOK'
  <2> DEFINE q == <<r, asked + 1>>
             S == Rows \X Nat
  <2>1. q \in S /\ asked + 1 \in Nat
    BY <1>1, <1>2
  <2>2. pack \in Seq(S) /\ (pack' = Append(pack, q) \/ pack' = pack) /\ asked' \in {asked + 1, asked}
    BY <1>4, <1>5
  <2> HIDE DEF q, S
  <2>3. pack' \in Seq(S)
    BY <2>1, <2>2
  <2>4. pack' \in Seq(Rows \X Nat) /\ asked' \in Nat
    BY <2>1, <2>2, <2>3, <1>1 DEF S
  <2> QED
    BY <2>4, <1>1 DEF StreamInv, TypeOK, Phases, ansVars, flags, outVars
<1>7. OrderInv' /\ FlightInv' /\ AnswerInv'
  BY <1>1 DEF StreamInv, OrderInv, FlightInv, AnswerInv, Key, ansVars, outVars
<1>8. AskingInv'
  BY <1>1 DEF AskingInv, Key
<1>9. JobsInv'
  <2>1. \A q : Asked(q)' <=> Asked(q)
    BY <1>1 DEF Asked, Key
  <2>2. Asked(<<r, asked + 1>>)
    BY <1>1, <1>2, <1>3 DEF Asked
  <2>3. \A i \in DOMAIN pack' : Asked(pack'[i])
    <3>1. CASE pack' = Append(pack, <<r, asked + 1>>)
      BY <3>1, <2>2, <1>4 DEF StreamInv, JobsInv
    <3>2. CASE pack' = pack
      BY <3>2 DEF StreamInv, JobsInv
    <3> QED
      BY <3>1, <3>2, <1>5
  <2> QED
    BY <2>1, <2>3, <1>1 DEF StreamInv, JobsInv
<1> QED
  BY <1>6, <1>7, <1>8, <1>9 DEF StreamInv

LEMMA FlushStep == ASSUME StreamInv, Flush PROVE StreamInv'
<1>1. /\ phase \in {"flushask", "flushemit"} /\ phase' = (IF phase = "flushask" THEN "ask" ELSE "emit")
      /\ UNCHANGED <<chunk, offset, rows, asked, flight, retained, hits, ansVars, flags, outVars, faults>>
  BY DEF Flush, inVars
<1> DEFINE job == [refs |-> pack, state |-> "queued", next |-> 1, model |-> Null]
<1>2. \/ UNCHANGED <<pack, jobs>>
      \/ pack # <<>> /\ jobs' = Append(Reaped, job) /\ pack' = <<>>
  BY DEF Flush, jobVars, EmptyPack
<1>3. Reaped \in Seq(Job1) /\ (\A i \in DOMAIN Reaped : \E j \in DOMAIN jobs : Reaped[i] = jobs[j])
  BY ReapedJobs DEF StreamInv
<1>4. job \in Job1
  BY DEF Job1, JobStates, StreamInv, TypeOK
<1>5. jobs \in Seq(Job1) /\ pack \in Seq(Rows \X Nat) /\ <<>> \in Seq(Rows \X Nat)
  BY DEF StreamInv, TypeOK, Job1
<1>6. TypeOK'
  <2> DEFINE S == Seq(Rows \X Nat)
  <2>a. pack \in S /\ <<>> \in S
    BY <1>5
  <2> HIDE DEF job, S
  <2>b. pack' \in S
    BY <1>2, <2>a
  <2>c. jobs' \in Seq(Job1)
    <3>1. CASE jobs' = jobs
      BY <3>1, <1>5
    <3>2. CASE jobs' = Append(Reaped, job)
      BY <3>2, <1>3, <1>4
    <3> QED
      BY <3>1, <3>2, <1>2
  <2>1. jobs' \in Seq(Job1) /\ pack' \in Seq(Rows \X Nat)
    BY <2>b, <2>c DEF S
  <2> QED
    BY <2>1, <1>1 DEF StreamInv, TypeOK, Phases, ansVars, flags, outVars, Job1
<1>7. OrderInv' /\ FlightInv' /\ AnswerInv'
  BY <1>1 DEF StreamInv, OrderInv, FlightInv, AnswerInv, Key, ansVars, outVars
<1>8. AskingInv'
  BY <1>1 DEF StreamInv, AskingInv, Key
<1>9. JobsInv'
  <2>1. \A q : Asked(q)' <=> Asked(q)
    BY <1>1 DEF Asked, Key
  <2>2. CASE UNCHANGED <<pack, jobs>>
    BY <2>1, <2>2 DEF StreamInv, JobsInv
  <2>3. CASE pack # <<>> /\ jobs' = Append(Reaped, job) /\ pack' = <<>>
    <3>1. job.refs = pack /\ job.state = "queued" /\ job.next = 1
      OBVIOUS
    <3> HIDE DEF job
    <3>2. \A i \in DOMAIN jobs' : jobs'[i] = job \/ \E j \in DOMAIN jobs : jobs'[i] = jobs[j]
      BY <1>3, <1>4, <2>3
    <3>3. \A i \in DOMAIN job.refs : Asked(job.refs[i])
      BY <3>1 DEF StreamInv, JobsInv
    <3>4. ASSUME NEW i \in DOMAIN jobs'
          PROVE  /\ \A n \in DOMAIN jobs'[i].refs : Asked(jobs'[i].refs[n])
                 /\ jobs'[i].state = "completing" => jobs'[i].model \in Models
                 /\ jobs'[i].state = "completing" => jobs'[i].next \in DOMAIN jobs'[i].refs
                 /\ jobs'[i].state \in {"queued", "calling"} => jobs'[i].next = 1 /\ jobs'[i].refs # <<>>
      BY <2>3, <3>1, <3>2, <3>3 DEF StreamInv, JobsInv
    <3> QED
      BY <2>1, <2>3, <3>4 DEF JobsInv
  <2> QED
    BY <1>2, <2>2, <2>3
<1> QED
  BY <1>6, <1>7, <1>8, <1>9 DEF StreamInv

LEMMA EmitRowStep ==
  ASSUME StreamInv, EmitRow
  PROVE  StreamInv' /\ Len(out) < Len(Input) /\ Result(Head(rows)) \in Reader!Results(Input[Len(out) + 1])
<1> DEFINE r == Head(rows)
<1>1. /\ rows # <<>> /\ Ready(r) /\ phase \in {"emit", "drain"} /\ count < VectorSize
      /\ out' = Append(out, Result(r)) /\ rows' = Tail(rows) /\ count' = count + 1
      /\ retained' = retained - KeyBytes[Key(r)] /\ resultBytes' = SizeT(resultBytes - rowBytes[r])
      /\ UNCHANGED <<phase, chunk, offset, asked, flight, hits, pack, jobs, answers, model, rowBytes, ready, flags, faults>>
  BY DEF EmitRow, VectorRoom, jobVars
<1>2. rows \in Seq(Rows) /\ Len(rows) \in Nat \ {0} /\ DOMAIN rows = 1 .. Len(rows) /\ r = rows[1] /\ r \in Rows
  BY <1>1 DEF StreamInv, TypeOK
<1>3. offset = Len(out) + Len(rows) /\ r = Len(out) + 1 /\ Len(out) \in Nat /\ offset \in 0 .. Len(Input)
  <2>1. Len(out) \in Nat /\ offset \in 0 .. Len(Input)
    BY DEF StreamInv, TypeOK
  <2>2. offset = Len(out) + Len(rows) /\ r = Len(out) + 1
    BY <1>1, <1>2 DEF StreamInv, OrderInv
  <2> QED
    BY <2>1, <2>2
<1>4. r \in 1 .. offset /\ Len(out) < Len(Input)
  BY <1>2, <1>3, Constants
<1>5. Key(r) # Null => /\ flight[r] \in ready /\ flight[r] \in Rows /\ Key(flight[r]) = Key(r) /\ Key(r) \in Keys
                       /\ answers[flight[r]] = 1 .. Questions[Key(r)] /\ model[flight[r]] \in Models
  BY <1>1, <1>2, <1>4, Constants DEF Ready, StreamInv, FlightInv, AnswerInv
<1>6. Result(r) \in Reader!Results(Input[Len(out) + 1])
  <2>1. Input[Len(out) + 1] = Key(r)
    BY <1>3 DEF Key
  <2>2. CASE Key(r) = Null
    BY <2>1, <2>2 DEF Result, Reader!Results
  <2>3. CASE Key(r) # Null
    BY <2>1, <2>3, <1>5 DEF Result, Reader!Results
  <2> QED
    BY <2>2, <2>3
<1>7. Result(r) \in {Null} \cup [key : Keys, answers : SUBSET Nat, model : Models \cup {Null}]
  <2>1. CASE Key(r) = Null
    BY <2>1 DEF Result
  <2>2. CASE Key(r) # Null
    <3>1. 1 .. Questions[Key(r)] \in SUBSET Nat
      BY <1>5, <2>2, Constants
    <3> QED
      BY <3>1, <1>5, <2>2 DEF Result
  <2> QED
    BY <2>1, <2>2
<1>8. TypeOK'
  <2> DEFINE S == {Null} \cup [key : Keys, answers : SUBSET Nat, model : Models \cup {Null}]
  <2>1. out' \in Seq(S)
    <3>1. out \in Seq(S) /\ Result(r) \in S
      BY <1>7 DEF StreamInv, TypeOK
    <3> HIDE DEF S, r
    <3> QED
      BY <3>1, <1>1
  <2>2. rows' \in Seq(Rows)
    BY <1>1, <1>2
  <2>3. count' \in 0 .. VectorSize
    BY <1>1, Constants DEF StreamInv, TypeOK
  <2>4. retained' \in Int
    <3>1. KeyBytes[Key(r)] \in Nat /\ retained \in Int
      BY <1>2, Constants DEF StreamInv, TypeOK
    <3> QED
      BY <3>1, <1>1
  <2>5. resultBytes' \in 0 .. SizeMax
    <3>1. resultBytes - rowBytes[r] \in Int
      BY <1>2, Constants DEF StreamInv, TypeOK
    <3> QED
      BY <3>1, <1>1, SizeTBounds
  <2> QED
    BY <2>1, <2>2, <2>3, <2>4, <2>5, <1>1 DEF StreamInv, TypeOK, flags
<1>9. OrderInv'
  <2>1. Len(rows') = Len(rows) - 1 /\ DOMAIN rows' = 1 .. Len(rows) - 1 /\ \A i \in DOMAIN rows' : rows'[i] = rows[i + 1]
    BY <1>1, <1>2
  <2>2. Len(out') = Len(out) + 1
    BY <1>1 DEF StreamInv, TypeOK
  <2>3. \A i \in DOMAIN rows : rows[i] = Len(out) + i
    BY <1>1 DEF StreamInv, OrderInv
  <2>4. \A i \in DOMAIN rows' : rows'[i] = Len(out') + i
    BY <2>1, <2>2, <2>3, <1>2, <1>3
  <2>5. offset' = Len(out') + Len(rows')
    BY <2>1, <2>2, <1>1, <1>2, <1>3
  <2> QED
    BY <2>4, <2>5 DEF OrderInv
<1>10. FlightInv' /\ AnswerInv' /\ AskingInv'
  BY <1>1 DEF StreamInv, FlightInv, AnswerInv, AskingInv, Key
<1>11. JobsInv'
  <2>1. \A q : Asked(q)' <=> Asked(q)
    BY <1>1 DEF Asked, Key
  <2> QED
    BY <2>1, <1>1 DEF StreamInv, JobsInv
<1> QED
  BY <1>4, <1>6, <1>8, <1>9, <1>10, <1>11 DEF StreamInv

(* The steps of the thread that leave the rows alone. *)
LEMMA TurnSteps == ASSUME StreamInv, AskedAll \/ Turn \/ EmitEnd \/ Resume PROVE StreamInv'
<1>1. /\ UNCHANGED <<offset, rows, asked, flight, retained, hits, pack, ansVars, flags, out, faults>>
      /\ phase # "closed" /\ jobs' \in {jobs, Reaped} /\ count' \in {count, 0} /\ chunk' \in {chunk, chunk + 1}
  BY DEF AskedAll, Turn, EmitEnd, Resume, inVars, jobVars, outVars, ansVars, flags
<1>2. Reaped \in Seq(Job1) /\ (\A i \in DOMAIN Reaped : \E j \in DOMAIN jobs : Reaped[i] = jobs[j])
  BY ReapedJobs DEF StreamInv
<1>3. /\ phase' \in Phases \ {"ask", "flushask"} /\ chunk' \in 1 .. Len(Ends) + 1
      /\ phase' \in {"input", "drain"} => chunk' \in DOMAIN Ends
  <2>1. chunk \in 1 .. Len(Ends) + 1 /\ (phase \in {"input", "ask", "flushask", "drain"} => chunk \in DOMAIN Ends)
    BY DEF StreamInv, TypeOK, AskingInv
  <2>2. CASE AskedAll
    BY <2>1, <2>2 DEF AskedAll, Phases, inVars
  <2>3. CASE Turn
    BY <2>1, <2>3 DEF Turn, Phases, inVars
  <2>4. CASE EmitEnd
    BY <2>1, <2>4, Constants DEF EmitEnd, Phases
  <2>5. CASE Resume
    <3>1. phase' = (IF chunk <= Len(Ends) THEN "input" ELSE "flushemit") /\ chunk' = chunk
      BY <2>5 DEF Resume, inVars
    <3> QED
      BY <3>1, <2>1, Constants DEF Phases
  <2> QED
    BY <2>2, <2>3, <2>4, <2>5
<1>4. TypeOK'
  <2>1. jobs' \in Seq(Job1) /\ count' \in 0 .. VectorSize
    BY <1>1, <1>2, Constants DEF StreamInv, TypeOK, Job1
  <2> QED
    BY <2>1, <1>1, <1>3 DEF StreamInv, TypeOK, Job1, ansVars, flags
<1>5. AskingInv'
  BY <1>3 DEF AskingInv
<1>6. \A i \in DOMAIN jobs' : \E j \in DOMAIN jobs : jobs'[i] = jobs[j]
  BY <1>1, <1>2
<1>7. OrderInv' /\ FlightInv' /\ JobsInv' /\ AnswerInv'
  BY <1>1, <1>4, <1>6, RowsKept DEF ansVars
<1> QED
  BY <1>4, <1>5, <1>7 DEF StreamInv

(* Closing the stream drops the rows; the flights and the answers stay. *)
LEMMA CloseSteps == ASSUME StreamInv, Close \/ Closed PROVE StreamInv'
<1>1. /\ UNCHANGED <<chunk, offset, asked, flight, retained, hits, jobs, ansVars, error, outVars>>
      /\ \/ phase' = "closing" /\ phase # "closed" /\ UNCHANGED <<rows, pack>>
         \/ phase' = "closed" /\ rows' = <<>> /\ pack' = <<>>
  BY DEF Close, Closed, Throws, inVars, jobVars, flags
<1>2. faults' \in 0 .. MaxFaults /\ stopped' \in BOOLEAN
  <2>1. faults \in 0 .. MaxFaults /\ MaxFaults \in Nat /\ stopped \in BOOLEAN
    BY Constants DEF StreamInv, TypeOK
  <2>2. faults' = faults \/ (faults < MaxFaults /\ faults' = faults + 1)
    BY DEF Close, Closed, Throws, Fault
  <2>3. stopped' = stopped \/ stopped' = TRUE
    BY DEF Close, Closed, flags
  <2>4. faults' \in 0 .. MaxFaults
    BY <2>1, <2>2
  <2> QED
    BY <2>1, <2>3, <2>4
<1>3. TypeOK'
  <2>1. rows' \in Seq(Rows) /\ pack' \in Seq(Rows \X Nat)
    <3>1. CASE UNCHANGED <<rows, pack>>
      BY <3>1 DEF StreamInv, TypeOK
    <3>2. CASE rows' = <<>> /\ pack' = <<>>
      BY <3>2
    <3> QED
      BY <3>1, <3>2, <1>1
  <2> QED
    BY <2>1, <1>1, <1>2 DEF StreamInv, TypeOK, Phases, ansVars, outVars
<1>4. OrderInv' /\ AskingInv'
  BY <1>1 DEF StreamInv, OrderInv, AskingInv, outVars
<1>5. FlightInv' /\ AnswerInv'
  BY <1>1 DEF StreamInv, FlightInv, AnswerInv, Key, ansVars
<1>6. JobsInv'
  <2>1. \A q : Asked(q)' <=> Asked(q)
    BY <1>1 DEF Asked, Key
  <2>2. CASE UNCHANGED pack
    BY <2>1, <2>2, <1>1 DEF StreamInv, JobsInv
  <2>3. CASE pack' = <<>>
    BY <2>1, <2>3, <1>1 DEF StreamInv, JobsInv
  <2> QED
    BY <2>2, <2>3, <1>1
<1> QED
  BY <1>3, <1>4, <1>5, <1>6 DEF StreamInv

(* A job's step that applies no answer. *)
LEMMA JobSteps ==
  ASSUME StreamInv, NEW j \in DOMAIN jobs,
         JobStart(j) \/ JobFails(j) \/ JobError(j) \/ \E m \in Models : JobAnswered(j, m)
  PROVE  StreamInv'
<1>1. /\ UNCHANGED <<phase, chunk, offset, rows, asked, flight, retained, hits, pack, answers, model, rowBytes, ready,
                     resultBytes, count, out>>
  BY DEF JobStart, JobFails, JobError, JobAnswered, inVars, ansVars, outVars
<1>a. (stopped' = stopped \/ stopped' = TRUE) /\ (error' = error \/ error' = TRUE)
  BY Zenon DEF JobStart, JobFails, JobError, JobAnswered, flags
<1>b. faults' = faults \/ (faults < MaxFaults /\ faults' = faults + 1)
  BY DEF JobStart, JobFails, JobError, JobAnswered, Fault
<1>2. jobs \in Seq(Job1) /\ jobs[j] \in Job1
  BY TypedJob DEF StreamInv
<1>3. ASSUME NEW s \in JobStates, s \notin {"queued", "completing"}, SetJob(j, JobIs(j, s)),
             s = "calling" => jobs[j].state = "queued"
      PROVE  jobs' \in Seq(Job1) /\ JobsInv'
  <2> DEFINE job == JobIs(j, s)
  <2>1. job \in Job1 /\ job.refs = jobs[j].refs /\ job.state = s /\ job.next = jobs[j].next
    BY <1>2 DEF JobIs, Job1
  <2>2. s = "calling" => job.next = 1 /\ job.refs # <<>>
    BY <2>1, <1>3 DEF StreamInv, JobsInv
  <2>3. SetJob(j, job)
    BY <1>3
  <2> HIDE DEF job
  <2> QED
    BY <2>1, <2>2, <2>3, <1>1, <1>3, OneJob DEF StreamInv
<1>4. jobs' \in Seq(Job1) /\ JobsInv'
  <2>1. CASE JobStart(j)
    <3>1. PICK s \in {"done", "calling"} : SetJob(j, JobIs(j, s)) /\ jobs[j].state = "queued"
      BY <2>1 DEF JobStart
    <3> QED
      BY <3>1, <1>3 DEF JobStates
  <2>2. CASE JobFails(j)
    BY <2>2, <1>3 DEF JobFails, JobStates
  <2>3. CASE JobError(j)
    BY <2>3, <1>3 DEF JobError, JobStates
  <2>4. ASSUME NEW m \in Models, JobAnswered(j, m) PROVE jobs' \in Seq(Job1) /\ JobsInv'
    <3> DEFINE job == [jobs[j] EXCEPT !.state = "completing", !.model = m]
    <3>1. job \in Job1 /\ job.refs = jobs[j].refs /\ job.state = "completing" /\ job.model = m /\ job.next = jobs[j].next
      BY <1>2 DEF Job1, JobStates
    <3>2. jobs[j].next = 1 /\ jobs[j].refs # <<>> /\ jobs[j].refs \in Seq(Rows \X Nat)
      BY <2>4, <1>2 DEF StreamInv, JobsInv, JobAnswered, Job1
    <3>3. 1 \in DOMAIN jobs[j].refs
      BY <3>2
    <3>4. SetJob(j, job)
      BY <2>4 DEF JobAnswered
    <3> HIDE DEF job
    <3> QED
      BY <3>1, <3>2, <3>3, <3>4, <1>1, OneJob DEF StreamInv
  <2> QED
    BY <2>1, <2>2, <2>3, <2>4
<1>5. TypeOK'
  <2>1. faults' \in 0 .. MaxFaults
    <3>1. faults \in 0 .. MaxFaults /\ MaxFaults \in Nat
      BY Constants DEF StreamInv, TypeOK
    <3> QED
      BY <3>1, <1>b
  <2>2. stopped' \in BOOLEAN /\ error' \in BOOLEAN
    BY <1>a DEF StreamInv, TypeOK
  <2> QED
    BY <2>1, <2>2, <1>1, <1>4 DEF StreamInv, TypeOK, Job1
<1>6. OrderInv' /\ AskingInv' /\ FlightInv' /\ AnswerInv'
  BY <1>1 DEF StreamInv, OrderInv, AskingInv, FlightInv, AnswerInv, Key
<1> QED
  BY <1>4, <1>5, <1>6 DEF StreamInv

(* An answer is applied to a question that was asked; a row is complete with its last. *)
LEMMA AnswerStep ==
  ASSUME StreamInv, NEW j \in DOMAIN jobs, NEW bytes \in AnswerBytes, JobAnswer(j, bytes)
  PROVE  StreamInv'
<1> DEFINE q == jobs[j].refs[jobs[j].next]
           r == q[1]
<1>1. /\ UNCHANGED <<phase, chunk, offset, rows, asked, flight, retained, hits, pack, error, count, out, faults>>
      /\ jobs[j].state = "completing"
      /\ resultBytes' = SizeT(resultBytes + bytes)
      /\ rowBytes' = [rowBytes EXCEPT ![r] = @ + bytes]
      /\ answers' = [answers EXCEPT ![r] = @ \cup {q[2]}]
      /\ \/ SetJob(j, JobIs(j, "failing")) /\ UNCHANGED <<model, ready>>
         \/ /\ model' = [model EXCEPT ![r] = jobs[j].model]
            /\ ready' = (IF RowAnswered(r, j) THEN ready \cup {r} ELSE ready)
            /\ SetJob(j, IF jobs[j].next = Len(jobs[j].refs) THEN JobIs(j, "done") ELSE [jobs[j] EXCEPT !.next = @ + 1])
  BY DEF JobAnswer, inVars, outVars
<1>a. jobs[j].state = "completing" /\ (stopped' = stopped \/ stopped' = TRUE)
  BY Zenon DEF JobAnswer
<1>2. jobs \in Seq(Job1) /\ jobs[j] \in Job1
  BY TypedJob DEF StreamInv
<1>3. Asked(q) /\ jobs[j].model \in Models /\ jobs[j].next \in DOMAIN jobs[j].refs
  BY <1>a DEF StreamInv, JobsInv
<1>4. r \in Rows /\ Key(r) # Null /\ q[2] \in 1 .. Questions[Key(r)] /\ q[2] \in Nat
  <2>1. offset \in 0 .. Len(Input)
    BY DEF StreamInv, TypeOK
  <2>2. r \in 1 .. offset /\ Key(r) # Null /\ q[2] \in 1 .. Questions[Key(r)]
    BY <1>3 DEF Asked
  <2>3. r \in Rows /\ Key(r) \in Keys
    BY <2>1, <2>2, Constants
  <2>4. Questions[Key(r)] \in Nat
    BY <2>3, Constants
  <2> QED
    BY <2>2, <2>3, <2>4
<1>5. jobs' \in Seq(Job1) /\ JobsInv'
  <2>1. ASSUME NEW s \in {"failing", "done"}, SetJob(j, JobIs(j, s)) PROVE jobs' \in Seq(Job1) /\ JobsInv'
    <3>1. JobIs(j, s) \in Job1 /\ JobIs(j, s).refs = jobs[j].refs /\ JobIs(j, s).state = s
      BY <1>2 DEF JobIs, Job1, JobStates
    <3> QED
      BY <3>1, <2>1, <1>1, OneJob DEF StreamInv
  <2>2. ASSUME jobs[j].next # Len(jobs[j].refs), SetJob(j, [jobs[j] EXCEPT !.next = @ + 1])
        PROVE  jobs' \in Seq(Job1) /\ JobsInv'
    <3> DEFINE job == [jobs[j] EXCEPT !.next = @ + 1]
    <3>a. jobs[j].next + 1 \in Nat
      BY <1>2 DEF Job1
    <3>1. job \in Job1 /\ job.refs = jobs[j].refs /\ job.state = "completing" /\ job.model = jobs[j].model
          /\ job.next = jobs[j].next + 1
      BY <3>a, <1>a, <1>2 DEF Job1
    <3>2. jobs[j].refs \in Seq(Rows \X Nat)
      BY <1>2 DEF Job1
    <3>3. jobs[j].next + 1 \in DOMAIN jobs[j].refs
      BY <3>2, <2>2, <1>3
    <3>4. SetJob(j, job)
      BY <2>2
    <3> HIDE DEF job
    <3> QED
      BY <3>1, <3>3, <3>4, <1>1, <1>3, OneJob DEF StreamInv
  <2> QED
    BY <1>1, <2>1, <2>2
<1>6. /\ answers \in [Rows -> SUBSET Nat] /\ model \in [Rows -> Models \cup {Null}] /\ rowBytes \in [Rows -> Nat]
      /\ ready \subseteq Rows /\ bytes \in Nat
  BY Constants DEF StreamInv, TypeOK
<1> HIDE DEF q
<1>7. TypeOK'
  <2>1. answers' \in [Rows -> SUBSET Nat] /\ rowBytes' \in [Rows -> Nat]
    BY <1>1, <1>4, <1>6
  <2>2. model' \in [Rows -> Models \cup {Null}] /\ ready' \subseteq Rows
    BY <1>1, <1>3, <1>4, <1>6
  <2>3. resultBytes' \in 0 .. SizeMax
    <3>1. resultBytes + bytes \in Int
      BY <1>6, Constants DEF StreamInv, TypeOK
    <3> QED
      BY <3>1, <1>1, SizeTBounds
  <2>4. stopped' \in BOOLEAN
    BY <1>a DEF StreamInv, TypeOK
  <2> QED
    BY <2>1, <2>2, <2>3, <2>4, <1>1, <1>5 DEF StreamInv, TypeOK, Job1
<1>8. OrderInv' /\ AskingInv' /\ FlightInv'
  BY <1>1 DEF StreamInv, OrderInv, AskingInv, FlightInv, Key
<1>9. AnswerInv'
  <2>1. ASSUME NEW p \in Rows, answers'[p] # {}
        PROVE  Key(p) # Null /\ answers'[p] \subseteq 1 .. Questions[Key(p)]
    BY <2>1, <1>1, <1>4, <1>6 DEF StreamInv, AnswerInv
  <2>2. ASSUME NEW p \in ready' PROVE answers'[p] = 1 .. Questions[Key(p)] /\ model'[p] \in Models
    <3>1. CASE p \in ready
      <4>1. answers[p] = 1 .. Questions[Key(p)] /\ model[p] \in Models /\ p \in Rows
        BY <3>1, <1>6 DEF StreamInv, AnswerInv
      <4> QED
        BY <4>1, <1>1, <1>3, <1>4, <1>6
    <3>2. CASE p \notin ready
      BY <3>2, <2>2, <1>1, <1>3, <1>4, <1>6 DEF RowAnswered
    <3> QED
      BY <3>1, <3>2
  <2> QED
    BY <2>1, <2>2 DEF AnswerInv, Key
<1> QED
  BY <1>5, <1>7, <1>8, <1>9 DEF StreamInv

LEMMA StepInv == ASSUME StreamInv, [Next]_streamVars PROVE StreamInv'
<1>1. CASE UNCHANGED streamVars
  <2>1. UNCHANGED <<phase, chunk, offset, rows, asked, flight, retained, hits, pack, jobs, answers, model, rowBytes,
                    ready, resultBytes, stopped, error, count, out, faults>>
    BY <1>1 DEF streamVars, inVars, jobVars, ansVars, flags, outVars
  <2> QED
    BY <2>1, ZenonT(40) DEF StreamInv, TypeOK, OrderInv, FlightInv, AskingInv, JobsInv, AnswerInv, Asked, Key
<1>2. CASE \E j \in DOMAIN jobs : Job(j)
  BY <1>2, JobSteps, AnswerStep DEF Job
<1>3. CASE Thread \/ Close
  BY <1>1, <1>3, AddStep, AskStep, FlushStep, EmitRowStep, TurnSteps, CloseSteps DEF Thread, EmitPoll
<1> QED
  BY <1>1, <1>2, <1>3 DEF Next, Over

LEMMA AlwaysStreamInv == Spec => []StreamInv
BY InitInv, StepInv, PTL DEF Spec

(* Every variable of the stream keeps its type, for every input and bound.  *)
THEOREM StreamTypeCorrect == Spec => []TypeOK
<1>1. StreamInv => TypeOK
  BY DEF StreamInv
<1> QED
  BY <1>1, AlwaysStreamInv, PTL

(***************************************************************************)
(* Whatever is cut, answered, failed or closed, the reader of a jev_stream *)
(* sees a prefix of the judged input: only Emit's row step adds to out,    *)
(* and it adds the complete judgment of the next row of the input.         *)
(***************************************************************************)
THEOREM StreamImplementsJudged == Spec => ImplementsJudged
<1>1. Init => Reader!Init
  BY DEF Init, Reader!Init
<1>2. ASSUME StreamInv, [Next]_streamVars PROVE [Reader!Emit]_out
  <2>1. CASE EmitRow
    BY <2>1, <1>2, EmitRowStep DEF EmitRow, Reader!Emit
  <2>2. CASE ~EmitRow
    <3>1. CASE UNCHANGED streamVars
      BY <3>1 DEF streamVars, outVars
    <3>2. CASE \E j \in DOMAIN jobs : Job(j)
      BY <3>2 DEF Job, JobStart, JobFails, JobError, JobAnswered, JobAnswer, outVars
    <3>3. CASE Thread \/ Close
      <4>1. Thread \/ Close => EmitRow \/ out' = out \/ UNCHANGED streamVars
        BY DEF Thread, Close, Add, Ask, AskedAll, Turn, Flush, EmitPoll, EmitEnd, Resume, Closed, outVars
      <4> QED
        BY <4>1, <3>1, <3>3, <2>2
    <3> QED
      BY <1>2, <3>1, <3>2, <3>3 DEF Next, Over
  <2> QED
    BY <2>1, <2>2
<1> QED
  BY <1>1, <1>2, AlwaysStreamInv, PTL DEF Spec, ImplementsJudged, Reader!Spec

-----------------------------------------------------------------------------
(* Questions. A question that was asked is open in one place, until it is  *)
(* answered or the stream stops.                                           *)

(* The rows that left had their flight complete, and rows to come have none. *)
LeftInv ==
  /\ \A r \in 1 .. Len(out) : Key(r) # Null => flight[r] \in ready
  /\ \A r \in Rows : r > offset => rowBytes[r] = 0

(* A job that may still answer its questions. *)
Alive == {"queued", "calling", "completing"}

(* A question's places: those of the open pack are <<0, i>>, those of job j *)
(* that it has yet to apply <<j, i>>.                                       *)
Open ==
  { p \in {0} \X Nat : p[2] \in DOMAIN pack }
  \cup { p \in (DOMAIN jobs) \X Nat : /\ jobs[p[1]].state \in Alive
                                      /\ p[2] \in jobs[p[1]].next .. Len(jobs[p[1]].refs) }
(* The question at a place. *)
At(p) == IF p[1] = 0 THEN pack[p[2]] ELSE jobs[p[1]].refs[p[2]]

(* A question that is open somewhere. *)
InPlace(q) == \E p \in Open : At(p) = q

(* No question is open in two places, or open and answered.                *)
Distinct ==
  /\ \A p, s \in Open : At(p) = At(s) => p = s
  /\ \A q : InPlace(q) => q[2] \notin answers[q[1]]

(* A question that is open or answered is one its row's owner has asked.   *)
Owned(q) == q[1] \in 1 .. offset /\ Owns(q[1]) /\ q[2] \in AskedOf(q[1])
OwnedInv ==
  /\ \A q : InPlace(q) => Owned(q)
  /\ \A r \in Rows : \A n \in answers[r] : Owned(<<r, n>>)

(* Until the stream stops no question that was asked is lost.              *)
NothingLost ==
  ~stopped =>
    /\ \A j \in DOMAIN jobs : jobs[j].state # "failing"
    /\ \A r \in 1 .. offset : Owns(r) => \A n \in AskedOf(r) :
         n \in answers[r] \/ InPlace(<<r, n>>)

(* A pack is no larger than a batch, and no more jobs wait than Emit       *)
(* allows.                                                                 *)
SizesInv ==
  /\ Len(pack) <= BatchSize
  /\ \A j \in DOMAIN jobs : Len(jobs[j].refs) <= BatchSize /\ jobs[j].next >= 1
  /\ Len(jobs) <= 2 * Concurrency
  /\ phase \in {"ask", "flushask"} => asked <= Questions[Key(Last(rows))] /\ Owns(Last(rows))

(* The invariant of the questions. *)
QuestionInv == LeftInv /\ Distinct /\ OwnedInv /\ NothingLost /\ SizesInv

(* A set of numbers that holds all below its own is an interval. *)
LEMMA Prefix ==
  ASSUME NEW n \in Nat, NEW S \in SUBSET (1 .. n), \A i \in S : 1 .. i \subseteq S
  PROVE  S = 1 .. Cardinality(S) /\ Cardinality(S) \in 0 .. n
<1> DEFINE T == {m \in Nat : 1 .. m \subseteq S}
<1>1. 0 \in T
  OBVIOUS
<1>2. n + 1 \notin T
  BY n + 1 \in 1 .. n + 1
<1>3. PICK k \in Nat : k \in T /\ k + 1 \notin T
  <2>1. ~ (Nat \subseteq T)
    BY <1>2
  <2> HIDE DEF T
  <2> QED BY <1>1, <2>1, NatInd
<1>4. S = 1 .. k
  <2>1. 1 .. k \subseteq S /\ ~ (1 .. k + 1 \subseteq S)
    BY <1>3
  <2>2. k + 1 \notin S
    BY <2>1
  <2>3. ASSUME NEW i \in S PROVE i \in 1 .. k
    <3>1. i \in Nat /\ i >= 1
      OBVIOUS
    <3>2. CASE i > k
      <4>1. k + 1 \in 1 .. i
        BY <3>1, <3>2
      <4> QED BY <4>1, <2>2
    <3> QED BY <3>1, <3>2
  <2> QED BY <2>1, <2>3
<1>5. Cardinality(S) = k
  BY <1>4, FS_Interval
<1>6. k <= n
  <2>1. CASE k = 0
    BY <2>1
  <2>2. CASE k > 0
    BY <1>4, <2>2
  <2> QED BY <2>1, <2>2
<1> QED BY <1>4, <1>5, <1>6

(* A sequence without its first elements. *)
LEMMA RestOf ==
  ASSUME NEW S, NEW s \in Seq(S), NEW c \in 0 .. Len(s)
  PROVE  /\ Len(SubSeq(s, c + 1, Len(s))) = Len(s) - c
         /\ \A i \in 1 .. Len(s) - c : SubSeq(s, c + 1, Len(s))[i] = s[c + i]
<1>1. Len(s) \in Nat /\ c \in Nat
  OBVIOUS
<1>2. c + 1 \in 1 .. Len(s) + 1 /\ Len(s) \in c + 1 - 1 .. Len(s)
  BY <1>1
<1>3. Len(SubSeq(s, c + 1, Len(s))) = Len(s) - c
  BY <1>1, <1>2
<1> QED BY <1>1, <1>2, <1>3

(* Reaping takes jobs that are done off the front. *)
LEMMA ReapedShift ==
  ASSUME TypeOK
  PROVE  /\ Reaped \in Seq(Job1)
         /\ \E c \in 0 .. Len(jobs) :
              /\ Len(Reaped) = Len(jobs) - c
              /\ \A i \in 1 .. c : jobs[i].state = "done"
              /\ \A i \in 1 .. Len(Reaped) : Reaped[i] = jobs[c + i]
<1> DEFINE done == { n \in DOMAIN jobs : \A i \in 1 .. n : jobs[i].state = "done" }
           c == Cardinality(done)
<1>1. jobs \in Seq(Job1) /\ DOMAIN jobs = 1 .. Len(jobs) /\ Len(jobs) \in Nat
  BY DEF TypeOK, Job1
<1>2. done = 1 .. c /\ c \in 0 .. Len(jobs)
  <2>1. done \in SUBSET (1 .. Len(jobs)) /\ \A i \in done : 1 .. i \subseteq done
    BY <1>1
  <2> HIDE DEF done
  <2> QED BY <1>1, <2>1, Prefix
<1>3. \A i \in 1 .. c : jobs[i].state = "done"
  <2>1. \A i \in done : jobs[i].state = "done"
    BY <1>1
  <2> QED BY <1>2, <2>1
<1>4. Reaped = SubSeq(jobs, c + 1, Len(jobs))
  BY DEF Reaped
<1> HIDE DEF c, done
<1>5. /\ Len(SubSeq(jobs, c + 1, Len(jobs))) = Len(jobs) - c
      /\ \A i \in 1 .. Len(jobs) - c : SubSeq(jobs, c + 1, Len(jobs))[i] = jobs[c + i]
  BY <1>1, <1>2, RestOf
<1> QED BY <1>1, <1>2, <1>3, <1>4, <1>5, ReapedJobs

(* What the places of the next state must be for the questions to be kept. *)
LEMMA Moved ==
  ASSUME Distinct, OwnedInv, UNCHANGED answers,
         NEW g \in [Open' -> Open],
         \A p \in Open' : At(p)' = At(g[p]),
         \A p, s \in Open' : g[p] = g[s] => p = s,
         \A q : Owned(q) => Owned(q)'
  PROVE  Distinct' /\ OwnedInv'
<1>1. ASSUME NEW p \in Open', NEW s \in Open', At(p)' = At(s)' PROVE p = s
  BY <1>1 DEF Distinct
<1>2. ASSUME NEW q, InPlace(q)' PROVE InPlace(q)
  BY <1>2 DEF InPlace
<1>3. ASSUME NEW r \in Rows, NEW n \in answers'[r] PROVE Owned(<<r, n>>)'
  BY <1>3 DEF OwnedInv
<1>4. Rows' = Rows
  BY DEF Rows
<1>5. Distinct'
  BY <1>1, <1>2 DEF Distinct
<1>6. OwnedInv'
  BY <1>2, <1>3, <1>4 DEF OwnedInv
<1> QED BY <1>5, <1>6

(* The lengths and domains of the stream's sequences. *)
LEMMA Lengths ==
  ASSUME StreamInv
  PROVE  /\ Len(rows) \in Nat /\ DOMAIN rows = 1 .. Len(rows)
         /\ Len(out) \in Nat /\ offset \in 0 .. Len(Input)
         /\ Len(pack) \in Nat /\ DOMAIN pack = 1 .. Len(pack)
         /\ Len(jobs) \in Nat /\ DOMAIN jobs = 1 .. Len(jobs)
         /\ \A j \in DOMAIN jobs : jobs[j] \in Job1 /\ Len(jobs[j].refs) \in Nat
                                 /\ DOMAIN jobs[j].refs = 1 .. Len(jobs[j].refs)
<1>1. /\ rows \in Seq(Rows) /\ pack \in Seq(Rows \X Nat) /\ offset \in 0 .. Len(Input)
      /\ out \in Seq({Null} \cup [key : Keys, answers : SUBSET Nat, model : Models \cup {Null}])
  BY DEF StreamInv, TypeOK
<1>2. jobs \in Seq(Job1)
  BY DEF StreamInv, TypeOK, Job1
<1>3. Len(out) \in Nat /\ Len(rows) \in Nat /\ DOMAIN rows = 1 .. Len(rows)
  BY <1>1
<1>4. Len(pack) \in Nat /\ DOMAIN pack = 1 .. Len(pack)
  <2> DEFINE S == Rows \X Nat
  <2>1. pack \in Seq(S)
    BY <1>1
  <2> HIDE DEF S
  <2> QED BY <2>1
<1>5. Len(jobs) \in Nat /\ DOMAIN jobs = 1 .. Len(jobs) /\ \A j \in DOMAIN jobs : jobs[j] \in Job1
  BY <1>2
<1>6. ASSUME NEW job \in Job1 PROVE Len(job.refs) \in Nat /\ DOMAIN job.refs = 1 .. Len(job.refs)
  <2> DEFINE S == Rows \X Nat
  <2>1. job.refs \in Seq(S)
    BY DEF Job1
  <2> HIDE DEF S
  <2> QED BY <2>1
<1> QED BY <1>1, <1>3, <1>4, <1>5, <1>6

(* Places depend on the pack and the jobs only. *)
LEMMA SamePlaces ==
  ASSUME UNCHANGED <<pack, jobs>>
  PROVE  /\ Open' = Open /\ \A p : At(p)' = At(p)
         /\ \A q : InPlace(q)' <=> InPlace(q)
BY DEF Open, At, InPlace, Alive

(* A step that leaves the questions and the owners alone. *)
LEMMA SameQuestions ==
  ASSUME Distinct, OwnedInv, NothingLost,
         UNCHANGED <<pack, jobs, answers, offset, flight>>,
         \A r \in 1 .. offset : Owns(r) => /\ AskedOf(r) \subseteq AskedOf(r)'
                                           /\ stopped' \/ (~stopped /\ AskedOf(r)' = AskedOf(r)),
         stopped' \/ ~stopped
  PROVE  Distinct' /\ OwnedInv' /\ NothingLost'
<1>1. /\ Open' = Open /\ \A p : At(p)' = At(p)
      /\ \A q : InPlace(q)' <=> InPlace(q)
  BY SamePlaces
<1>2. \A r : Owns(r)' <=> Owns(r)
  BY DEF Owns, Key
<1>3. ASSUME NEW q, Owned(q) PROVE Owned(q)'
  BY <1>2, <1>3 DEF Owned
<1>4. Distinct'
  BY <1>1 DEF Distinct
<1>5. OwnedInv'
  BY <1>1, <1>3 DEF OwnedInv, Rows
<1>6. NothingLost'
  BY <1>1, <1>2 DEF NothingLost
<1> QED BY <1>4, <1>5, <1>6

(* A row is taken: nothing has been asked of it (jev_stream.hpp:171-190).  *)
LEMMA AddQuestions ==
  ASSUME StreamInv, StreamInv', QuestionInv, Add
  PROVE  QuestionInv'
<1>0. PICK r : r = offset + 1
  OBVIOUS
<1>1. /\ UNCHANGED <<pack, jobs, answers, rowBytes, ready, stopped, out>> /\ offset' = r /\ phase = "input"
      /\ rows' = Append(rows, r) /\ offset \in Nat
  BY <1>0 DEF Add, jobVars, ansVars, flags, outVars, StreamInv, TypeOK
<1>2. Last(rows') = r
  <2>1. rows \in Seq(Rows) /\ rows' \in Seq(Rows)
    BY DEF StreamInv, TypeOK
  <2>2. Len(rows) \in Nat /\ Len(rows') = Len(rows) + 1 /\ rows'[Len(rows) + 1] = r
    BY <1>1, <2>1
  <2> QED BY <2>2 DEF Last
<1>a. r \in Rows /\ flight \in [Rows -> Nat] /\ 1 .. offset \subseteq Rows
  <2>1. offset' \in 0 .. Len(Input) /\ flight \in [Rows -> Nat]
    BY DEF StreamInv, TypeOK
  <2> QED BY <1>0, <1>1, <2>1, Constants
<1>3. \A p \in 1 .. offset : flight'[p] = flight[p] /\ (Owns(p)' <=> Owns(p))
  <2>2. \A p \in 1 .. offset : p # r /\ p \in Rows
    BY <1>0, <1>1, <1>a
  <2>3. flight' = flight \/ \E f : flight' = [flight EXCEPT ![r] = f]
    BY <1>0 DEF Add
  <2>4. \A p \in 1 .. offset : flight'[p] = flight[p]
    BY <1>a, <2>2, <2>3
  <2> QED BY <2>4 DEF Owns, Key
<1>4. \/ phase' = "input" /\ ~Owns(r)'
      \/ phase' = "ask" /\ asked' = 0 /\ Owns(r)'
  <2>1. CASE Key(r) = Null /\ UNCHANGED phase
    BY <1>1, <2>1 DEF Owns, Key
  <2>2. CASE phase' = phase /\ \E f \in 1 .. offset : Owns(f) /\ Key(f) = Key(r) /\ flight' = [flight EXCEPT ![r] = f]
    BY <1>1, <1>0, <1>a, <2>2 DEF Owns, Key
  <2>3. CASE Key(r) # Null /\ flight' = [flight EXCEPT ![r] = r] /\ phase' = "ask" /\ asked' = 0
    BY <1>1, <1>a, <2>3 DEF Owns, Key
  <2> QED BY <1>0, <2>1, <2>2, <2>3 DEF Add
<1>5. /\ \A p \in 1 .. offset : AskedOf(p)' = AskedOf(p)
      /\ Owns(r)' => AskedOf(r)' = {}
  <2>1. ASSUME NEW p \in 1 .. offset PROVE AskedOf(p)' = AskedOf(p)
    <3>1. p # r
      BY <1>0, <1>1
    <3> QED BY <1>1, <1>2, <1>4, <3>1 DEF AskedOf, Key
  <2>2. ASSUME Owns(r)' PROVE AskedOf(r)' = {}
    <3>1. AskedOf(r)' = IF phase' \in {"ask", "flushask"} /\ r = Last(rows') THEN 1 .. asked'
                        ELSE 1 .. Questions[Key(r)]
      BY <1>1 DEF AskedOf, Key
    <3> QED BY <1>2, <1>4, <2>2, <3>1
  <2> QED BY <2>1, <2>2
<1>6. 1 .. offset' = (1 .. offset) \cup {r}
  BY <1>0, <1>1
<1>7. /\ Open' = Open /\ \A p : At(p)' = At(p)
      /\ \A q : InPlace(q)' <=> InPlace(q)
  BY <1>1, SamePlaces
<1>8. ASSUME NEW q, Owned(q) PROVE Owned(q)'
  BY <1>3, <1>5, <1>6, <1>8 DEF Owned
<1>9. Distinct'
  BY <1>1, <1>7 DEF QuestionInv, Distinct
<1>10. OwnedInv'
  BY <1>1, <1>7, <1>8 DEF QuestionInv, OwnedInv, Rows
<1>11. NothingLost'
  BY <1>1, <1>3, <1>5, <1>6, <1>7 DEF QuestionInv, NothingLost
<1>12. LeftInv'
  <2>1. \A p \in 1 .. Len(out) : p \in 1 .. offset
    <3>1. offset = Len(out) + Len(rows)
      BY <1>1 DEF StreamInv, OrderInv
    <3>2. Len(out) \in Nat /\ Len(rows) \in Nat
      BY Lengths
    <3> QED BY <3>1, <3>2
  <2>2. \A p \in Rows : p > offset' => p > offset
    BY <1>0, <1>1, Constants
  <2> QED BY <1>1, <1>3, <2>1, <2>2 DEF QuestionInv, LeftInv, Key, Rows
<1>13. SizesInv'
  <2>1. phase' = "ask" => Key(r) \in Keys
    <3>1. phase' = "ask" => Key(r) # Null
      BY <1>4 DEF Owns, Key
    <3> QED BY <1>a, <3>1, Constants
  <2>2. phase' \in {"ask", "flushask"} => asked' <= Questions[Key(Last(rows'))] /\ Owns(Last(rows))'
    <3>1. ASSUME phase' = "ask" PROVE asked' = 0 /\ Questions[Key(r)] \in Nat /\ Owns(r)'
      BY <1>4, <2>1, <3>1, Constants
    <3>2. Owns(Last(rows))' <=> Owns(r)'
      BY <1>2 DEF Owns, Key
    <3> QED BY <1>2, <1>4, <3>1, <3>2
  <2> QED BY <1>1, <2>2 DEF QuestionInv, SizesInv, Key, Owns
<1> QED BY <1>9, <1>10, <1>11, <1>12, <1>13 DEF QuestionInv

(* The row being asked is the last that was taken. *)
LEMMA LastTaken ==
  ASSUME StreamInv, phase \in {"ask", "flushask"}
  PROVE  Last(rows) \in 1 .. offset /\ Last(rows) \in Rows /\ Key(Last(rows)) \in Keys
<1>1. rows # <<>> /\ Key(Last(rows)) # Null /\ phase # "closed"
  BY DEF StreamInv, AskingInv
<1>2. rows \in Seq(Rows)
  BY DEF StreamInv, TypeOK
<1>3. Len(rows) \in DOMAIN rows /\ Len(rows) > 0
  BY <1>1, <1>2
<1>4. Last(rows) = Len(out) + Len(rows) /\ offset = Len(out) + Len(rows)
  BY <1>1, <1>3 DEF StreamInv, OrderInv, Last
<1>5. Last(rows) \in 1 .. offset
  BY <1>3, <1>4, Lengths
<1> QED BY <1>1, <1>5, Lengths, Constants

(* A question is put into the pack: its row's owner had not asked it       *)
(* (jev_stream.hpp:197-219).                                               *)
LEMMA AskQuestions ==
  ASSUME StreamInv, StreamInv', QuestionInv, Ask
  PROVE  QuestionInv'
<1>0. PICK r, n : r = Last(rows) /\ n = Len(pack) + 1
  OBVIOUS
<1>1. /\ UNCHANGED <<offset, rows, flight, jobs, answers, rowBytes, ready, stopped, out>>
      /\ phase = "ask" /\ phase' \in {"ask", "flushask"}
      /\ asked < Questions[Key(r)] /\ asked \in Nat
  BY <1>0 DEF Ask, ansVars, flags, outVars, StreamInv, TypeOK
<1>2. r \in 1 .. offset /\ r \in Rows /\ Owns(r) /\ Questions[Key(r)] \in Nat
  BY <1>0, <1>1, LastTaken, Constants DEF QuestionInv, SizesInv
<1>3. \A p : (Owns(p)' <=> Owns(p)) /\ (p # r => AskedOf(p)' = AskedOf(p))
  BY <1>0, <1>1 DEF Owns, Key, AskedOf
<1>4. AskedOf(r) = 1 .. asked /\ AskedOf(r)' = 1 .. asked'
  BY <1>0, <1>1 DEF AskedOf
<1>5. LeftInv'
  BY <1>1 DEF QuestionInv, LeftInv, Key, Rows
<1>6. CASE UNCHANGED <<pack, asked>>
  <2>1. Distinct' /\ OwnedInv' /\ NothingLost'
    <3>1. AskedOf(r)' = AskedOf(r)
      BY <1>4, <1>6
    <3>2. stopped' \/ ~stopped
      BY <1>1 DEF StreamInv, TypeOK
    <3> QED BY <1>1, <1>3, <1>6, <3>1, <3>2, SameQuestions DEF QuestionInv
  <2>2. SizesInv'
    BY <1>0, <1>1, <1>6 DEF QuestionInv, SizesInv, Owns, Key
  <2> QED BY <1>5, <2>1, <2>2 DEF QuestionInv
<1>7. CASE pack' = Append(pack, <<r, asked + 1>>) /\ asked' = asked + 1 /\ (pack = <<>> \/ Fits(r))
  <2>0. PICK q : q = <<r, asked + 1>>
    OBVIOUS
  <2>1. /\ Len(pack') = n /\ DOMAIN pack' = (DOMAIN pack) \cup {n} /\ n \notin DOMAIN pack
        /\ pack'[n] = q /\ \A i \in DOMAIN pack : pack'[i] = pack[i]
        /\ n \in Nat
    <3> DEFINE S == Rows \X Nat
    <3>0. asked + 1 \in Nat
      BY <1>1
    <3>a. q \in S
      BY <1>2, <2>0, <3>0
    <3>1. pack \in Seq(S) /\ q \in S
      BY <3>a DEF StreamInv, TypeOK
    <3> HIDE DEF S
    <3>2. pack' = Append(pack, q)
      BY <1>7, <2>0
    <3> QED BY <1>0, <3>1, <3>2
  <2>2. PICK e : e = <<0, n>>
    OBVIOUS
  <2>3. Open' = Open \cup {e} /\ e \notin Open
    <3>1. \A p : p \in Open' <=> p \in Open \/ p = e
      <4> SUFFICES ASSUME NEW p PROVE p \in Open' <=> p \in Open \/ p = e
        OBVIOUS
      <4>1. p \in {0} \X Nat /\ p[2] \in DOMAIN pack' <=>
              (p \in {0} \X Nat /\ p[2] \in DOMAIN pack) \/ p = e
        BY <2>1, <2>2
      <4> QED BY <1>1, <4>1 DEF Open, Alive
    <3>2. e \notin Open
      <4>1. 0 \notin DOMAIN jobs
        BY Lengths
      <4> QED BY <2>1, <2>2, <4>1 DEF Open
    <3> QED BY <3>1, <3>2
  <2>4. At(e)' = q /\ \A p \in Open : At(p)' = At(p)
    <3>1. 0 \notin DOMAIN jobs
      BY Lengths
    <3> QED BY <1>1, <2>1, <2>2, <3>1 DEF At, Open
  <2>5. \A s : InPlace(s)' <=> InPlace(s) \/ s = q
    BY <2>3, <2>4 DEF InPlace
  <2>6. asked + 1 \notin AskedOf(r)
    BY <1>1, <1>4
  <2>7. ~ InPlace(q) /\ asked + 1 \notin answers[r]
    BY <1>2, <2>0, <2>6 DEF QuestionInv, OwnedInv, Owned
  <2>8. Distinct'
    <3>1. ASSUME NEW p \in Open', NEW s \in Open', At(p)' = At(s)' PROVE p = s
      <4>1. CASE p = e /\ s # e
        BY <2>3, <2>4, <2>7, <3>1, <4>1 DEF InPlace
      <4>2. CASE p # e /\ s = e
        BY <2>3, <2>4, <2>7, <3>1, <4>2 DEF InPlace
      <4>3. CASE p # e /\ s # e
        BY <2>3, <2>4, <3>1, <4>3 DEF QuestionInv, Distinct
      <4> QED BY <4>1, <4>2, <4>3
    <3>2. ASSUME NEW s, InPlace(s)' PROVE s[2] \notin answers'[s[1]]
      BY <1>1, <2>0, <2>5, <2>7, <3>2 DEF QuestionInv, Distinct
    <3> QED BY <3>1, <3>2 DEF Distinct
  <2>9. \A s : Owned(s) => Owned(s)'
    <3> SUFFICES ASSUME NEW s, Owned(s) PROVE Owned(s)'
      OBVIOUS
    <3>1. s[2] \in AskedOf(s[1])'
      <4>1. CASE s[1] = r
        BY <1>1, <1>4, <1>7, <4>1 DEF Owned
      <4> QED BY <1>3, <4>1 DEF Owned
    <3> QED BY <1>1, <1>3, <3>1 DEF Owned
  <2>10. Owned(q)'
    <3>1. asked + 1 \in AskedOf(r)'
      BY <1>1, <1>4, <1>7
    <3> QED BY <1>1, <1>2, <1>3, <2>0, <3>1 DEF Owned
  <2>11. OwnedInv'
    BY <1>1, <2>5, <2>9, <2>10 DEF QuestionInv, OwnedInv, Rows
  <2>12. NothingLost'
    <3> SUFFICES ASSUME ~stopped', NEW p \in 1 .. offset, Owns(p), NEW m \in AskedOf(p)'
                 PROVE  m \in answers[p] \/ InPlace(<<p, m>>)'
      BY <1>1, <1>3 DEF QuestionInv, NothingLost
    <3>1. CASE p = r /\ m = asked + 1
      BY <2>0, <2>5, <3>1
    <3>2. CASE ~ (p = r /\ m = asked + 1)
      <4>1. m \in AskedOf(p)
        <5>1. CASE p = r
          <6>1. m \in 1 .. asked + 1 /\ m # asked + 1
            BY <1>4, <1>7, <3>2, <5>1
          <6> QED BY <1>1, <1>4, <5>1, <6>1
        <5> QED BY <1>3, <5>1
      <4> QED BY <1>1, <2>5, <4>1 DEF QuestionInv, NothingLost
    <3> QED BY <3>1, <3>2
  <2>13. SizesInv'
    <3>1. n <= BatchSize
      <4>1. CASE pack = <<>>
        BY <1>0, <4>1, StreamAssumption
      <4>2. CASE Fits(r)
        <5>1. Len(pack) < BatchSize
          BY <4>2, Zenon DEF Fits
        <5>2. BatchSize \in Nat
          BY StreamAssumption
        <5> QED BY <1>0, <5>1, <5>2, Lengths
      <4> QED BY <1>7, <4>1, <4>2
    <3>2. asked' <= Questions[Key(r)]
      BY <1>1, <1>2, <1>7
    <3> QED BY <1>0, <1>1, <2>1, <3>1, <3>2 DEF QuestionInv, SizesInv, Owns, Key
  <2> QED BY <1>5, <2>8, <2>11, <2>12, <2>13 DEF QuestionInv
<1> QED BY <1>0, <1>6, <1>7 DEF Ask

(* Steps that put, take and answer no question. *)
LEMMA TurnQuestions ==
  ASSUME StreamInv, StreamInv', QuestionInv, AskedAll \/ Turn \/ Resume \/ Close \/ EmitRow
  PROVE  QuestionInv'
<1>1. /\ UNCHANGED <<offset, flight, pack, jobs, answers, rowBytes, ready>>
      /\ phase' \notin {"ask", "flushask"}
      /\ (stopped' = stopped /\ UNCHANGED asked) \/ stopped'
  BY DEF AskedAll, Turn, Resume, Close, EmitRow, inVars, jobVars, ansVars, flags
<1>2. \A p : (Owns(p)' <=> Owns(p)) /\ AskedOf(p)' = 1 .. Questions[Key(p)]
  BY <1>1 DEF Owns, Key, AskedOf
<1>3. stopped' \/ ~stopped
  BY <1>1 DEF StreamInv, TypeOK
<1>4. \A p \in 1 .. offset : /\ AskedOf(p) \subseteq AskedOf(p)'
                             /\ stopped' \/ (~stopped /\ AskedOf(p)' = AskedOf(p))
  <2> SUFFICES ASSUME NEW p \in 1 .. offset
               PROVE  /\ AskedOf(p) \subseteq AskedOf(p)'
                      /\ stopped' \/ (~stopped /\ AskedOf(p)' = AskedOf(p))
    OBVIOUS
  <2>1. CASE phase \in {"ask", "flushask"} /\ p = Last(rows)
    <3>1. Questions[Key(p)] \in Nat /\ asked \in Nat
      BY <2>1, LastTaken, Constants DEF StreamInv, TypeOK
    <3>2. asked <= Questions[Key(p)] /\ AskedOf(p) = 1 .. asked
      BY <2>1 DEF QuestionInv, SizesInv, AskedOf
    <3>3. stopped' \/ asked = Questions[Key(p)]
      BY <2>1 DEF AskedAll, Turn, Resume, Close, EmitRow
    <3> QED BY <1>2, <1>3, <3>1, <3>2, <3>3
  <2>2. CASE ~ (phase \in {"ask", "flushask"} /\ p = Last(rows))
    <3>1. AskedOf(p) = 1 .. Questions[Key(p)]
      BY <2>2 DEF AskedOf
    <3> QED BY <1>2, <1>3, <3>1
  <2> QED BY <2>1, <2>2
<1>5. Distinct' /\ OwnedInv' /\ NothingLost'
  BY <1>1, <1>3, <1>4, SameQuestions DEF QuestionInv
<1>6. SizesInv'
  BY <1>1 DEF QuestionInv, SizesInv
<1>7. LeftInv'
  <2>1. CASE EmitRow
    <3>1. PICK r : r = Head(rows)
      OBVIOUS
    <3>2. Ready(r) /\ out' = Append(out, Result(r)) /\ phase # "closed" /\ rows # <<>>
      BY <2>1, <3>1 DEF EmitRow
    <3>3. r = Len(out) + 1 /\ Len(out') = Len(out) + 1
      <4>1. rows \in Seq(Rows) /\ out \in Seq({Null} \cup [key : Keys, answers : SUBSET Nat, model : Models \cup {Null}])
        BY DEF StreamInv, TypeOK
      <4>2. 1 \in DOMAIN rows /\ r = rows[1]
        BY <3>1, <3>2, <4>1
      <4>3. r = Len(out) + 1
        BY <3>2, <4>2 DEF StreamInv, OrderInv
      <4>4. Len(Append(out, Result(r))) = Len(out) + 1
        <5> DEFINE S == {Null} \cup [key : Keys, answers : SUBSET Nat, model : Models \cup {Null}]
        <5>1. out \in Seq(S)
          BY <4>1
        <5> HIDE DEF S
        <5> QED BY <5>1
      <4> QED BY <3>2, <4>3, <4>4
    <3>4. \A p \in 1 .. Len(out') : p = r \/ p \in 1 .. Len(out)
      BY <3>3, Lengths
    <3> QED BY <1>1, <3>2, <3>4 DEF QuestionInv, LeftInv, Ready, Key, Rows
  <2>2. CASE ~EmitRow
    <3>1. UNCHANGED out
      BY <2>2 DEF AskedAll, Turn, Resume, Close, outVars
    <3> QED BY <1>1, <3>1 DEF QuestionInv, LeftInv, Key, Rows
  <2> QED BY <2>1, <2>2
<1> QED BY <1>5, <1>6, <1>7 DEF QuestionInv

(* Jobs that are done are dropped from the front; what is open stays open. *)
LEMMA ReapQuestions ==
  ASSUME StreamInv, StreamInv', QuestionInv, UNCHANGED <<answers, offset, flight, stopped>>,
         \A p \in 1 .. offset : AskedOf(p)' = AskedOf(p),
         \/ jobs' = Reaped /\ pack' = pack
         \/ /\ jobs' = Append(Reaped, [refs |-> pack, state |-> "queued", next |-> 1, model |-> Null])
            /\ pack' = <<>>
  PROVE  Distinct' /\ OwnedInv' /\ NothingLost'
<1> DEFINE job == [refs |-> pack, state |-> "queued", next |-> 1, model |-> Null]
<1>1. PICK c \in 0 .. Len(jobs) :
         /\ Len(Reaped) = Len(jobs) - c
         /\ \A i \in 1 .. c : jobs[i].state = "done"
         /\ \A i \in 1 .. Len(Reaped) : Reaped[i] = jobs[c + i]
  BY ReapedShift DEF StreamInv
<1>2. PICK n : n = Len(Reaped)
  OBVIOUS
<1>3. /\ n \in Nat /\ c \in Nat /\ n = Len(jobs) - c /\ Len(jobs) \in Nat
      /\ DOMAIN jobs = 1 .. Len(jobs) /\ DOMAIN pack = 1 .. Len(pack)
  BY <1>1, <1>2, Lengths
<1>4. \/ DOMAIN jobs' = 1 .. n /\ (\A i \in 1 .. n : jobs'[i] = jobs[c + i]) /\ pack' = pack
      \/ /\ DOMAIN jobs' = 1 .. n + 1 /\ (\A i \in 1 .. n : jobs'[i] = jobs[c + i]) /\ DOMAIN pack' = {}
         /\ jobs'[n + 1].refs = pack /\ jobs'[n + 1].state = "queued" /\ jobs'[n + 1].next = 1
  <2>1. Reaped \in Seq(Job1) /\ DOMAIN Reaped = 1 .. n
    BY <1>2, ReapedShift DEF StreamInv
  <2>2. job \in Job1 /\ job.refs = pack /\ job.state = "queued" /\ job.next = 1
    BY DEF Job1, JobStates, StreamInv, TypeOK
  <2>3. CASE jobs' = Reaped /\ pack' = pack
    BY <1>1, <1>2, <2>1, <2>3
  <2>4. CASE jobs' = Append(Reaped, job) /\ pack' = <<>>
    <3> HIDE DEF job
    <3>1. DOMAIN jobs' = 1 .. n + 1 /\ (\A i \in 1 .. n : jobs'[i] = Reaped[i]) /\ jobs'[n + 1] = job
      BY <1>2, <1>3, <2>1, <2>2, <2>4
    <3> QED BY <1>1, <1>2, <2>2, <2>4, <3>1
  <2> QED BY <2>3, <2>4
<1>5. \A i \in 1 .. n : c + i \in DOMAIN jobs /\ c + i # 0
  BY <1>3
<1> DEFINE G(p) == IF p[1] = 0 THEN p ELSE IF p[1] = n + 1 THEN <<0, p[2]>> ELSE <<c + p[1], p[2]>>
<1>6. ASSUME NEW p \in Open' PROVE G(p) \in Open /\ At(p)' = At(G(p))
  <2>1. CASE p[1] = 0
    <3>1. 0 \notin DOMAIN jobs'
      BY <1>3, <1>4
    <3>2. p \in {0} \X Nat /\ p[2] \in DOMAIN pack'
      BY <2>1, <3>1 DEF Open
    <3> QED BY <1>4, <2>1, <3>2 DEF Open, At
  <2>2. CASE p[1] # 0
    <3>1. /\ p \in (DOMAIN jobs') \X Nat /\ jobs'[p[1]].state \in Alive
          /\ p[2] \in jobs'[p[1]].next .. Len(jobs'[p[1]].refs)
      BY <2>2 DEF Open, Alive
    <3>2. CASE p[1] = n + 1
      <4>1. n + 1 \notin 1 .. n
        BY <1>3
      <4>2. jobs'[p[1]].refs = pack /\ jobs'[p[1]].next = 1
        BY <1>4, <3>1, <3>2, <4>1
      <4>3. p[2] \in DOMAIN pack /\ p[2] \in Nat
        BY <1>3, <3>1, <4>2
      <4>4. G(p) = <<0, p[2]>>
        BY <2>2, <3>2
      <4> HIDE DEF G
      <4> QED BY <2>2, <4>2, <4>3, <4>4 DEF Open, At
    <3>3. CASE p[1] # n + 1
      <4>1. p[1] \in 1 .. n
        BY <1>3, <1>4, <3>1, <3>3
      <4>2. jobs'[p[1]] = jobs[c + p[1]] /\ c + p[1] \in DOMAIN jobs /\ c + p[1] # 0
        BY <1>4, <1>5, <4>1
      <4>3. G(p) = <<c + p[1], p[2]>>
        BY <2>2, <3>3
      <4> HIDE DEF G
      <4> QED BY <2>2, <3>1, <4>2, <4>3 DEF Open, At, Alive
    <3> QED BY <3>2, <3>3
  <2> QED BY <2>1, <2>2
<1>7. ASSUME NEW p \in Open', NEW s \in Open', G(p) = G(s) PROVE p = s
  <2>0. /\ p[1] \in 0 .. n + 1 /\ s[1] \in 0 .. n + 1 /\ p = <<p[1], p[2]>> /\ s = <<s[1], s[2]>>
    <3>1. \A t \in Open' : t[1] \in {0} \cup DOMAIN jobs' /\ t = <<t[1], t[2]>>
      BY DEF Open
    <3>2. \A t \in Open' : t[1] \in 0 .. n + 1
      BY <1>3, <1>4, <3>1
    <3> QED BY <3>1, <3>2
  <2>1. p[1] = 0 => s[1] # n + 1
    <3>1. ASSUME p[1] = 0, s[1] = n + 1 PROVE FALSE
      <4>1. p[2] \in DOMAIN pack'
        <5>1. 0 \notin DOMAIN jobs'
          BY <1>3, <1>4
        <5> QED BY <3>1, <5>1 DEF Open
      <4>2. n + 1 \in DOMAIN jobs'
        BY <1>3, <3>1 DEF Open
      <4>3. n + 1 \notin 1 .. n
        BY <1>3
      <4> QED BY <1>4, <4>1, <4>2, <4>3
    <3> QED BY <3>1
  <2>2. s[1] = 0 => p[1] # n + 1
    <3>1. ASSUME s[1] = 0, p[1] = n + 1 PROVE FALSE
      <4>1. s[2] \in DOMAIN pack'
        <5>1. 0 \notin DOMAIN jobs'
          BY <1>3, <1>4
        <5> QED BY <3>1, <5>1 DEF Open
      <4>2. n + 1 \in DOMAIN jobs'
        BY <1>3, <3>1 DEF Open
      <4>3. n + 1 \notin 1 .. n
        BY <1>3
      <4> QED BY <1>4, <4>1, <4>2, <4>3
    <3> QED BY <3>1
  <2>3. G(p)[1] = G(s)[1] /\ G(p)[2] = G(s)[2]
    BY <1>7
  <2>4. G(p)[2] = p[2] /\ G(s)[2] = s[2]
    OBVIOUS
  <2>5. /\ G(p)[1] = IF p[1] \in {0, n + 1} THEN 0 ELSE c + p[1]
        /\ G(s)[1] = IF s[1] \in {0, n + 1} THEN 0 ELSE c + s[1]
    OBVIOUS
  <2> HIDE DEF G
  <2>6. p[1] = s[1]
    <3>1. PICK a, b : a = p[1] /\ b = s[1]
      OBVIOUS
    <3>2. /\ a \in 0 .. n + 1 /\ b \in 0 .. n + 1 /\ (a = 0 => b # n + 1) /\ (b = 0 => a # n + 1)
          /\ (IF a \in {0, n + 1} THEN 0 ELSE c + a) = (IF b \in {0, n + 1} THEN 0 ELSE c + b)
      BY <2>0, <2>1, <2>2, <2>3, <2>5, <3>1
    <3>3. a = b
      BY <1>3, <3>2
    <3> QED BY <3>1, <3>3
  <2> QED BY <2>0, <2>3, <2>4, <2>6
<1>8. ASSUME NEW s \in Open PROVE \E p \in Open' : At(p)' = At(s)
  <2>1. CASE s[1] = 0
    <3>1. 0 \notin DOMAIN jobs
      BY <1>3
    <3>2. s[2] \in DOMAIN pack /\ s \in {0} \X Nat /\ s[2] \in Nat
      BY <2>1, <3>1 DEF Open
    <3>3. CASE pack' = pack
      BY <2>1, <3>2, <3>3 DEF Open, At
    <3>4. CASE pack' # pack
      <4> DEFINE p == <<n + 1, s[2]>>
      <4>1. /\ n + 1 \in DOMAIN jobs' /\ jobs'[n + 1].refs = pack
            /\ jobs'[n + 1].state = "queued" /\ jobs'[n + 1].next = 1 /\ n + 1 # 0
        BY <1>3, <1>4, <3>4
      <4>2. s[2] \in 1 .. Len(pack)
        BY <1>3, <3>2
      <4>3. p \in Open' /\ At(p)' = pack[s[2]]
        BY <3>2, <4>1, <4>2 DEF Open, At, Alive
      <4> QED BY <2>1, <4>3 DEF At
    <3> QED BY <3>3, <3>4
  <2>2. CASE s[1] # 0
    <3>1. /\ s \in (DOMAIN jobs) \X Nat /\ jobs[s[1]].state \in Alive
          /\ s[2] \in jobs[s[1]].next .. Len(jobs[s[1]].refs)
      BY <2>2 DEF Open, Alive
    <3>2. s[1] \in 1 .. Len(jobs) /\ s[1] \notin 1 .. c
      BY <1>1, <1>3, <3>1 DEF Alive
    <3> DEFINE i == s[1] - c
               p == <<i, s[2]>>
    <3>3. i \in 1 .. n /\ c + i = s[1] /\ i # 0
      BY <1>3, <3>2
    <3>4. jobs'[i] = jobs[s[1]] /\ i \in DOMAIN jobs'
      <4>1. i \in 1 .. n + 1
        BY <1>3, <3>3
      <4> QED BY <1>4, <3>3, <4>1
    <3> HIDE DEF i
    <3>5. p \in Open' /\ At(p)' = At(s)
      BY <2>2, <3>1, <3>3, <3>4 DEF Open, At, Alive
    <3> QED BY <3>5
  <2> QED BY <2>1, <2>2
<1>9. \A q : Owned(q) => Owned(q)'
  BY DEF Owned, Owns, Key
<1> DEFINE g == [p \in Open' |-> G(p)]
<1>10. Distinct' /\ OwnedInv'
  <2>1. g \in [Open' -> Open] /\ (\A p \in Open' : At(p)' = At(g[p]))
        /\ \A p, s \in Open' : g[p] = g[s] => p = s
    <3> HIDE DEF G
    <3> QED BY <1>6, <1>7
  <2> HIDE DEF g
  <2> QED BY <1>9, <2>1, Moved DEF QuestionInv
<1>11. NothingLost'
  <2>1. \A q : InPlace(q) => InPlace(q)'
    BY <1>8 DEF InPlace
  <2>2. ASSUME ~stopped PROVE \A j \in DOMAIN jobs' : jobs'[j].state # "failing"
    <3>1. \A j \in DOMAIN jobs : jobs[j].state # "failing"
      BY <2>2 DEF QuestionInv, NothingLost
    <3>2. ASSUME NEW j \in DOMAIN jobs' PROVE jobs'[j].state # "failing"
      <4>1. j \in 1 .. n \/ (j = n + 1 /\ jobs'[n + 1].state = "queued")
        <5>1. CASE DOMAIN jobs' = 1 .. n
          BY <5>1
        <5>2. CASE DOMAIN jobs' = 1 .. n + 1 /\ jobs'[n + 1].state = "queued"
          BY <1>3, <3>2, <5>2
        <5> QED BY <1>4, <5>1, <5>2
      <4> QED BY <1>4, <1>5, <3>1, <4>1
    <3> QED BY <3>2
  <2>3. \A p : Owns(p)' <=> Owns(p)
    BY DEF Owns, Key
  <2> QED BY <2>1, <2>2, <2>3 DEF QuestionInv, NothingLost
<1> QED BY <1>10, <1>11

(* A change of one job leaves the places of the others. *)
LEMMA OneOpen ==
  ASSUME StreamInv, NEW j \in DOMAIN jobs, NEW job \in Job1, SetJob(j, job),
         job.refs = jobs[j].refs, UNCHANGED pack
  PROVE  /\ DOMAIN jobs' = DOMAIN jobs /\ Len(jobs') = Len(jobs)
         /\ jobs'[j] = job /\ \A k \in DOMAIN jobs : k # j => jobs'[k] = jobs[k]
         /\ \A p : p[1] # j => (p \in Open' <=> p \in Open)
         /\ \A p : p[1] = j => (p \in Open' <=> /\ p \in (DOMAIN jobs) \X Nat /\ job.state \in Alive
                                              /\ p[2] \in job.next .. Len(job.refs))
         /\ \A p \in Open' : At(p)' = At(p)
<1>1. jobs \in Seq(Job1) /\ jobs' = [jobs EXCEPT ![j] = job] /\ 0 \notin DOMAIN jobs
  BY Lengths DEF StreamInv, TypeOK, Job1, SetJob
<1>2. /\ DOMAIN jobs' = DOMAIN jobs /\ Len(jobs') = Len(jobs)
      /\ jobs'[j] = job /\ \A k \in DOMAIN jobs : k # j => jobs'[k] = jobs[k]
  BY <1>1
<1>3. ASSUME NEW p, p[1] # j PROVE p \in Open' <=> p \in Open
  <2>1. p \in (DOMAIN jobs) \X Nat => jobs'[p[1]] = jobs[p[1]]
    BY <1>2, <1>3
  <2> QED BY <1>2, <2>1 DEF Open, Alive
<1>4. ASSUME NEW p, p[1] = j
      PROVE  p \in Open' <=> /\ p \in (DOMAIN jobs) \X Nat /\ job.state \in Alive
                              /\ p[2] \in job.next .. Len(job.refs)
  BY <1>1, <1>2, <1>4 DEF Open, Alive
<1>5. ASSUME NEW p \in Open' PROVE At(p)' = At(p)
  <2>1. p[1] # 0 => p[1] \in DOMAIN jobs
    BY <1>2 DEF Open
  <2> QED BY <1>2, <2>1 DEF At
<1> QED BY <1>2, <1>3, <1>4, <1>5

(* A job starts, is answered or fails: its questions stay where they are   *)
(* until the first is applied, or the stream stops.                        *)
LEMMA JobQuestions ==
  ASSUME StreamInv, StreamInv', QuestionInv, NEW j \in DOMAIN jobs,
         JobStart(j) \/ JobFails(j) \/ JobError(j) \/ \E m \in Models : JobAnswered(j, m)
  PROVE  QuestionInv'
<1>1. /\ UNCHANGED <<phase, offset, rows, asked, flight, pack, answers, rowBytes, ready, out>>
      /\ stopped' = stopped \/ stopped'
  BY DEF JobStart, JobFails, JobError, JobAnswered, inVars, ansVars, outVars, flags
<1>2. jobs \in Seq(Job1) /\ jobs[j] \in Job1
  BY TypedJob DEF StreamInv
<1>3. ASSUME NEW s \in JobStates, SetJob(j, JobIs(j, s)),
             \/ s = "calling" /\ jobs[j].state = "queued"
             \/ s \in {"done", "failing"} /\ stopped'
      PROVE  \E job \in Job1 :
               /\ SetJob(j, job) /\ job.refs = jobs[j].refs /\ job.next = jobs[j].next
               /\ \/ job.state \in Alive /\ jobs[j].state \in Alive
                  \/ job.state \notin Alive /\ stopped'
  <2> DEFINE job == JobIs(j, s)
  <2>1. job \in Job1 /\ job.refs = jobs[j].refs /\ job.state = s /\ job.next = jobs[j].next
    BY <1>2 DEF JobIs, Job1
  <2>2. SetJob(j, job)
    BY <1>3
  <2> HIDE DEF job
  <2> QED BY <1>3, <2>1, <2>2 DEF Alive
<1>4. PICK job \in Job1 :
               /\ SetJob(j, job) /\ job.refs = jobs[j].refs /\ job.next = jobs[j].next
               /\ \/ job.state \in Alive /\ jobs[j].state \in Alive
                  \/ job.state \notin Alive /\ stopped'
  <2>1. CASE JobStart(j)
    <3>1. PICK s \in {"done", "calling"} : SetJob(j, JobIs(j, s)) /\ (s = "calling" \/ stopped') /\ jobs[j].state = "queued"
      BY <2>1 DEF JobStart, flags
    <3> QED BY <3>1, <1>3 DEF JobStates
  <2>2. CASE JobFails(j)
    BY <2>2, <1>3 DEF JobFails, JobStates
  <2>3. CASE JobError(j)
    <3>1. stopped'
      BY <2>3 DEF JobError, QuestionInv, NothingLost
    <3> QED BY <2>3, <3>1, <1>3 DEF JobError, JobStates
  <2>4. ASSUME NEW m \in Models, JobAnswered(j, m)
        PROVE \E job \in Job1 :
               /\ SetJob(j, job) /\ job.refs = jobs[j].refs /\ job.next = jobs[j].next
               /\ \/ job.state \in Alive /\ jobs[j].state \in Alive
                  \/ job.state \notin Alive /\ stopped'
    <3> DEFINE job == [jobs[j] EXCEPT !.state = "completing", !.model = m]
    <3>1. job \in Job1 /\ job.refs = jobs[j].refs /\ job.state = "completing" /\ job.next = jobs[j].next
      BY <1>2 DEF Job1, JobStates
    <3>2. SetJob(j, job) /\ jobs[j].state = "calling"
      BY <2>4 DEF JobAnswered
    <3> HIDE DEF job
    <3> QED BY <3>1, <3>2 DEF Alive
  <2> QED BY <2>1, <2>2, <2>3, <2>4
<1>5. /\ DOMAIN jobs' = DOMAIN jobs /\ Len(jobs') = Len(jobs)
      /\ jobs'[j] = job /\ (\A k \in DOMAIN jobs : k # j => jobs'[k] = jobs[k])
      /\ (\A p : p[1] # j => (p \in Open' <=> p \in Open))
      /\ (\A p : p[1] = j => (p \in Open' <=> p \in (DOMAIN jobs) \X Nat /\ job.state \in Alive
                                              /\ p[2] \in job.next .. Len(job.refs)))
      /\ \A p \in Open' : At(p)' = At(p)
  BY <1>1, <1>4, OneOpen
<1>6. Open' \subseteq Open /\ (Open' = Open \/ stopped')
  <2>1. ASSUME NEW p PROVE (p \in Open' => p \in Open) /\ (p \in Open => p \in Open' \/ stopped')
    <3>1. CASE p[1] # j
      BY <1>5, <3>1
    <3>2. CASE p[1] = j
      <4>1. p \in Open <=> p \in (DOMAIN jobs) \X Nat /\ jobs[j].state \in Alive
                            /\ p[2] \in jobs[j].next .. Len(jobs[j].refs)
        BY <3>2, Lengths DEF Open, Alive
      <4>2. p \in Open' <=> p \in (DOMAIN jobs) \X Nat /\ job.state \in Alive
                            /\ p[2] \in job.next .. Len(job.refs)
        BY <1>5, <3>2
      <4> QED BY <1>4, <4>1, <4>2
    <3> QED BY <3>1, <3>2
  <2> QED BY <2>1
<1>7. (\A p : Owns(p)' <=> Owns(p)) /\ (\A p : AskedOf(p)' = AskedOf(p)) /\ \A q : Owned(q)' <=> Owned(q)
  <2>1. (\A p : Owns(p)' <=> Owns(p)) /\ (\A p : AskedOf(p)' = AskedOf(p))
    BY <1>1 DEF Owns, Key, AskedOf
  <2> QED BY <1>1, <2>1 DEF Owned
<1>8. Distinct' /\ OwnedInv'
  <2> DEFINE g == [p \in Open' |-> p]
  <2>1. g \in [Open' -> Open] /\ (\A p \in Open' : At(p)' = At(g[p])) /\ \A p, s \in Open' : g[p] = g[s] => p = s
    BY <1>5, <1>6
  <2> HIDE DEF g
  <2> QED BY <1>1, <1>7, <2>1, Moved DEF QuestionInv
<1>9. NothingLost'
  <2> SUFFICES ASSUME ~stopped'
               PROVE  /\ \A k \in DOMAIN jobs' : jobs'[k].state # "failing"
                      /\ \A r \in 1 .. offset : Owns(r) => \A n \in AskedOf(r) : n \in answers[r] \/ InPlace(<<r, n>>)'
    BY <1>1, <1>7 DEF NothingLost
  <2>1. ~stopped
    BY <1>1
  <2>2. \A k \in DOMAIN jobs' : jobs'[k].state # "failing"
    BY <1>4, <1>5, <2>1 DEF QuestionInv, NothingLost, Alive
  <2>3. \A q : InPlace(q) => InPlace(q)'
    BY <1>5, <1>6 DEF InPlace
  <2> QED BY <2>1, <2>2, <2>3 DEF QuestionInv, NothingLost
<1>10. LeftInv'
  BY <1>1 DEF QuestionInv, LeftInv, Key, Rows
<1>11. SizesInv'
  <2>1. \A k \in DOMAIN jobs' : Len(jobs'[k].refs) <= BatchSize /\ jobs'[k].next >= 1
    <3>1. \A k \in DOMAIN jobs : Len(jobs[k].refs) <= BatchSize /\ jobs[k].next >= 1
      BY DEF QuestionInv, SizesInv
    <3> QED BY <1>4, <1>5, <3>1
  <2> QED BY <1>1, <1>5, <1>7, <2>1 DEF QuestionInv, SizesInv, Key, Owns
<1> QED BY <1>8, <1>9, <1>10, <1>11 DEF QuestionInv

(* What is open is a question of a row. *)
LEMMA OpenTyped ==
  ASSUME StreamInv, QuestionInv, NEW p \in Open
  PROVE  At(p) \in Rows \X Nat
<1> DEFINE S == Rows \X Nat
<1>1. pack \in Seq(S) /\ (\A j \in DOMAIN jobs : jobs[j] \in Job1) /\ 0 \notin DOMAIN jobs
  <2>1. pack \in Seq(S)
    BY DEF StreamInv, TypeOK
  <2>2. \A j \in DOMAIN jobs : jobs[j] \in Job1
    BY Lengths
  <2>3. 0 \notin DOMAIN jobs
    BY Lengths
  <2> HIDE DEF S
  <2> QED BY <2>1, <2>2, <2>3
<1>2. ASSUME NEW s \in Seq(S), NEW i \in DOMAIN s PROVE s[i] \in S
  <2> HIDE DEF S
  <2> QED BY <1>2
<1>3. CASE p[1] = 0
  <2>1. p[2] \in DOMAIN pack /\ At(p) = pack[p[2]]
    BY <1>1, <1>3 DEF Open, At
  <2> HIDE DEF S
  <2>2. At(p) \in S
    BY <1>1, <1>2, <2>1
  <2> QED BY <2>2 DEF S
<1>4. CASE p[1] # 0
  <2>1. p[1] \in DOMAIN jobs /\ p[2] \in jobs[p[1]].next .. Len(jobs[p[1]].refs)
        /\ At(p) = jobs[p[1]].refs[p[2]]
    BY <1>4 DEF Open, At
  <2>2. jobs[p[1]].refs \in Seq(S) /\ jobs[p[1]].next \in Nat /\ jobs[p[1]].next >= 1
    BY <1>1, <2>1 DEF Job1, QuestionInv, SizesInv
  <2>3. p[2] \in DOMAIN jobs[p[1]].refs
    BY <2>1, <2>2, Lengths
  <2> HIDE DEF S
  <2>4. At(p) \in S
    BY <1>2, <2>1, <2>2, <2>3
  <2> QED BY <2>4 DEF S
<1> QED BY <1>3, <1>4

(* A job's next question is answered: it leaves the job and is among its   *)
(* row's answers (jev_stream.hpp:80-98).                                   *)
LEMMA AnswerQuestions ==
  ASSUME StreamInv, StreamInv', QuestionInv, NEW j \in DOMAIN jobs, NEW bytes \in AnswerBytes,
         JobAnswer(j, bytes)
  PROVE  /\ QuestionInv'
         /\ \E r \in Len(out) + 1 .. offset : rowBytes' = [rowBytes EXCEPT ![r] = @ + bytes]
<1>0. PICK e, q, r : e = <<j, jobs[j].next>> /\ q = jobs[j].refs[jobs[j].next] /\ r = q[1]
  OBVIOUS
<1>1. /\ UNCHANGED <<phase, offset, rows, asked, flight, pack, out>>
      /\ jobs[j].state = "completing"
      /\ rowBytes' = [rowBytes EXCEPT ![r] = @ + bytes]
      /\ answers' = [answers EXCEPT ![r] = @ \cup {q[2]}]
      /\ \/ SetJob(j, JobIs(j, "failing")) /\ stopped' /\ UNCHANGED ready
         \/ /\ ready' = (IF RowAnswered(r, j) THEN ready \cup {r} ELSE ready)
            /\ SetJob(j, IF jobs[j].next = Len(jobs[j].refs) THEN JobIs(j, "done") ELSE [jobs[j] EXCEPT !.next = @ + 1])
            /\ stopped' = stopped
  BY <1>0 DEF JobAnswer, inVars, outVars
<1>2. jobs \in Seq(Job1) /\ jobs[j] \in Job1 /\ jobs[j].next \in Nat
  BY TypedJob DEF StreamInv, Job1
<1>3. /\ jobs[j].next \in DOMAIN jobs[j].refs /\ DOMAIN jobs[j].refs = 1 .. Len(jobs[j].refs)
      /\ Len(jobs[j].refs) \in Nat /\ 0 \notin DOMAIN jobs
  BY <1>1, Lengths DEF StreamInv, JobsInv
<1>4. e \in Open /\ At(e) = q
  BY <1>0, <1>1, <1>2, <1>3 DEF Open, At, Alive
<1>5. q \in Rows \X Nat /\ Owned(q) /\ q[2] \notin answers[r] /\ r \in Rows /\ q = <<r, q[2]>>
  <2>1. q \in Rows \X Nat
    BY <1>4, OpenTyped
  <2> QED BY <1>0, <1>4, <2>1 DEF QuestionInv, Distinct, OwnedInv, InPlace
<1>6. \E job \in Job1 :
        /\ SetJob(j, job) /\ job.refs = jobs[j].refs /\ job.next >= 1
        /\ \/ job.state = "failing" /\ stopped'
           \/ job.state = "done" /\ jobs[j].next = Len(jobs[j].refs) /\ stopped' = stopped
           \/ job.state = "completing" /\ job.next = jobs[j].next + 1 /\ stopped' = stopped
  <2>1. ASSUME NEW s \in {"failing", "done"}
        PROVE  JobIs(j, s) \in Job1 /\ JobIs(j, s).refs = jobs[j].refs /\ JobIs(j, s).state = s
               /\ JobIs(j, s).next >= 1
    <3>1. jobs[j].next >= 1
      BY <1>3
    <3>2. s \in JobStates
      BY DEF JobStates
    <3> QED BY <1>2, <3>1, <3>2 DEF JobIs, Job1
  <2>2. /\ [jobs[j] EXCEPT !.next = @ + 1] \in Job1 /\ [jobs[j] EXCEPT !.next = @ + 1].refs = jobs[j].refs
        /\ [jobs[j] EXCEPT !.next = @ + 1].state = "completing"
        /\ [jobs[j] EXCEPT !.next = @ + 1].next = jobs[j].next + 1 /\ jobs[j].next + 1 >= 1
    <3>1. jobs[j].next + 1 \in Nat /\ jobs[j].next + 1 >= 1
      BY <1>2
    <3> QED BY <1>1, <1>2, <3>1 DEF Job1
  <2>3. CASE SetJob(j, JobIs(j, "failing")) /\ stopped'
    BY <2>1, <2>3
  <2>4. CASE jobs[j].next = Len(jobs[j].refs) /\ SetJob(j, JobIs(j, "done")) /\ stopped' = stopped
    BY <2>1, <2>4
  <2>5. CASE SetJob(j, [jobs[j] EXCEPT !.next = @ + 1]) /\ stopped' = stopped
    BY <2>2, <2>5
  <2> QED BY <1>1, <2>3, <2>4, <2>5
<1>7. PICK job \in Job1 :
        /\ SetJob(j, job) /\ job.refs = jobs[j].refs /\ job.next >= 1
        /\ \/ job.state = "failing" /\ stopped'
           \/ job.state = "done" /\ jobs[j].next = Len(jobs[j].refs) /\ stopped' = stopped
           \/ job.state = "completing" /\ job.next = jobs[j].next + 1 /\ stopped' = stopped
  BY <1>6
<1>8. /\ DOMAIN jobs' = DOMAIN jobs /\ Len(jobs') = Len(jobs)
      /\ jobs'[j] = job /\ (\A k \in DOMAIN jobs : k # j => jobs'[k] = jobs[k])
      /\ (\A p : p[1] # j => (p \in Open' <=> p \in Open))
      /\ (\A p : p[1] = j => (p \in Open' <=> p \in (DOMAIN jobs) \X Nat /\ job.state \in Alive
                                              /\ p[2] \in job.next .. Len(job.refs)))
      /\ \A p \in Open' : At(p)' = At(p)
  BY <1>1, <1>7, OneOpen
<1>9. Open' \subseteq Open \ {e} /\ (Open \ {e} \subseteq Open' \/ stopped')
  <2>1. ASSUME NEW p PROVE /\ p \in Open' => p \in Open /\ p # e
                           /\ p \in Open /\ p # e => p \in Open' \/ stopped'
    <3>1. CASE p[1] # j
      BY <1>0, <1>8, <3>1
    <3>2. CASE p[1] = j
      <4>1. p \in Open <=> p \in (DOMAIN jobs) \X Nat /\ p[2] \in jobs[j].next .. Len(jobs[j].refs)
        BY <1>1, <1>3, <3>2 DEF Open, Alive
      <4>2. p \in Open' <=> p \in (DOMAIN jobs) \X Nat /\ job.state \in Alive
                            /\ p[2] \in job.next .. Len(job.refs)
        BY <1>8, <3>2
      <4>3. p \in (DOMAIN jobs) \X Nat => (p = e <=> p[2] = jobs[j].next)
        BY <1>0, <3>2
      <4>4. CASE job.state = "completing" /\ job.next = jobs[j].next + 1
        <5>1. \A i \in Nat : i \in job.next .. Len(job.refs) <=>
                               i \in jobs[j].next .. Len(jobs[j].refs) /\ i # jobs[j].next
          BY <1>2, <1>3, <1>7, <4>4
        <5> QED BY <4>1, <4>2, <4>3, <4>4, <5>1 DEF Alive
      <4>5. CASE job.state = "done" /\ jobs[j].next = Len(jobs[j].refs)
        <5>1. \A i \in Nat : i \in jobs[j].next .. Len(jobs[j].refs) => i = jobs[j].next
          BY <1>2, <1>3, <4>5
        <5> QED BY <4>1, <4>2, <4>3, <4>5, <5>1 DEF Alive
      <4>6. CASE job.state = "failing" /\ stopped'
        BY <4>2, <4>6 DEF Alive
      <4> QED BY <1>7, <4>4, <4>5, <4>6
    <3> QED BY <3>1, <3>2
  <2> QED BY <2>1
<1>10. (\A p : Owns(p)' <=> Owns(p)) /\ (\A p : AskedOf(p)' = AskedOf(p)) /\ \A s : Owned(s)' <=> Owned(s)
  <2>1. (\A p : Owns(p)' <=> Owns(p)) /\ (\A p : AskedOf(p)' = AskedOf(p))
    BY <1>1 DEF Owns, Key, AskedOf
  <2> QED BY <1>1, <2>1 DEF Owned
<1>11. \A s : InPlace(s)' => InPlace(s) /\ s # q /\ s \in Rows \X Nat
  <2> SUFFICES ASSUME NEW p \in Open' PROVE At(p)' = At(p) /\ p \in Open /\ At(p) # q /\ At(p) \in Rows \X Nat
    BY DEF InPlace
  <2>1. p \in Open /\ p # e /\ At(p)' = At(p)
    BY <1>8, <1>9
  <2> QED BY <1>4, <2>1, OpenTyped DEF QuestionInv, Distinct
<1>12. answers \in [Rows -> SUBSET Nat]
  BY DEF StreamInv, TypeOK
<1>13. \A p \in Rows : answers'[p] = IF p = r THEN answers[p] \cup {q[2]} ELSE answers[p]
  BY <1>1, <1>5, <1>12
<1>14. Distinct'
  <2>1. ASSUME NEW p \in Open', NEW s \in Open', At(p)' = At(s)' PROVE p = s
    BY <1>8, <1>9, <2>1 DEF QuestionInv, Distinct
  <2>2. ASSUME NEW s, InPlace(s)' PROVE s[2] \notin answers'[s[1]]
    <3>1. InPlace(s) /\ s # q /\ s \in Rows \X Nat
      BY <1>11, <2>2
    <3>2. s[2] \notin answers[s[1]]
      BY <3>1 DEF QuestionInv, Distinct
    <3>3. s[1] = r => s[2] # q[2]
      BY <1>5, <3>1
    <3> QED BY <1>13, <3>1, <3>2, <3>3
  <2> QED BY <2>1, <2>2 DEF Distinct
<1>15. OwnedInv'
  <2>1. ASSUME NEW p \in Rows, NEW n \in answers'[p] PROVE Owned(<<p, n>>)'
    <3>1. CASE n \in answers[p]
      BY <1>10, <3>1 DEF QuestionInv, OwnedInv
    <3>2. CASE p = r /\ n = q[2]
      BY <1>5, <1>10, <3>2
    <3> QED BY <1>13, <2>1, <3>1, <3>2
  <2>2. ASSUME NEW s, InPlace(s)' PROVE Owned(s)'
    BY <1>10, <1>11, <2>2 DEF QuestionInv, OwnedInv
  <2> QED BY <2>1, <2>2 DEF OwnedInv, Rows
<1>16. NothingLost'
  <2> SUFFICES ASSUME ~stopped'
               PROVE  /\ \A k \in DOMAIN jobs' : jobs'[k].state # "failing"
                      /\ \A p \in 1 .. offset : Owns(p) => \A n \in AskedOf(p) :
                           n \in answers'[p] \/ InPlace(<<p, n>>)'
    BY <1>1, <1>10 DEF NothingLost
  <2>1. ~stopped
    BY <1>7
  <2>2. \A k \in DOMAIN jobs' : jobs'[k].state # "failing"
    BY <1>7, <1>8, <2>1 DEF QuestionInv, NothingLost
  <2>3. ASSUME NEW p \in 1 .. offset, Owns(p), NEW n \in AskedOf(p)
        PROVE  n \in answers'[p] \/ InPlace(<<p, n>>)'
    <3>0. p \in Rows
      BY Lengths, Constants
    <3>1. n \in answers[p] \/ InPlace(<<p, n>>)
      BY <2>1, <2>3 DEF QuestionInv, NothingLost
    <3>2. CASE n \in answers[p]
      BY <1>13, <3>0, <3>2
    <3>3. ASSUME NEW s \in Open, At(s) = <<p, n>> PROVE n \in answers'[p] \/ InPlace(<<p, n>>)'
      <4>1. CASE s = e
        <5>1. <<p, n>> = <<r, q[2]>>
          BY <1>4, <1>5, <3>3, <4>1
        <5>2. p = r /\ n = q[2]
          BY <5>1
        <5> QED BY <1>13, <3>0, <5>2
      <4>2. CASE s # e
        <5>1. s \in Open' /\ At(s)' = <<p, n>>
          BY <1>8, <1>9, <3>3, <4>2
        <5> QED BY <5>1 DEF InPlace
      <4> QED BY <4>1, <4>2
    <3> QED BY <3>1, <3>2, <3>3 DEF InPlace
  <2> QED BY <2>2, <2>3
<1>17. r \in Len(out) + 1 .. offset
  <2>1. r \in 1 .. offset /\ Owns(r) /\ Key(r) # Null /\ flight[r] = r /\ q[2] \in 1 .. Questions[Key(r)]
    <3>1. r \in 1 .. offset /\ Owns(r) /\ Key(r) # Null /\ flight[r] = r
      BY <1>0, <1>5 DEF Owned, Owns
    <3>2. q[2] \in 1 .. Questions[Key(r)]
      BY <1>0, <1>1, <1>3 DEF StreamInv, JobsInv, Asked
    <3> QED BY <3>1, <3>2
  <2>2. r \notin ready
    BY <1>5, <2>1 DEF StreamInv, AnswerInv
  <2>3. r \notin 1 .. Len(out)
    BY <2>1, <2>2 DEF QuestionInv, LeftInv
  <2> QED BY <2>1, <2>3, Lengths
<1>18. LeftInv'
  <2>1. \A p \in Rows : p > offset => rowBytes'[p] = rowBytes[p]
    <3>1. rowBytes \in [Rows -> Nat] /\ \A p \in Rows : p > offset => p # r
      BY <1>17, Lengths, Constants DEF StreamInv, TypeOK
    <3> QED BY <1>1, <3>1
  <2>2. ready \subseteq ready'
    BY <1>1
  <2> QED BY <1>1, <2>1, <2>2 DEF QuestionInv, LeftInv, Key, Rows
<1>19. SizesInv'
  <2>1. \A k \in DOMAIN jobs' : Len(jobs'[k].refs) <= BatchSize /\ jobs'[k].next >= 1
    <3>1. \A k \in DOMAIN jobs : Len(jobs[k].refs) <= BatchSize /\ jobs[k].next >= 1
      BY DEF QuestionInv, SizesInv
    <3> QED BY <1>7, <1>8, <3>1
  <2> QED BY <1>1, <1>8, <1>10, <2>1 DEF QuestionInv, SizesInv, Key, Owns
<1>20. QuestionInv'
  BY <1>14, <1>15, <1>16, <1>18, <1>19 DEF QuestionInv
<1> QED BY <1>1, <1>17, <1>20

(* A stream that is closing has stopped. *)
Stopping == phase \in {"closing", "closed"} => stopped

(* Close stops the stream before anything else. *)
LEMMA StoppingStep == ASSUME StreamInv, Stopping, [Next]_streamVars PROVE Stopping'
<1>1. CASE UNCHANGED streamVars
  BY <1>1 DEF Stopping, streamVars, flags
<1>2. CASE \E j \in DOMAIN jobs : Job(j)
  <2>1. UNCHANGED phase /\ (stopped' = stopped \/ stopped')
    BY <1>2 DEF Job, JobStart, JobFails, JobError, JobAnswered, JobAnswer, flags
  <2> QED BY <2>1 DEF Stopping
<1>3. CASE Close \/ Closed
  BY <1>3 DEF Stopping, Close, Closed, flags
<1>4. CASE Thread /\ ~Closed
  <2>1. UNCHANGED stopped
    BY <1>4 DEF Thread, Add, Ask, AskedAll, Turn, Flush, EmitRow, EmitPoll, EmitEnd, Resume, flags, streamVars
  <2>2. phase' \in {"closing", "closed"} => phase' = phase
    BY <1>4 DEF Thread, Add, Ask, AskedAll, Turn, Flush, EmitRow, EmitPoll, EmitEnd, Resume, streamVars
  <2> QED BY <2>1, <2>2 DEF Stopping
<1> QED BY <1>1, <1>2, <1>3, <1>4 DEF Next, Thread, Over

(* A pack becomes a job: its questions go with it. *)
LEMMA FlushQuestions ==
  ASSUME StreamInv, StreamInv', QuestionInv, Flush \/ EmitEnd
  PROVE  QuestionInv'
<1>1. /\ UNCHANGED <<offset, rows, asked, flight, answers, rowBytes, ready, out, stopped>>
      /\ phase' \in {"ask", "flushask"} <=> phase \in {"ask", "flushask"}
  BY DEF Flush, EmitEnd, inVars, ansVars, flags, outVars
<1>2. (\A p : Owns(p)' <=> Owns(p)) /\ \A p : AskedOf(p)' = AskedOf(p)
  BY <1>1 DEF Owns, Key, AskedOf
<1>3. \/ UNCHANGED <<pack, jobs>>
      \/ jobs' = Reaped /\ pack' = pack
      \/ /\ jobs' = Append(Reaped, [refs |-> pack, state |-> "queued", next |-> 1, model |-> Null])
         /\ pack' = <<>> /\ Window
  BY DEF Flush, EmitEnd, jobVars, EmptyPack
<1>4. Distinct' /\ OwnedInv' /\ NothingLost'
  <2>1. CASE UNCHANGED <<pack, jobs>>
    <3>1. stopped' \/ ~stopped
      BY <1>1 DEF StreamInv, TypeOK
    <3> QED BY <1>1, <1>2, <2>1, <3>1, SameQuestions DEF QuestionInv
  <2>2. CASE ~ UNCHANGED <<pack, jobs>>
    BY <1>1, <1>2, <1>3, <2>2, ReapQuestions
  <2> QED BY <2>1, <2>2
<1>5. LeftInv'
  BY <1>1 DEF QuestionInv, LeftInv, Key, Rows
<1>6. /\ Len(pack') <= BatchSize /\ Len(jobs') <= 2 * Concurrency
      /\ \A k \in DOMAIN jobs' : Len(jobs'[k].refs) <= BatchSize /\ jobs'[k].next >= 1
  <2>1. /\ Len(pack) <= BatchSize /\ Len(jobs) <= 2 * Concurrency
        /\ \A k \in DOMAIN jobs : Len(jobs[k].refs) <= BatchSize /\ jobs[k].next >= 1
    BY DEF QuestionInv, SizesInv
  <2>2. /\ Len(Reaped) \in Nat /\ Len(Reaped) <= Len(jobs)
        /\ DOMAIN Reaped = 1 .. Len(Reaped)
        /\ \A k \in DOMAIN Reaped : Len(Reaped[k].refs) <= BatchSize /\ Reaped[k].next >= 1
    <3>1. Reaped \in Seq(Job1) /\ \A i \in DOMAIN Reaped : \E k \in DOMAIN jobs : Reaped[i] = jobs[k]
      BY ReapedJobs DEF StreamInv
    <3>2. Len(Reaped) <= Len(jobs)
      <4>1. PICK c \in 0 .. Len(jobs) : Len(Reaped) = Len(jobs) - c
        BY ReapedShift DEF StreamInv
      <4>2. Len(jobs) \in Nat
        BY Lengths
      <4> QED BY <4>1, <4>2
    <3> QED BY <2>1, <3>1, <3>2
  <2>3. BatchSize \in Nat /\ Concurrency \in Nat
    BY StreamAssumption
  <2>4. CASE UNCHANGED <<pack, jobs>>
    BY <2>1, <2>4
  <2>5. CASE jobs' = Reaped /\ pack' = pack
    BY <2>1, <2>2, <2>3, <2>5, Lengths
  <2>6. CASE /\ jobs' = Append(Reaped, [refs |-> pack, state |-> "queued", next |-> 1, model |-> Null])
             /\ pack' = <<>> /\ Window
    <3> DEFINE job == [refs |-> pack, state |-> "queued", next |-> 1, model |-> Null]
    <3>1. job.refs = pack /\ job.next = 1 /\ job \in Job1 /\ Reaped \in Seq(Job1) /\ jobs' = Append(Reaped, job)
      BY <2>6, ReapedJobs DEF Job1, JobStates, StreamInv, TypeOK
    <3> HIDE DEF job
    <3>2. /\ Len(jobs') = Len(Reaped) + 1 /\ DOMAIN jobs' = 1 .. Len(Reaped) + 1 /\ jobs'[Len(Reaped) + 1] = job
          /\ \A k \in DOMAIN Reaped : jobs'[k] = Reaped[k]
      BY <3>1
    <3>3. Len(pack') = 0 /\ Len(Reaped) < 2 * Concurrency
      BY <2>6 DEF Window
    <3>4. \A k \in DOMAIN jobs' : k \in DOMAIN Reaped \/ k = Len(Reaped) + 1
      BY <2>2, <3>2
    <3>5. \A k \in DOMAIN jobs' : Len(jobs'[k].refs) <= BatchSize /\ jobs'[k].next >= 1
      BY <2>1, <2>2, <3>1, <3>2, <3>4
    <3> QED BY <2>2, <2>3, <3>2, <3>3, <3>5
  <2> QED BY <1>3, <2>4, <2>5, <2>6
<1>7. SizesInv'
  BY <1>1, <1>2, <1>6 DEF QuestionInv, SizesInv, Key, Owns
<1> QED BY <1>4, <1>5, <1>7 DEF QuestionInv

(* Closing drops the rows; the stream has stopped. *)
LEMMA ClosedQuestions ==
  ASSUME StreamInv, StreamInv', QuestionInv, Stopping, Closed
  PROVE  QuestionInv'
<1>1. /\ UNCHANGED <<offset, asked, flight, jobs, answers, rowBytes, ready, out, stopped>>
      /\ phase = "closing" /\ phase' = "closed" /\ pack' = <<>> /\ stopped
  BY DEF Closed, ansVars, flags, outVars, Stopping
<1>2. (\A p : Owns(p)' <=> Owns(p)) /\ \A p : AskedOf(p)' = AskedOf(p)
  BY <1>1 DEF Owns, Key, AskedOf
<1>3. \A p \in Open' : p \in Open /\ At(p)' = At(p)
  BY <1>1, Lengths DEF Open, At, Alive
<1>4. Distinct' /\ OwnedInv'
  <2> DEFINE g == [p \in Open' |-> p]
  <2>1. g \in [Open' -> Open] /\ (\A p \in Open' : At(p)' = At(g[p])) /\ \A p, s \in Open' : g[p] = g[s] => p = s
    BY <1>3
  <2>2. \A q : Owned(q) => Owned(q)'
    BY <1>1, <1>2 DEF Owned
  <2> HIDE DEF g
  <2> QED BY <1>1, <2>1, <2>2, Moved DEF QuestionInv
<1>5. NothingLost'
  BY <1>1 DEF NothingLost
<1>6. LeftInv'
  BY <1>1 DEF QuestionInv, LeftInv, Key, Rows
<1>7. SizesInv'
  <2>1. Len(pack') <= BatchSize
    BY <1>1, StreamAssumption
  <2> QED BY <1>1, <2>1 DEF QuestionInv, SizesInv
<1> QED BY <1>4, <1>5, <1>6, <1>7 DEF QuestionInv

(* No question has been asked at first. *)
LEMMA QuestionInit == Init => QuestionInv /\ Stopping
<1> SUFFICES ASSUME Init PROVE QuestionInv /\ Stopping
  OBVIOUS
<1>1. Open = {}
  BY DEF Init, Open
<1>2. Distinct /\ OwnedInv
  BY <1>1 DEF Init, Distinct, OwnedInv, InPlace
<1>3. NothingLost /\ Stopping /\ LeftInv
  BY Constants DEF Init, NothingLost, Stopping, LeftInv
<1>4. SizesInv
  BY StreamAssumption DEF Init, SizesInv
<1> QED BY <1>2, <1>3, <1>4 DEF QuestionInv

(* Every step keeps the questions. *)
LEMMA QuestionStep ==
  ASSUME StreamInv, StreamInv', QuestionInv, Stopping, [Next]_streamVars
  PROVE  QuestionInv'
<1>1. CASE UNCHANGED streamVars
  <2>1. UNCHANGED <<phase, offset, rows, asked, flight, pack, jobs, answers, rowBytes, ready, stopped, out>>
    BY <1>1 DEF streamVars, inVars, jobVars, ansVars, flags, outVars
  <2>2. (\A p : Owns(p)' <=> Owns(p)) /\ \A p : AskedOf(p)' = AskedOf(p)
    BY <2>1 DEF Owns, Key, AskedOf
  <2>3. Distinct' /\ OwnedInv' /\ NothingLost'
    <3>1. stopped' \/ ~stopped
      BY <2>1 DEF StreamInv, TypeOK
    <3> QED BY <2>1, <2>2, <3>1, SameQuestions DEF QuestionInv
  <2>4. LeftInv' /\ SizesInv'
    BY <2>1 DEF QuestionInv, LeftInv, SizesInv, Owns, Key, Rows
  <2> QED BY <2>3, <2>4 DEF QuestionInv
<1>2. CASE \E j \in DOMAIN jobs : Job(j)
  BY <1>2, JobQuestions, AnswerQuestions DEF Job
<1>3. CASE Thread \/ Close
  BY <1>1, <1>3, AddQuestions, AskQuestions, TurnQuestions, FlushQuestions, ClosedQuestions DEF Thread, EmitPoll
<1> QED BY <1>1, <1>2, <1>3 DEF Next, Over

-----------------------------------------------------------------------------

-----------------------------------------------------------------------------
(* Budgets. *)

(* What each row in the stream retains, and what is buffered for it.       *)
RetainedBy == [r \in InRows |-> KeyBytes[Key(r)]]
(* The bytes of the answers of each row in the stream. *)
BufferedBy == [r \in InRows |-> rowBytes[r]]

(* The two accounts are the sums over the rows, and within their bounds.   *)
BudgetInv ==
  phase # "closed" =>
    /\ retained = SumFunction(RetainedBy) /\ retained <= MaxRetained
    /\ resultBytes = SumFunction(BufferedBy) /\ resultBytes <= MaxResult
    /\ Len(rows) <= MaxRows

(* The rows a stream holds are those between what it returned and what it took. *)
HeldOK ==
  /\ InRows = Len(out) + 1 .. offset /\ IsFiniteSet(InRows)
  /\ RetainedBy \in [InRows -> Nat] /\ BufferedBy \in [InRows -> Nat]
  /\ SumFunction(RetainedBy) \in Nat /\ SumFunction(BufferedBy) \in Nat
  /\ InRows \subseteq Rows

(* It follows from the order of rows. *)
LEMMA HeldRows == StreamInv /\ phase # "closed" => HeldOK
<1> SUFFICES ASSUME StreamInv, phase # "closed" PROVE HeldOK
  OBVIOUS
<1>1. /\ offset = Len(out) + Len(rows) /\ \A i \in DOMAIN rows : rows[i] = Len(out) + i
  BY DEF StreamInv, OrderInv
<1>2. Len(out) \in Nat /\ Len(rows) \in Nat /\ DOMAIN rows = 1 .. Len(rows) /\ offset \in 0 .. Len(Input)
  BY Lengths
<1>3. InRows = Len(out) + 1 .. offset
  <2>1. ASSUME NEW x \in InRows PROVE x \in Len(out) + 1 .. offset
    <3>1. PICK i \in DOMAIN rows : x = rows[i]
      BY <2>1 DEF InRows, ToSet
    <3> QED BY <1>1, <1>2, <3>1
  <2>2. ASSUME NEW x \in Len(out) + 1 .. offset PROVE x \in InRows
    <3>1. x - Len(out) \in DOMAIN rows /\ rows[x - Len(out)] = x
      BY <1>1, <1>2, <2>2
    <3> QED BY <3>1 DEF InRows, ToSet
  <2> QED BY <2>1, <2>2
<1>4. IsFiniteSet(InRows)
  BY <1>2, <1>3, FS_Interval
<1>5. \A r \in InRows : r \in Rows
  BY <1>2, <1>3, Constants
<1>6. RetainedBy \in [InRows -> Nat] /\ BufferedBy \in [InRows -> Nat]
  <2>1. rowBytes \in [Rows -> Nat]
    BY DEF StreamInv, TypeOK
  <2>2. \A r \in InRows : KeyBytes[Key(r)] \in Nat /\ rowBytes[r] \in Nat
    BY <1>5, <2>1, Constants
  <2> QED BY <2>2 DEF RetainedBy, BufferedBy
<1>7. SumFunction(RetainedBy) \in Nat /\ SumFunction(BufferedBy) \in Nat
  BY <1>4, <1>6, SumOf
<1> QED BY <1>3, <1>4, <1>5, <1>6, <1>7 DEF HeldOK

(* The same, of the next state. *)
LEMMA HeldRowsNext == (StreamInv /\ phase # "closed" => HeldOK)'
BY HeldRows, PTL

(* A number in the range of size_t does not wrap. *)
LEMMA NoWrap ==
  ASSUME NEW n \in Nat, n <= SizeMax
  PROVE  SizeT(n) = n
<1> DEFINE m == SizeMax + 1
<1>1. m \in Nat /\ m > 0 /\ n < m
  BY Constants
<1> HIDE DEF m
<1>2. n % m = n
  BY <1>1
<1> QED BY <1>2 DEF SizeT, m

(* A step that touches neither rows nor accounts. *)
LEMMA SameRows ==
  ASSUME BudgetInv, UNCHANGED <<rows, retained, resultBytes, rowBytes>>, phase # "closed"
  PROVE  BudgetInv'
<1>1. RetainedBy' = RetainedBy /\ BufferedBy' = BufferedBy
  BY DEF RetainedBy, BufferedBy, InRows, ToSet, Key
<1> QED BY <1>1 DEF BudgetInv

(* A row is taken and its key retained (jev_stream.hpp:171-175).           *)
LEMMA AddBudget ==
  ASSUME StreamInv, StreamInv', QuestionInv, BudgetInv, Add
  PROVE  BudgetInv'
<1>0. PICK r : r = offset + 1
  OBVIOUS
<1>1. /\ UNCHANGED <<out, rowBytes, resultBytes>> /\ phase = "input" /\ phase' \in {"input", "ask"}
      /\ offset' = r /\ retained' = retained + KeyBytes[Key(r)] /\ Room(r) /\ Len(rows) < MaxRows
      /\ rows' = Append(rows, r)
  BY <1>0 DEF Add, ansVars, outVars
<1>2. r \in Rows /\ KeyBytes[Key(r)] \in 0 .. MaxRetained /\ MaxRetained \in Nat /\ MaxRows \in Nat
  <2>1. r \in Rows
    <3>1. offset' \in 0 .. Len(Input) /\ offset \in Nat
      BY Lengths DEF StreamInv, TypeOK
    <3> QED BY <1>0, <1>1, <3>1, Constants
  <2>2. Key(r) \in Keys \cup {Null}
    BY <2>1, Constants
  <2> QED BY <2>1, <2>2, StreamAssumption
<1>3. phase # "closed" /\ phase' # "closed"
  BY <1>1
<1>4. InRows' = InRows \cup {r} /\ r \notin InRows
  <2>1. InRows = Len(out) + 1 .. offset
    BY <1>3, HeldRows DEF HeldOK
  <2>2. InRows' = Len(out) + 1 .. r
    <3>1. (InRows = Len(out) + 1 .. offset)'
      BY <1>3, HeldRowsNext DEF HeldOK
    <3> QED BY <1>1, <3>1
  <2>3. offset = Len(out) + Len(rows) /\ Len(out) \in Nat /\ Len(rows) \in Nat
    BY <1>3, Lengths DEF StreamInv, OrderInv
  <2> QED BY <1>0, <2>1, <2>2, <2>3
<1>5. /\ IsFiniteSet(InRows) /\ RetainedBy \in [InRows -> Nat] /\ BufferedBy \in [InRows -> Nat]
      /\ SumFunction(RetainedBy) \in Nat /\ SumFunction(BufferedBy) \in Nat
  BY <1>3, HeldRows DEF HeldOK
<1>6. RetainedBy' \in [InRows' -> Nat] /\ BufferedBy' \in [InRows' -> Nat]
  BY <1>3, HeldRowsNext DEF HeldOK
<1>7. /\ \A x \in InRows : RetainedBy'[x] = RetainedBy[x] /\ BufferedBy'[x] = BufferedBy[x]
      /\ RetainedBy'[r] = KeyBytes[Key(r)] /\ BufferedBy'[r] = 0
  <2>1. rowBytes[r] = 0
    BY <1>0, <1>1, <1>2, Lengths DEF QuestionInv, LeftInv
  <2> QED BY <1>1, <1>4, <2>1 DEF RetainedBy, BufferedBy, Key
<1>8. SumFunction(RetainedBy') = SumFunction(RetainedBy) + KeyBytes[Key(r)]
  BY <1>4, <1>5, <1>6, <1>7, SumGrow
<1>9. SumFunction(BufferedBy') = SumFunction(BufferedBy)
  <2>1. SumFunction(BufferedBy') = SumFunction(BufferedBy) + BufferedBy'[r]
    BY <1>4, <1>5, <1>6, <1>7, SumGrow
  <2> QED BY <1>5, <1>7, <2>1
<1>10. retained' <= MaxRetained
  <2>1. CASE rows = <<>>
    <3>1. InRows = {}
      BY <2>1 DEF InRows, ToSet
    <3>2. SumFunction(RetainedBy) = 0
      <4>1. RetainedBy \in [InRows -> {0}]
        BY <1>5, <3>1
      <4> QED BY <1>5, <4>1, SumZero
    <3> QED BY <1>1, <1>2, <1>3, <3>2 DEF BudgetInv
  <2>2. CASE rows # <<>>
    BY <1>1, <2>2 DEF Room
  <2> QED BY <2>1, <2>2
<1>11. Len(rows') <= MaxRows
  <2>1. Len(rows') = Len(rows) + 1 /\ Len(rows) \in Nat
    <3>1. rows \in Seq(Rows)
      BY DEF StreamInv, TypeOK
    <3> QED BY <1>1, <1>2, <3>1
  <2> QED BY <1>1, <1>2, <2>1
<1> QED BY <1>1, <1>3, <1>8, <1>9, <1>10, <1>11 DEF BudgetInv

(* The first row is returned and released (jev_stream.hpp:250-254): what   *)
(* is taken off the accounts was put on them.                              *)
LEMMA EmitBudget ==
  ASSUME StreamInv, StreamInv', BudgetInv, EmitRow
  PROVE  BudgetInv'
<1>0. PICK r : r = Head(rows)
  OBVIOUS
<1>1. /\ UNCHANGED <<offset, rowBytes, phase>> /\ phase # "closed" /\ rows # <<>>
      /\ retained' = retained - KeyBytes[Key(r)] /\ resultBytes' = SizeT(resultBytes - rowBytes[r])
      /\ rows' = Tail(rows) /\ out' = Append(out, Result(r))
  BY <1>0 DEF EmitRow
<1>2. r = Len(out) + 1 /\ r <= offset /\ Len(out) \in Nat /\ offset \in Nat
      /\ Len(rows') \in Nat /\ Len(rows') = Len(rows) - 1
  <2>1. rows \in Seq(Rows)
    BY DEF StreamInv, TypeOK
  <2>2. r = rows[1] /\ 1 \in DOMAIN rows /\ Len(rows) >= 1 /\ Len(rows') = Len(rows) - 1
    BY <1>0, <1>1, <2>1
  <2>3. r = Len(out) + 1 /\ offset = Len(out) + Len(rows)
    BY <1>1, <2>2 DEF StreamInv, OrderInv
  <2> QED BY <2>2, <2>3, Lengths
<1>3. Len(out') = Len(out) + 1
  <2> DEFINE S == {Null} \cup [key : Keys, answers : SUBSET Nat, model : Models \cup {Null}]
  <2>1. out \in Seq(S)
    BY DEF StreamInv, TypeOK
  <2> HIDE DEF S
  <2> QED BY <1>1, <2>1
<1>4. InRows = InRows' \cup {r} /\ r \notin InRows'
  <2>1. InRows = Len(out) + 1 .. offset
    BY <1>1, HeldRows DEF HeldOK
  <2>2. InRows' = Len(out') + 1 .. offset
    <3>1. (InRows = Len(out) + 1 .. offset)'
      BY <1>1, HeldRowsNext DEF HeldOK
    <3> QED BY <1>1, <3>1
  <2> QED BY <1>2, <1>3, <2>1, <2>2
<1>5. /\ RetainedBy \in [InRows -> Nat] /\ BufferedBy \in [InRows -> Nat] /\ r \in Rows
      /\ SumFunction(RetainedBy) \in Nat /\ SumFunction(BufferedBy) \in Nat
  BY <1>1, <1>4, HeldRows DEF HeldOK
<1>6. /\ IsFiniteSet(InRows') /\ RetainedBy' \in [InRows' -> Nat] /\ BufferedBy' \in [InRows' -> Nat]
      /\ SumFunction(RetainedBy') \in Nat /\ SumFunction(BufferedBy') \in Nat
  BY <1>1, HeldRowsNext DEF HeldOK
<1>7. /\ \A x \in InRows' : RetainedBy[x] = RetainedBy'[x] /\ BufferedBy[x] = BufferedBy'[x]
      /\ RetainedBy[r] = KeyBytes[Key(r)] /\ BufferedBy[r] = rowBytes[r]
  BY <1>1, <1>4 DEF RetainedBy, BufferedBy, Key
<1>8. SumFunction(RetainedBy) = SumFunction(RetainedBy') + KeyBytes[Key(r)]
  BY <1>4, <1>5, <1>6, <1>7, SumGrow
<1>9. SumFunction(BufferedBy) = SumFunction(BufferedBy') + rowBytes[r]
  BY <1>4, <1>5, <1>6, <1>7, SumGrow
<1>10. /\ retained = SumFunction(RetainedBy) /\ retained <= MaxRetained
       /\ resultBytes = SumFunction(BufferedBy) /\ resultBytes <= MaxResult /\ Len(rows) <= MaxRows
  BY <1>1 DEF BudgetInv
<1>11. KeyBytes[Key(r)] \in Nat /\ rowBytes[r] \in Nat /\ MaxRetained \in Nat /\ MaxResult \in Nat
       /\ MaxRows \in Nat /\ MaxResult <= SizeMax /\ SizeMax \in Nat
  BY <1>5, Constants, StreamAssumption DEF StreamInv, TypeOK
<1>12. retained' = SumFunction(RetainedBy') /\ retained' <= MaxRetained
  BY <1>1, <1>6, <1>8, <1>10, <1>11
<1>13. resultBytes - rowBytes[r] = SumFunction(BufferedBy') /\ resultBytes - rowBytes[r] <= MaxResult
  BY <1>6, <1>9, <1>10, <1>11
<1>14. resultBytes' = SumFunction(BufferedBy') /\ resultBytes' <= MaxResult
  BY <1>1, <1>6, <1>11, <1>13, NoWrap
<1>15. Len(rows') <= MaxRows
  BY <1>2, <1>10, <1>11, Lengths
<1> QED BY <1>12, <1>14, <1>15 DEF BudgetInv

(* An answer is buffered (jev_stream.hpp:86-90). *)
LEMMA AnswerBudget ==
  ASSUME StreamInv, StreamInv', QuestionInv, BudgetInv,
         NEW j \in DOMAIN jobs, NEW bytes \in AnswerBytes, JobAnswer(j, bytes)
  PROVE  BudgetInv'
<1>1. PICK r \in Len(out) + 1 .. offset : rowBytes' = [rowBytes EXCEPT ![r] = @ + bytes]
  BY AnswerQuestions
<1>2. /\ UNCHANGED <<phase, offset, rows, retained, out>> /\ resultBytes' = SizeT(resultBytes + bytes)
      /\ bytes <= SizeT(MaxResult - resultBytes)
  BY DEF JobAnswer, inVars, outVars
<1> SUFFICES ASSUME phase # "closed" PROVE BudgetInv'
  BY <1>2 DEF BudgetInv
<1>3. InRows' = InRows /\ r \in InRows /\ IsFiniteSet(InRows) /\ RetainedBy' = RetainedBy /\ InRows \subseteq Rows
  BY <1>1, <1>2, HeldRows DEF HeldOK, InRows, ToSet, RetainedBy, Key
<1>4. BufferedBy \in [InRows -> Nat] /\ BufferedBy' \in [InRows -> Nat]
  BY <1>2, <1>3, HeldRows, HeldRowsNext DEF HeldOK
<1>5. /\ \A x \in InRows \ {r} : BufferedBy'[x] = BufferedBy[x]
      /\ BufferedBy'[r] = BufferedBy[r] + bytes
  <2>1. rowBytes \in [Rows -> Nat]
    BY DEF StreamInv, TypeOK
  <2> QED BY <1>1, <1>3, <2>1 DEF BufferedBy
<1>6. /\ SumFunction(BufferedBy') = SumFunction(BufferedBy) - BufferedBy[r] + BufferedBy'[r]
      /\ SumFunction(BufferedBy) \in Nat
  BY <1>3, <1>4, <1>5, SumStep
<1>7. bytes \in Nat /\ MaxResult \in Nat /\ SizeMax \in Nat /\ MaxResult <= SizeMax
      /\ BufferedBy[r] \in Nat
  BY <1>3, <1>4, Constants, StreamAssumption
<1>8. SumFunction(BufferedBy') = SumFunction(BufferedBy) + bytes
  BY <1>5, <1>6, <1>7
<1>9. resultBytes = SumFunction(BufferedBy) /\ resultBytes <= MaxResult
  BY DEF BudgetInv
<1>10. SizeT(MaxResult - resultBytes) = MaxResult - resultBytes
  BY <1>6, <1>7, <1>9, NoWrap
<1>11. resultBytes + bytes \in 0 .. MaxResult
  BY <1>2, <1>6, <1>7, <1>9, <1>10
<1>12. resultBytes' = resultBytes + bytes
  BY <1>2, <1>7, <1>11, NoWrap
<1> QED BY <1>2, <1>3, <1>8, <1>9, <1>11, <1>12 DEF BudgetInv

(* Every step keeps the accounts. *)
LEMMA BudgetStep ==
  ASSUME StreamInv, StreamInv', QuestionInv, BudgetInv, [Next]_streamVars
  PROVE  BudgetInv'
<1>1. CASE phase' = "closed"
  BY <1>1 DEF BudgetInv
<1>2. CASE phase' # "closed"
  <2>1. CASE phase = "closed"
    <3>1. UNCHANGED phase
      <4>1. CASE Thread \/ Close
        BY <2>1, <4>1 DEF Thread, Close, Throws, Add, Ask, AskedAll, Turn, Flush, EmitRow, EmitPoll, EmitEnd, Resume, Closed
      <4>2. CASE \E j \in DOMAIN jobs : Job(j)
        BY <4>2 DEF Job, JobStart, JobFails, JobError, JobAnswered, JobAnswer
      <4>3. CASE UNCHANGED streamVars
        BY <4>3 DEF streamVars
      <4> QED BY <4>1, <4>2, <4>3 DEF Next, Over
    <3> QED BY <1>2, <2>1, <3>1
  <2>2. CASE phase # "closed"
    <3>1. CASE Add \/ EmitRow
      BY <3>1, AddBudget, EmitBudget
    <3>2. CASE (Thread \/ Close) /\ ~Add /\ ~EmitRow
      <4>1. UNCHANGED <<rows, retained, resultBytes, rowBytes>>
        BY <1>2, <3>2 DEF Thread, Close, Ask, AskedAll, Turn, Flush, EmitPoll, EmitEnd, Resume, Closed,
                          streamVars, inVars, ansVars
      <4> QED BY <2>2, <4>1, SameRows
    <3>3. ASSUME NEW j \in DOMAIN jobs, Job(j) PROVE BudgetInv'
      <4>1. CASE \E bytes \in AnswerBytes : JobAnswer(j, bytes)
        BY <4>1, AnswerBudget
      <4>2. CASE ~ \E bytes \in AnswerBytes : JobAnswer(j, bytes)
        <5>1. UNCHANGED <<rows, retained, resultBytes, rowBytes>>
          BY <3>3, <4>2 DEF Job, JobStart, JobFails, JobError, JobAnswered, inVars, ansVars
        <5> QED BY <2>2, <5>1, SameRows
      <4> QED BY <4>1, <4>2
    <3>4. CASE UNCHANGED streamVars
      <4>1. UNCHANGED <<rows, retained, resultBytes, rowBytes>>
        BY <3>4 DEF streamVars, inVars, ansVars
      <4> QED BY <2>2, <4>1, SameRows
    <3> QED BY <3>1, <3>2, <3>3, <3>4 DEF Next, Over
  <2> QED BY <2>1, <2>2
<1> QED BY <1>1, <1>2

(* They are zero at first. *)
LEMMA BudgetInit == Init => BudgetInv
<1> SUFFICES ASSUME Init PROVE BudgetInv
  OBVIOUS
<1>1. InRows = {}
  BY DEF Init, InRows, ToSet
<1>2. RetainedBy \in [{} -> {0}] /\ BufferedBy \in [{} -> {0}]
  BY <1>1 DEF RetainedBy, BufferedBy
<1>3. SumFunction(RetainedBy) = 0 /\ SumFunction(BufferedBy) = 0
  <2>1. IsFiniteSet({})
    BY FS_EmptySet
  <2> QED BY <1>2, <2>1, SumZero
<1>4. retained = 0 /\ resultBytes = 0 /\ rows = <<>> /\ MaxRetained \in Nat /\ MaxResult \in Nat /\ MaxRows \in Nat
  BY StreamAssumption DEF Init
<1> QED BY <1>3, <1>4 DEF BudgetInv

-----------------------------------------------------------------------------
(* Counting the places a question is in. *)

(* The rest of a sequence from one of its places on. *)
LEMMA MidOf ==
  ASSUME NEW S, NEW s \in Seq(S), NEW k \in DOMAIN s
  PROVE  /\ DOMAIN SubSeq(s, k, Len(s)) = 1 .. Len(s) - k + 1
         /\ \A i \in 1 .. Len(s) - k + 1 : SubSeq(s, k, Len(s))[i] = s[k + i - 1]
<1>1. Len(s) \in Nat /\ DOMAIN s = 1 .. Len(s) /\ k \in 1 .. Len(s)
  OBVIOUS
<1>2. k \in 1 .. Len(s) + 1 /\ Len(s) \in k - 1 .. Len(s)
  BY <1>1
<1>3. Len(SubSeq(s, k, Len(s))) = Len(s) - k + 1 /\ SubSeq(s, k, Len(s)) \in Seq(S)
  BY <1>1, <1>2
<1> QED BY <1>1, <1>2, <1>3

(* What a job has left to apply. *)
LEMMA ToApplyIs ==
  ASSUME StreamInv, NEW j \in DOMAIN jobs, jobs[j].state # "failing"
  PROVE  /\ jobs[j].state \in Alive => jobs[j].next \in 1 .. Len(jobs[j].refs)
         /\ DOMAIN ToApply[j] = IF jobs[j].state \in Alive THEN 1 .. Len(jobs[j].refs) - jobs[j].next + 1 ELSE {}
         /\ \A i \in DOMAIN ToApply[j] : ToApply[j][i] = jobs[j].refs[jobs[j].next + i - 1]
<1>1. jobs[j] \in Job1 /\ DOMAIN jobs[j].refs = 1 .. Len(jobs[j].refs) /\ Len(jobs[j].refs) \in Nat
  BY Lengths
<1>2. CASE jobs[j].state \in Alive
  <2> DEFINE S == Rows \X Nat
  <2>1. jobs[j].next \in DOMAIN jobs[j].refs
    <3>1. jobs[j].state # "completing" => jobs[j].next = 1 /\ jobs[j].refs # <<>>
      BY <1>2 DEF Alive, StreamInv, JobsInv
    <3>2. jobs[j].refs \in Seq(S)
      BY <1>1 DEF Job1
    <3> HIDE DEF S
    <3>3. jobs[j].refs # <<>> => 1 \in DOMAIN jobs[j].refs
      BY <3>2
    <3> QED BY <3>1, <3>3 DEF StreamInv, JobsInv
  <2>2. ToApply[j] = SubSeq(jobs[j].refs, jobs[j].next, Len(jobs[j].refs))
    BY <1>2 DEF ToApply, Alive
  <2>3. jobs[j].refs \in Seq(S)
    BY <1>1 DEF Job1
  <2> HIDE DEF S
  <2>4. /\ DOMAIN ToApply[j] = 1 .. Len(jobs[j].refs) - jobs[j].next + 1
        /\ \A i \in 1 .. Len(jobs[j].refs) - jobs[j].next + 1 : ToApply[j][i] = jobs[j].refs[jobs[j].next + i - 1]
    BY <2>1, <2>2, <2>3, MidOf
  <2> QED BY <1>1, <1>2, <2>1, <2>4
<1>3. CASE jobs[j].state \notin Alive
  <2>1. jobs[j].state = "done"
    BY <1>1, <1>3 DEF Job1, JobStates, Alive
  <2>2. ToApply[j] = <<>>
    BY <2>1 DEF ToApply
  <2> QED BY <1>3, <2>2
<1> QED BY <1>2, <1>3

(* The places Places counts: those in the pack, *)
InPack(q) == { i \in DOMAIN pack : pack[i] = q }
(* and those in jobs. *)
InJobs(q) == { p \in (DOMAIN jobs) \X (1 .. BatchSize) :
                 p[2] \in DOMAIN ToApply[p[1]] /\ ToApply[p[1]][p[2]] = q }

(* A place counted by Places is one of Open. *)
LEMMA PlacesAreOpen ==
  ASSUME StreamInv, QuestionInv, ~stopped, NEW q
  PROVE  /\ \A i \in InPack(q) : <<0, i>> \in Open /\ At(<<0, i>>) = q
         /\ \A p \in InJobs(q) : /\ <<p[1], jobs[p[1]].next + p[2] - 1>> \in Open /\ p[1] # 0
                                 /\ At(<<p[1], jobs[p[1]].next + p[2] - 1>>) = q
         /\ \A s \in Open : At(s) = q =>
              IF s[1] = 0 THEN s[2] \in InPack(q)
              ELSE <<s[1], s[2] - jobs[s[1]].next + 1>> \in InJobs(q)
<1>1. /\ DOMAIN pack = 1 .. Len(pack) /\ Len(pack) \in Nat /\ 0 \notin DOMAIN jobs
  BY Lengths
<1>2. /\ \A j \in DOMAIN jobs : jobs[j].state # "failing"
      /\ \A j \in DOMAIN jobs : Len(jobs[j].refs) <= BatchSize
      /\ BatchSize \in Nat
  BY StreamAssumption DEF QuestionInv, NothingLost, SizesInv
<1>3. \A j \in DOMAIN jobs : jobs[j].next \in Nat /\ Len(jobs[j].refs) \in Nat
  BY Lengths DEF Job1
<1>4. ASSUME NEW i \in InPack(q) PROVE <<0, i>> \in Open /\ At(<<0, i>>) = q
  BY <1>1 DEF InPack, Open, At
<1>5. ASSUME NEW p \in InJobs(q)
      PROVE  /\ <<p[1], jobs[p[1]].next + p[2] - 1>> \in Open /\ p[1] # 0
             /\ At(<<p[1], jobs[p[1]].next + p[2] - 1>>) = q
  <2>1. PICK j, i : j = p[1] /\ i = p[2]
    OBVIOUS
  <2>2. j \in DOMAIN jobs /\ i \in DOMAIN ToApply[j] /\ ToApply[j][i] = q
    BY <2>1 DEF InJobs
  <2>3. /\ jobs[j].state \in Alive /\ jobs[j].next \in 1 .. Len(jobs[j].refs)
        /\ i \in 1 .. Len(jobs[j].refs) - jobs[j].next + 1
        /\ jobs[j].refs[jobs[j].next + i - 1] = q
    BY <1>2, <2>2, ToApplyIs
  <2>4. jobs[j].next + i - 1 \in jobs[j].next .. Len(jobs[j].refs) /\ jobs[j].next + i - 1 \in Nat
    BY <1>3, <2>2, <2>3
  <2>5. j # 0
    BY <1>1, <2>2
  <2> QED BY <2>1, <2>2, <2>3, <2>4, <2>5 DEF Open, At, Alive
<1>6. ASSUME NEW s \in Open, At(s) = q
      PROVE  IF s[1] = 0 THEN s[2] \in InPack(q)
             ELSE <<s[1], s[2] - jobs[s[1]].next + 1>> \in InJobs(q)
  <2>1. CASE s[1] = 0
    BY <1>1, <1>6, <2>1 DEF Open, At, InPack
  <2>2. CASE s[1] # 0
    <3>1. PICK j, m : j = s[1] /\ m = s[2]
      OBVIOUS
    <3>2. j \in DOMAIN jobs /\ jobs[j].state \in Alive /\ m \in jobs[j].next .. Len(jobs[j].refs)
          /\ jobs[j].refs[m] = q
      BY <1>6, <2>2, <3>1 DEF Open, At, Alive
    <3>3. PICK i : i = m - jobs[j].next + 1
      OBVIOUS
    <3>4. /\ jobs[j].next \in 1 .. Len(jobs[j].refs)
          /\ DOMAIN ToApply[j] = 1 .. Len(jobs[j].refs) - jobs[j].next + 1
          /\ \A k \in DOMAIN ToApply[j] : ToApply[j][k] = jobs[j].refs[jobs[j].next + k - 1]
      BY <1>2, <3>2, ToApplyIs
    <3>5. i \in 1 .. Len(jobs[j].refs) - jobs[j].next + 1 /\ jobs[j].next + i - 1 = m /\ i \in 1 .. BatchSize
      <4>1. Len(jobs[j].refs) <= BatchSize
        BY <1>2, <3>2
      <4> QED BY <1>2, <1>3, <3>2, <3>3, <3>4, <4>1
    <3>6. i \in DOMAIN ToApply[j] /\ ToApply[j][i] = q
      BY <3>2, <3>4, <3>5
    <3>7. <<j, i>> \in InJobs(q)
      BY <3>2, <3>5, <3>6 DEF InJobs
    <3> QED BY <2>2, <3>1, <3>3, <3>7
  <2> QED BY <2>1, <2>2
<1> QED BY <1>4, <1>5, <1>6

(* A question that was asked is in one place (jev_stream.hpp:187-219).     *)
LEMMA OnePlace ==
  ASSUME StreamInv, QuestionInv, ~stopped, NEW r \in 1 .. offset, Owns(r), NEW n \in AskedOf(r)
  PROVE  Places(<<r, n>>) = 1
<1>0. PICK q : q = <<r, n>>
  OBVIOUS
<1>1. Places(<<r, n>>) = Cardinality(InPack(q)) + Cardinality(InJobs(q)) + (IF n \in answers[r] THEN 1 ELSE 0)
  BY <1>0 DEF Places, InPack, InJobs
<1>2. n \in answers[r] \/ InPlace(q)
  BY <1>0 DEF QuestionInv, NothingLost
<1>3. InPlace(q) => n \notin answers[r]
  BY <1>0 DEF QuestionInv, Distinct
<1>4. /\ (\A i \in InPack(q) : <<0, i>> \in Open /\ At(<<0, i>>) = q)
      /\ (\A p \in InJobs(q) : /\ <<p[1], jobs[p[1]].next + p[2] - 1>> \in Open /\ p[1] # 0
                               /\ At(<<p[1], jobs[p[1]].next + p[2] - 1>>) = q)
      /\ \A s \in Open : At(s) = q =>
              IF s[1] = 0 THEN s[2] \in InPack(q)
              ELSE <<s[1], s[2] - jobs[s[1]].next + 1>> \in InJobs(q)
  BY PlacesAreOpen
<1>5. Cardinality({}) = 0 /\ \A x : Cardinality({x}) = 1
  BY FS_EmptySet, FS_Singleton
<1>6. CASE ~ InPlace(q)
  <2>1. InPack(q) = {} /\ InJobs(q) = {}
    BY <1>4, <1>6 DEF InPlace
  <2> QED BY <1>1, <1>2, <1>5, <1>6, <2>1
<1>7. ASSUME NEW s \in Open, At(s) = q PROVE Places(<<r, n>>) = 1
  <2>0. n \notin answers[r]
    BY <1>3, <1>7 DEF InPlace
  <2>1. \A t \in Open : At(t) = q => t = s
    BY <1>7 DEF QuestionInv, Distinct
  <2>2. CASE s[1] = 0
    <3>1. InPack(q) = {s[2]}
      <4>1. ASSUME NEW i \in InPack(q) PROVE i = s[2]
        <5>1. PICK e : e = <<0, i>>
          OBVIOUS
        <5>2. e = s
          BY <1>4, <2>1, <5>1
        <5>3. e[2] = i
          BY <5>1
        <5> QED BY <5>2, <5>3
      <4>2. s[2] \in InPack(q)
        BY <1>4, <1>7, <2>2
      <4> QED BY <4>1, <4>2
    <3>2. InJobs(q) = {}
      <4>1. ASSUME NEW p \in InJobs(q) PROVE FALSE
        <5>1. PICK e : e = <<p[1], jobs[p[1]].next + p[2] - 1>>
          OBVIOUS
        <5>2. e = s /\ p[1] # 0
          BY <1>4, <2>1, <5>1
        <5>3. e[1] = p[1]
          BY <5>1
        <5> QED BY <2>2, <5>2, <5>3
      <4> QED BY <4>1
    <3>3. Cardinality(InPack(q)) = 1 /\ Cardinality(InJobs(q)) = 0
      BY <1>5, <3>1, <3>2
    <3> QED BY <1>1, <2>0, <3>3
  <2>3. CASE s[1] # 0
    <3>1. InPack(q) = {}
      <4>1. ASSUME NEW i \in InPack(q) PROVE FALSE
        <5>1. PICK e : e = <<0, i>>
          OBVIOUS
        <5>2. e = s
          BY <1>4, <2>1, <5>1
        <5>3. e[1] = 0
          BY <5>1
        <5> QED BY <2>3, <5>2, <5>3
      <4> QED BY <4>1
    <3>2. PICK e : e = <<s[1], s[2] - jobs[s[1]].next + 1>>
      OBVIOUS
    <3>3. InJobs(q) = {e}
      <4>1. e \in InJobs(q)
        BY <1>4, <1>7, <2>3, <3>2
      <4>2. ASSUME NEW p \in InJobs(q) PROVE p = e
        <5>1. p[1] = s[1] /\ jobs[p[1]].next + p[2] - 1 = s[2]
          <6>1. PICK d : d = <<p[1], jobs[p[1]].next + p[2] - 1>>
            OBVIOUS
          <6>2. d = s
            BY <1>4, <2>1, <6>1
          <6>3. d[1] = p[1] /\ d[2] = jobs[p[1]].next + p[2] - 1
            BY <6>1
          <6> QED BY <6>2, <6>3
        <5>2. jobs[p[1]].next \in Nat /\ p[2] \in Nat /\ p = <<p[1], p[2]>>
          <6>1. p \in (DOMAIN jobs) \X (1 .. BatchSize)
            BY DEF InJobs
          <6> QED BY <6>1, Lengths DEF Job1
        <5>3. p[2] = s[2] - jobs[s[1]].next + 1
          BY <5>1, <5>2
        <5> QED BY <3>2, <5>1, <5>2, <5>3
      <4> QED BY <4>1, <4>2
    <3>4. Cardinality(InPack(q)) = 0 /\ Cardinality(InJobs(q)) = 1
      BY <1>5, <3>1, <3>3
    <3> QED BY <1>1, <2>0, <3>4
  <2> QED BY <2>2, <2>3
<1> QED BY <1>6, <1>7 DEF InPlace

(* Both invariants hold always. *)
LEMMA AlwaysQuestions == Spec => [](StreamInv /\ QuestionInv /\ Stopping /\ BudgetInv)
<1>1. Init => StreamInv /\ QuestionInv /\ Stopping /\ BudgetInv
  BY InitInv, QuestionInit, BudgetInit
<1>2. (StreamInv /\ QuestionInv /\ Stopping /\ BudgetInv) /\ [Next]_streamVars
        => (StreamInv /\ QuestionInv /\ Stopping /\ BudgetInv)'
  BY StepInv, QuestionStep, StoppingStep, BudgetStep
<1> QED BY <1>1, <1>2, PTL DEF Spec

(***************************************************************************)
(* Until a stream stops, every question asked of a row is in exactly one   *)
(* place: the open pack, a job that has yet to answer it, or the row's     *)
(* answers. No flush, reaping, reuse of a job's index or answer applied    *)
(* twice loses or repeats one (jev_stream.hpp:80-98, 187-219).             *)
(***************************************************************************)
THEOREM QuestionsOnce == Spec => []EachQuestionOnce
<1>1. StreamInv /\ QuestionInv => EachQuestionOnce
  BY OnePlace DEF EachQuestionOnce
<1> QED BY <1>1, AlwaysQuestions, PTL

(***************************************************************************)
(* retained_bytes is what the keys of the rows in the stream take,         *)
(* result_bytes what their answers take, both within their bounds; they    *)
(* never wrap, and the jobs that are not done are at most twice the        *)
(* concurrency (jev_stream.hpp:86-90, 121-124, 171-175, 250-254).          *)
(***************************************************************************)
THEOREM BudgetsHold == Spec => []BudgetsExact
<1>1. StreamInv /\ QuestionInv /\ BudgetInv => BudgetsExact
  <2> SUFFICES ASSUME StreamInv, QuestionInv, BudgetInv PROVE BudgetsExact
    OBVIOUS
  <2>1. Cardinality({ j \in DOMAIN jobs : jobs[j].state # "done" }) <= 2 * Concurrency
    <3> DEFINE D == { j \in DOMAIN jobs : jobs[j].state # "done" }
    <3>0. PICK n : n = Len(jobs)
      OBVIOUS
    <3>1. DOMAIN jobs = 1 .. n /\ n \in Nat /\ n <= 2 * Concurrency /\ Concurrency \in Nat
      BY <3>0, Lengths, StreamAssumption DEF QuestionInv, SizesInv
    <3>2. D \subseteq 1 .. n
      BY <3>1
    <3> HIDE DEF D
    <3>3. IsFiniteSet(1 .. n) /\ Cardinality(1 .. n) = n
      <4>1. Cardinality(1 .. n) = IF 1 > n THEN 0 ELSE n - 1 + 1
        BY <3>1, FS_Interval
      <4> QED BY <3>1, <4>1, FS_Interval
    <3>4. Cardinality(D) <= Cardinality(1 .. n) /\ IsFiniteSet(D)
      BY <3>2, <3>3, FS_Subset
    <3>5. Cardinality(D) \in Nat
      BY <3>4, FS_CardinalityType
    <3>6. Cardinality(D) <= 2 * Concurrency
      BY <3>1, <3>3, <3>4, <3>5
    <3> QED BY <3>6 DEF D
  <2> QED BY <2>1 DEF BudgetsExact, BudgetInv, RetainedBy, BufferedBy
<1> QED BY <1>1, AlwaysQuestions, PTL
================================================================================
