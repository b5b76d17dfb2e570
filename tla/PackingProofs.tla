----------------------------- MODULE PackingProofs -----------------------------
(***************************************************************************)
(* For every batch size, byte bound and length of ids and questions: what  *)
(* either packer makes can be sent, loses no question, and is the same.    *)
(***************************************************************************)
EXTENDS Packing, SumTheorems, FiniteSetTheorems, SequenceTheorems, TLAPS

AllPacks(closed, open) ==
  /\ Sendable(open) /\ \A i \in DOMAIN closed : closed[i].refs # <<>> /\ Sendable(closed[i])

PackingInv == TypeOK /\ AllSendable /\ AskedInOrder /\ SamePacks

Ref == [question : Nat \ {0}, id : Nat]

LEMMA Constants ==
  /\ BatchSize \in Nat \ {0} /\ PrefixBytes \in Nat /\ Bytes \in Nat /\ MaxTotal \in Nat
  /\ PrefixBytes + 2 \in 0 .. MaxTotal
  /\ \A n \in 0 .. BatchSize : IdBytes[n] \in Nat
  /\ \A size \in Sizes : size \in Nat
<1>1. PrefixBytes \in Nat /\ MaxTotal \in Nat /\ PrefixBytes + 2 <= MaxTotal
  BY PackingAssumption
<1>2. PrefixBytes + 2 \in 0 .. MaxTotal
  BY <1>1
<1> QED
  BY <1>2, PackingAssumption

LEMMA EmptyPackOK == EmptyPack \in Pack /\ Sendable(EmptyPack) /\ EmptyPack.refs = <<>>
<1>1. EmptyPack.refs = <<>> /\ EmptyPack.bytes = PrefixBytes
  BY DEF EmptyPack
<1>2. EmptyPack \in Pack
  BY Constants DEF EmptyPack, Pack
<1> QED
  BY <1>1, <1>2, Constants DEF Sendable

LEMMA PackParts ==
  ASSUME NEW p \in Pack
  PROVE  p.refs \in Seq(Ref) /\ Len(p.refs) \in Nat /\ p.bytes \in Nat /\ DOMAIN p.refs = 1 .. Len(p.refs)
<1>1. p.refs \in Seq(Ref) /\ p.bytes \in Nat
  BY DEF Pack, Ref
<1> QED
  BY <1>1

LEMMA Appended ==
  ASSUME NEW S, NEW s \in Seq(S), NEW e \in S
  PROVE  /\ Append(s, e) \in Seq(S) /\ Append(s, e) # <<>> /\ Len(Append(s, e)) = Len(s) + 1
         /\ DOMAIN Append(s, e) = 1 .. Len(s) + 1
         /\ \A i \in DOMAIN s : Append(s, e)[i] = s[i]
         /\ Append(s, e)[Len(s) + 1] = e
OBVIOUS

(* A question that fits makes a pack that can be sent. *)
LEMMA PutOK ==
  ASSUME asked \in Seq(Nat), NEW p \in Pack, Sendable(p), NEW size \in Sizes,
         Len(p.refs) < BatchSize, ~Overfull(p, Len(p.refs), size)
  PROVE  LET new == Put(p, Len(p.refs), size)
         IN  /\ new \in Pack /\ Sendable(new) /\ new.refs # <<>> /\ Len(new.refs) = Len(p.refs) + 1
             /\ \A i \in DOMAIN p.refs : new.refs[i] = p.refs[i]
             /\ new.refs[Len(p.refs) + 1].question = Len(asked) + 1
<1> DEFINE n == Len(p.refs)
           e == [question |-> Len(asked) + 1, id |-> n]
           new == Put(p, n, size)
<1>1. p.refs \in Seq(Ref) /\ n \in Nat /\ p.bytes \in Nat /\ DOMAIN p.refs = 1 .. n
  BY PackParts
<1>2. e \in Ref /\ e.id = n /\ e.question = Len(asked) + 1
  BY <1>1 DEF Ref
<1>3. new.refs = Append(p.refs, e) /\ new.bytes = p.bytes + Comma(p) + Entry(n, size)
      /\ new = [refs |-> new.refs, bytes |-> new.bytes]
  BY DEF Put
<1> HIDE DEF e, new
<1>4. new.refs \in Seq(Ref) /\ Len(new.refs) = n + 1 /\ new.refs # <<>> /\ DOMAIN new.refs = 1 .. n + 1
      /\ (\A i \in DOMAIN p.refs : new.refs[i] = p.refs[i]) /\ new.refs[n + 1] = e
  BY <1>1, <1>2, <1>3, Appended, SMTT(40)
<1>5. Entry(n, size) \in Nat /\ Comma(p) \in Nat
  <2>1. n \in 0 .. BatchSize
    BY <1>1, Constants
  <2> QED
    BY <2>1, Constants DEF Entry, Comma
<1>6. new.bytes \in Nat /\ new.bytes + 2 <= Bytes
  <2>1. ~(p.bytes + Entry(n, size) + Comma(p) + 2 > Bytes)
    BY DEF Overfull
  <2>2. p.bytes \in Nat /\ Bytes \in Nat
    BY <1>1, Constants
  <2>3. new.bytes = p.bytes + Comma(p) + Entry(n, size)
    BY <1>3
  <2> HIDE DEF n
  <2> QED
    BY <2>1, <2>2, <2>3, <1>5
<1>7. new \in Pack
  <2>1. [refs |-> new.refs, bytes |-> new.bytes] \in [refs : Seq(Ref), bytes : Nat]
    BY <1>4, <1>6
  <2> QED
    BY <2>1, <1>3 DEF Pack, Ref
<1>8. Sendable(new)
  <2>1. \A i \in DOMAIN new.refs : new.refs[i].id = i - 1
    BY <1>1, <1>2, <1>4, SMTT(40) DEF Sendable
  <2> QED
    BY <2>1, <1>1, <1>4, <1>6, Constants DEF Sendable
<1> QED
  BY <1>2, <1>4, <1>7, <1>8 DEF new

(* Closing a pack, and putting a question in the open one, keep the order. *)
LEMMA OrderedCut ==
  ASSUME NEW closed \in Seq(Pack), NEW open \in Pack, Ordered(closed, open), open.refs # <<>>
  PROVE  /\ Ordered(Append(closed, open), EmptyPack)
         /\ Last0(Append(closed, open), Len(Append(closed, open))) + Len(EmptyPack.refs)
              = Last0(closed, Len(closed)) + Len(open.refs)
<1> DEFINE cs == Append(closed, open)
           n == Len(closed)
           m == Len(open.refs)
<1>1. cs \in Seq(Pack) /\ Len(cs) = n + 1 /\ n \in Nat /\ DOMAIN cs = 1 .. n + 1 /\ DOMAIN closed = 1 .. n
      /\ (\A i \in 1 .. n : cs[i] = closed[i]) /\ cs[n + 1] = open
  OBVIOUS
<1>2. m \in Nat \ {0} /\ DOMAIN open.refs = 1 .. m
  BY PackParts
<1>3. \A i \in 0 .. n : Last0(cs, i) = Last0(closed, i)
  BY <1>1 DEF Last0
<1>4. Last0(cs, n + 1) = open.refs[m].question
  BY <1>1 DEF Last0
<1>5. open.refs[m].question = Last0(closed, n) + m
  BY <1>2 DEF Ordered
<1> HIDE DEF cs
<1>6. ASSUME NEW i \in DOMAIN cs, NEW j \in DOMAIN cs[i].refs
      PROVE  cs[i].refs[j].question = Last0(cs, i - 1) + j
  <2>1. CASE i \in 1 .. n
    <3>1. i - 1 \in 0 .. n /\ cs[i] = closed[i] /\ i \in DOMAIN closed
      BY <2>1, <1>1
    <3> QED
      BY <3>1, <1>3, <1>6 DEF Ordered
  <2>2. CASE i = n + 1
    <3>1. n \in 0 .. n /\ i - 1 = n /\ cs[i] = open
      BY <2>2, <1>1
    <3> QED
      BY <3>1, <1>3, <1>6 DEF Ordered
  <2> QED
    BY <2>1, <2>2, <1>1
<1>7. EmptyPack.refs = <<>> /\ Len(EmptyPack.refs) = 0 /\ DOMAIN EmptyPack.refs = {}
  BY EmptyPackOK
<1>8. Ordered(cs, EmptyPack)
  BY <1>6, <1>7 DEF Ordered
<1>9. Last0(closed, n) + m = Last0(cs, Len(cs)) + Len(EmptyPack.refs)
  <2>1. open.refs[m].question \in Nat
    <3>1. open.refs[m] \in Ref
      BY <1>2, PackParts
    <3> QED
      BY <3>1 DEF Ref
  <2> QED
    BY <2>1, <1>1, <1>4, <1>5, <1>7
<1> QED
  BY <1>8, <1>9 DEF cs

LEMMA PlusOne ==
  ASSUME NEW a \in Int, NEW b \in Int
  PROVE  (a + b) + 1 = a + (b + 1)
  OBVIOUS

LEMMA OrderedPut ==
  ASSUME asked \in Seq(Nat), NEW closed \in Seq(Pack), NEW open \in Pack, NEW new \in Pack,
         Ordered(closed, open), Last0(closed, Len(closed)) + Len(open.refs) = Len(asked),
         \A i \in DOMAIN closed : closed[i].refs # <<>>,
         Len(new.refs) = Len(open.refs) + 1,
         \A i \in DOMAIN open.refs : new.refs[i] = open.refs[i],
         new.refs[Len(open.refs) + 1].question = Len(asked) + 1
  PROVE  Ordered(closed, new) /\ Last0(closed, Len(closed)) + Len(new.refs) = Len(asked) + 1
<1> DEFINE L == Last0(closed, Len(closed))
           m == Len(open.refs)
<1>1. m \in Nat /\ DOMAIN open.refs = 1 .. m /\ DOMAIN new.refs = 1 .. m + 1
  BY PackParts
<1>2. L \in Nat
  <2>1. CASE Len(closed) = 0
    BY <2>1 DEF Last0
  <2>2. CASE Len(closed) # 0
    <3> DEFINE last == closed[Len(closed)]
    <3>1. last \in Pack /\ last.refs # <<>>
      BY <2>2
    <3>2. last.refs \in Seq(Ref) /\ Len(last.refs) \in DOMAIN last.refs
      BY <3>1, PackParts
    <3>3. last.refs[Len(last.refs)] \in Ref
      BY <3>2
    <3> QED
      BY <3>3, <2>2 DEF Last0, Ref
  <2> QED
    BY <2>1, <2>2
<1> HIDE DEF L
<1>3. L + m = Len(asked) /\ \A j \in DOMAIN open.refs : open.refs[j].question = L + j
  BY DEF L, Ordered
<1>4. ASSUME NEW j \in DOMAIN new.refs PROVE new.refs[j].question = L + j
  <2>1. CASE j \in 1 .. m
    BY <2>1, <1>1, <1>3
  <2>2. CASE j = m + 1
    <3>1. new.refs[m + 1].question = (L + m) + 1
      BY <1>3, Zenon
    <3>2. (L + m) + 1 = L + (m + 1)
      BY <1>1, <1>2, PlusOne
    <3> QED
      BY <3>1, <3>2, <2>2, Zenon
  <2> QED
    BY <2>1, <2>2, <1>1
<1> QED
  BY <1>1, <1>2, <1>3, <1>4 DEF Ordered, L

LEMMA InitInv == Init => PackingInv
<1> SUFFICES ASSUME Init PROVE PackingInv
  OBVIOUS
<1>1. TypeOK
  <2>1. asked \in Seq(Nat) /\ packs \in Seq(Pack) /\ sent \in Seq(Pack)
    BY DEF Init
  <2>2. current \in Pack /\ pack \in Pack /\ packedBytes \in 0 .. MaxTotal
    BY EmptyPackOK, Constants DEF Init
  <2>3. scalarThrew \in BOOLEAN /\ streamThrew \in BOOLEAN /\ overBudget \in BOOLEAN /\ early \in BOOLEAN
    BY Zenon DEF Init
  <2> QED
    BY <2>1, <2>2, <2>3 DEF TypeOK
<1>2. AllSendable
  BY EmptyPackOK DEF Init, AllSendable
<1>3. AskedInOrder
  BY EmptyPackOK DEF Init, AskedInOrder, Ordered, Last0
<1>4. SamePacks
  BY DEF Init, SamePacks
<1> QED
  BY <1>1, <1>2, <1>3, <1>4 DEF PackingInv

(***************************************************************************)
(* What one packer does of a question, for either of them: closed and open *)
(* are its packs, and it does not throw.                                   *)
(***************************************************************************)
LEMMA CutAndPut ==
  ASSUME asked \in Seq(Nat), NEW closed \in Seq(Pack), NEW open \in Pack, AllPacks(closed, open),
         Ordered(closed, open), Last0(closed, Len(closed)) + Len(open.refs) = Len(asked),
         NEW size \in Sizes, NEW cut \in BOOLEAN,
         cut <=> Full(open, size) /\ open.refs # <<>>,
         ~cut => ~Full(open, size) \/ ~Overfull(open, Len(open.refs), size),
         cut => ~Overfull(EmptyPack, 0, size)
  PROVE  LET p   == Fresh(cut, open)
             new == Put(p, NextId(open, p), size)
             cs  == IF cut THEN Append(closed, open) ELSE closed
         IN  /\ cs \in Seq(Pack) /\ new \in Pack /\ new.refs # <<>> /\ AllPacks(cs, new)
             /\ Ordered(cs, new) /\ Last0(cs, Len(cs)) + Len(new.refs) = Len(asked) + 1
<1> DEFINE p   == Fresh(cut, open)
           new == Put(p, NextId(open, p), size)
           cs  == IF cut THEN Append(closed, open) ELSE closed
<1>1. /\ cs \in Seq(Pack) /\ p \in Pack /\ AllPacks(cs, p)
      /\ Ordered(cs, p) /\ Last0(cs, Len(cs)) + Len(p.refs) = Len(asked)
  <2>1. CASE cut
    <3>1. p = EmptyPack /\ cs = Append(closed, open) /\ open.refs # <<>>
      BY <2>1 DEF Fresh
    <3>2. cs \in Seq(Pack) /\ \A i \in DOMAIN cs : cs[i] = open \/ (i \in DOMAIN closed /\ cs[i] = closed[i])
      BY <3>1
    <3>3. AllPacks(cs, p)
      BY <3>1, <3>2, EmptyPackOK DEF AllPacks
    <3>4. Ordered(cs, p) /\ Last0(cs, Len(cs)) + Len(p.refs) = Len(asked)
      BY <3>1, OrderedCut
    <3> QED
      BY <3>1, <3>2, <3>3, <3>4, EmptyPackOK
  <2>2. CASE ~cut
    BY <2>2 DEF Fresh
  <2> QED
    BY <2>1, <2>2
<1>2. NextId(open, p) = Len(p.refs) /\ Sendable(p)
  BY <1>1 DEF NextId, AllPacks
<1>3. Len(p.refs) < BatchSize /\ ~Overfull(p, Len(p.refs), size)
  <2>1. CASE cut
    <3>1. p = EmptyPack /\ Len(p.refs) = 0
      BY <2>1, EmptyPackOK DEF Fresh
    <3> QED
      BY <3>1, <2>1, Constants
  <2>2. CASE ~cut
    <3>1. p = open
      BY <2>2 DEF Fresh
    <3>2. ~Overfull(open, Len(open.refs), size)
      BY <2>2 DEF Full
    <3>3. Len(open.refs) < BatchSize
      <4>1. CASE open.refs = <<>>
        BY <4>1, Constants
      <4>2. CASE ~Full(open, size)
        BY <4>2, PackParts, Constants DEF Full
      <4> QED
        BY <4>1, <4>2, <2>2
    <3> QED
      BY <3>1, <3>2, <3>3
  <2> QED
    BY <2>1, <2>2
<1>4. /\ new \in Pack /\ Sendable(new) /\ new.refs # <<>> /\ Len(new.refs) = Len(p.refs) + 1
      /\ \A i \in DOMAIN p.refs : new.refs[i] = p.refs[i]
      /\ new.refs[Len(p.refs) + 1].question = Len(asked) + 1
  BY <1>1, <1>2, <1>3, PutOK
<1> HIDE DEF new, p, cs
<1>5. AllPacks(cs, new)
  BY <1>1, <1>4 DEF AllPacks
<1>6. Ordered(cs, new) /\ Last0(cs, Len(cs)) + Len(new.refs) = Len(asked) + 1
  BY <1>1, <1>4, OrderedPut, ZenonT(40) DEF AllPacks
<1> QED
  BY <1>1, <1>4, <1>5, <1>6 DEF new, p, cs

(* Evaluate's question: it throws, or cuts and puts. *)
LEMMA EvaluateStep ==
  ASSUME PackingInv, NEW size \in Sizes, Evaluate(size), asked' = Append(asked, size)
  PROVE  /\ packs' \in Seq(Pack) /\ current' \in Pack /\ packedBytes' \in 0 .. MaxTotal
         /\ scalarThrew' \in BOOLEAN /\ overBudget' \in BOOLEAN
         /\ AllPacks(packs', current') /\ Ordered(packs', current')
         /\ ~scalarThrew' => /\ Last0(packs', Len(packs')) + Len(current'.refs) = Len(asked) + 1
                             /\ ~scalarThrew
<1> DEFINE cut   == Full(current, size) /\ current.refs # <<>>
           p     == Fresh(cut, current)
           id    == NextId(current, p)
           single == Full(current, size) /\ Overfull(p, id, size)
           total == packedBytes + (IF cut THEN NewPackBytes ELSE 0) + Entry(id, size) + Comma(p)
<1>1. /\ asked \in Seq(Nat) /\ packs \in Seq(Pack) /\ current \in Pack /\ packedBytes \in 0 .. MaxTotal
      /\ AllPacks(packs, current) /\ Ordered(packs, current)
  BY DEF PackingInv, TypeOK, AllSendable, AllPacks, AskedInOrder
<1>2. CASE UNCHANGED scalarVars /\ scalarThrew
  BY <1>1, <1>2 DEF scalarVars, PackingInv, TypeOK
<1>3. CASE scalarThrew' = TRUE /\ overBudget' = ~single /\ UNCHANGED <<packs, current, packedBytes>>
  BY <1>1, <1>3
<1>4. CASE /\ ~scalarThrew /\ ~single /\ ~TooMuch(total)
           /\ packs' = (IF cut THEN Append(packs, current) ELSE packs)
           /\ current' = Put(p, id, size)
           /\ packedBytes' = total
           /\ UNCHANGED <<scalarThrew, overBudget>>
  <2>1. ~cut => ~Full(current, size) \/ ~Overfull(current, Len(current.refs), size)
    BY <1>4 DEF Fresh, NextId
  <2>2. cut => ~Overfull(EmptyPack, 0, size)
    BY <1>4, EmptyPackOK DEF Fresh, NextId
  <2>3. Last0(packs, Len(packs)) + Len(current.refs) = Len(asked)
    BY <1>4 DEF PackingInv, AskedInOrder
  <2>4. /\ packs' \in Seq(Pack) /\ current' \in Pack /\ AllPacks(packs', current') /\ Ordered(packs', current')
        /\ Last0(packs', Len(packs')) + Len(current'.refs) = Len(asked) + 1
    <3>1. cut \in BOOLEAN
      OBVIOUS
    <3>2. LET new == Put(p, id, size)
              cs  == IF cut THEN Append(packs, current) ELSE packs
          IN  /\ cs \in Seq(Pack) /\ new \in Pack /\ new.refs # <<>> /\ AllPacks(cs, new)
              /\ Ordered(cs, new) /\ Last0(cs, Len(cs)) + Len(new.refs) = Len(asked) + 1
      <4> HIDE DEF id, p
      <4> QED
        BY <3>1, <2>1, <2>2, <2>3, <1>1, CutAndPut DEF id, p
    <3> HIDE DEF cut, p, id
    <3> QED
      BY <3>2, <1>4
  <2>5. packedBytes' \in 0 .. MaxTotal
    <3>1. id \in 0 .. BatchSize
      <4>1. p \in Pack /\ Sendable(p)
        BY <1>1, EmptyPackOK DEF Fresh, AllPacks
      <4> HIDE DEF p
      <4> QED
        BY <4>1, PackParts, Constants DEF NextId, Sendable
    <3>2. Entry(id, size) \in Nat /\ Comma(p) \in Nat /\ NewPackBytes \in Nat
      BY <3>1, Constants DEF Entry, Comma, NewPackBytes
    <3> HIDE DEF id, p, cut
    <3>3. total \in Nat
      BY <3>2, <1>1, Constants
    <3>4. ~(total > MaxTotal)
      BY <1>4 DEF TooMuch
    <3> QED
      BY <3>3, <3>4, <1>4, Constants
  <2>6. scalarThrew' \in BOOLEAN /\ overBudget' \in BOOLEAN
    BY <1>4 DEF PackingInv, TypeOK
  <2> QED
    BY <2>4, <2>5, <2>6, <1>4
<1> QED
  BY <1>2, <1>3, <1>4 DEF Evaluate

(* Add's question: it throws after the cut, or puts and perhaps flushes. *)
LEMMA AddStep ==
  ASSUME PackingInv, NEW size \in Sizes, Add(size), asked' = Append(asked, size)
  PROVE  /\ sent' \in Seq(Pack) /\ pack' \in Pack /\ streamThrew' \in BOOLEAN
         /\ AllPacks(sent', pack') /\ Ordered(sent', pack')
         /\ ~streamThrew' => Last0(sent', Len(sent')) + Len(pack'.refs) = Len(asked) + 1
<1> DEFINE cut     == Full(pack, size) /\ pack.refs # <<>>
           p       == Fresh(cut, pack)
           id      == NextId(pack, p)
           new     == Put(p, id, size)
           flushed == IF cut THEN Append(sent, pack) ELSE sent
<1>1. /\ asked \in Seq(Nat) /\ sent \in Seq(Pack) /\ pack \in Pack
      /\ AllPacks(sent, pack) /\ Ordered(sent, pack)
  BY DEF PackingInv, TypeOK, AllSendable, AllPacks, AskedInOrder
<1>2. CASE UNCHANGED streamVars /\ streamThrew
  BY <1>1, <1>2 DEF streamVars, PackingInv, TypeOK
<1>3. CASE streamThrew' = TRUE /\ sent' = flushed /\ pack' = p
  <2>1. CASE cut
    <3>1. sent' = Append(sent, pack) /\ pack' = EmptyPack /\ pack.refs # <<>>
      BY <2>1, <1>3 DEF Fresh
    <3>2. sent' \in Seq(Pack) /\ \A i \in DOMAIN sent' : sent'[i] = pack \/ (i \in DOMAIN sent /\ sent'[i] = sent[i])
      BY <3>1, <1>1
    <3>3. AllPacks(sent', pack')
      BY <3>1, <3>2, <1>1, EmptyPackOK DEF AllPacks
    <3>4. Ordered(sent', pack')
      BY <3>1, <1>1, OrderedCut
    <3> QED
      BY <3>1, <3>2, <3>3, <3>4, <1>3, EmptyPackOK
  <2>2. CASE ~cut
    BY <2>2, <1>1, <1>3 DEF Fresh
  <2> QED
    BY <2>1, <2>2
<1>4. CASE /\ ~streamThrew /\ ~Overfull(p, id, size)
           /\ sent' = (IF FlushNow(new) THEN Append(flushed, new) ELSE flushed)
           /\ pack' = (IF FlushNow(new) THEN EmptyPack ELSE new)
           /\ UNCHANGED streamThrew
  <2>1. ~cut => ~Full(pack, size) \/ ~Overfull(pack, Len(pack.refs), size)
    BY <1>4 DEF Fresh, NextId
  <2>2. cut => ~Overfull(EmptyPack, 0, size)
    BY <1>4, EmptyPackOK DEF Fresh, NextId
  <2>3. Last0(sent, Len(sent)) + Len(pack.refs) = Len(asked)
    BY <1>4 DEF PackingInv, AskedInOrder
  <2>4. /\ flushed \in Seq(Pack) /\ new \in Pack /\ new.refs # <<>> /\ AllPacks(flushed, new)
        /\ Ordered(flushed, new) /\ Last0(flushed, Len(flushed)) + Len(new.refs) = Len(asked) + 1
    <3>1. cut \in BOOLEAN
      OBVIOUS
    <3> QED
      BY <3>1, <2>1, <2>2, <2>3, <1>1, CutAndPut
  <2> HIDE DEF flushed, new
  <2>5. streamThrew' \in BOOLEAN
    BY <1>4 DEF PackingInv, TypeOK
  <2>6. CASE FlushNow(new)
    <3>1. sent' = Append(flushed, new) /\ pack' = EmptyPack
      BY <2>6, <1>4
    <3>2. sent' \in Seq(Pack) /\ \A i \in DOMAIN sent' : sent'[i] = new \/ (i \in DOMAIN flushed /\ sent'[i] = flushed[i])
      BY <3>1, <2>4
    <3>3. AllPacks(sent', pack')
      BY <3>1, <3>2, <2>4, EmptyPackOK DEF AllPacks
    <3>4. Ordered(sent', pack') /\ Last0(sent', Len(sent')) + Len(pack'.refs) = Len(asked) + 1
      BY <3>1, <2>4, OrderedCut
    <3> QED
      BY <3>1, <3>2, <3>3, <3>4, <2>5, EmptyPackOK
  <2>7. CASE ~FlushNow(new)
    BY <2>7, <1>4, <2>4, <2>5
  <2> QED
    BY <2>6, <2>7
<1> QED
  BY <1>2, <1>3, <1>4 DEF Add

(* The two decide alike until Emit flushes, the 32 MiB of one apart. *)
LEMMA SameStep ==
  ASSUME PackingInv, NEW size \in Sizes, Question(size)
  PROVE  SamePacks'
<1> SUFFICES ASSUME ~early'
             PROVE  /\ scalarThrew' = streamThrew' \/ (scalarThrew' /\ overBudget')
                    /\ ~scalarThrew' => \/ sent' = packs' /\ pack' = current'
                                        \/ /\ sent' = Append(packs', current') /\ pack' = EmptyPack
                                           /\ Len(current'.refs) = BatchSize
  BY DEF SamePacks
<1>0. ~early /\ SamePacks /\ current \in Pack /\ scalarThrew \in BOOLEAN /\ streamThrew \in BOOLEAN
      /\ Evaluate(size) /\ Add(size) /\ ~(scalarThrew /\ streamThrew)
  BY DEF Question, PackingInv, TypeOK
<1>1. CASE scalarThrew
  <2>1. overBudget
    BY <1>0, <1>1 DEF SamePacks
  <2>2. scalarThrew' /\ overBudget'
    BY <1>0, <1>1, <2>1 DEF Evaluate, scalarVars
  <2> QED BY <2>2
<1>2. CASE ~scalarThrew
  <2> DEFINE cut == Full(current, size) /\ current.refs # <<>>
             p   == Fresh(cut, current)
             new == Put(p, Len(p.refs), size)
             ps  == IF cut THEN Append(packs, current) ELSE packs
             single == Full(current, size) /\ Overfull(p, Len(p.refs), size)
             cutS == Full(pack, size) /\ pack.refs # <<>>
             pS   == Fresh(cutS, pack)
             newS == Put(pS, Len(pS.refs), size)
             fS   == IF cutS THEN Append(sent, pack) ELSE sent
  <2>1. ~streamThrew /\ (\/ sent = packs /\ pack = current
                         \/ sent = Append(packs, current) /\ pack = EmptyPack /\ Len(current.refs) = BatchSize)
    BY <1>0, <1>2 DEF SamePacks
  <2>2. Len(current.refs) \in Nat
    BY <1>0, PackParts
  <2>3. \/ scalarThrew' = TRUE /\ overBudget' = ~single
        \/ ~single /\ UNCHANGED scalarThrew /\ packs' = ps /\ current' = new
    BY <1>0, <1>2 DEF Evaluate, NextId
  <2>4. \/ Overfull(pS, Len(pS.refs), size) /\ streamThrew' = TRUE
        \/ /\ ~Overfull(pS, Len(pS.refs), size) /\ UNCHANGED streamThrew
           /\ sent' = (IF FlushNow(newS) THEN Append(fS, newS) ELSE fS)
           /\ pack' = (IF FlushNow(newS) THEN EmptyPack ELSE newS)
    BY <1>0, <2>1 DEF Add, NextId
  <2>5. pS = p /\ fS = ps /\ (Overfull(p, Len(p.refs), size) => Full(current, size))
    <3>1. CASE sent = packs /\ pack = current
      <4>1. Overfull(p, Len(p.refs), size) => Full(current, size)
        BY DEF Fresh, Full
      <4> QED BY <3>1, <4>1
    <3>2. CASE sent = Append(packs, current) /\ pack = EmptyPack /\ Len(current.refs) = BatchSize
      <4>1. Full(current, size) /\ current.refs # <<>>
        <5>1. Len(current.refs) >= BatchSize
          BY <3>2, <2>2
        <5>2. current.refs # <<>>
          BY <3>2, Constants
        <5> QED BY <5>1, <5>2 DEF Full
      <4>2. ~cutS
        BY <3>2, EmptyPackOK
      <4>3. p = EmptyPack /\ pS = EmptyPack /\ fS = sent /\ ps = Append(packs, current)
        BY <3>2, <4>1, <4>2 DEF Fresh
      <4> QED BY <3>2, <4>1, <4>3
    <3> QED BY <2>1, <3>1, <3>2
  <2>6. newS = new
    BY <2>5
  <2> HIDE DEF cut, cutS, p, pS, new, newS, ps, fS
  <2>7. CASE scalarThrew' = TRUE /\ overBudget' = ~single
    BY <2>4, <2>5, <2>7
  <2>8. CASE ~single /\ UNCHANGED scalarThrew /\ packs' = ps /\ current' = new
    <3>1. ~Overfull(pS, Len(pS.refs), size)
      BY <2>5, <2>8
    <3>2. /\ UNCHANGED <<scalarThrew, streamThrew>>
          /\ sent' = (IF FlushNow(new) THEN Append(ps, new) ELSE ps)
          /\ pack' = (IF FlushNow(new) THEN EmptyPack ELSE new)
      BY <2>4, <2>5, <2>6, <2>8, <3>1
    <3>3. scalarThrew' = streamThrew'
      <4>1. scalarThrew = FALSE /\ streamThrew = FALSE
        BY <1>0, <1>2, <2>1
      <4> QED BY <3>2, <4>1
    <3>4. \/ sent' = packs' /\ pack' = current'
          \/ sent' = Append(packs', current') /\ pack' = EmptyPack /\ Len(current'.refs) = BatchSize
      <4>1. packs' = ps /\ current' = new
        BY <2>8
      <4>2. CASE FlushNow(new)
        BY <3>2, <4>1, <4>2 DEF FlushNow
      <4>3. CASE ~FlushNow(new)
        BY <3>2, <4>1, <4>3
      <4> QED BY <4>2, <4>3
    <3> QED BY <3>3, <3>4
  <2> QED BY <2>3, <2>7, <2>8
<1> QED BY <1>0, <1>1, <1>2

LEMMA StepInv == ASSUME PackingInv, [Next]_packingVars PROVE PackingInv'
<1>1. ASSUME NEW size \in Sizes, Question(size) PROVE PackingInv'
  <2>1. /\ asked' = Append(asked, size) /\ Evaluate(size) /\ Add(size) /\ UNCHANGED early
        /\ asked \in Seq(Nat) /\ size \in Nat
    BY <1>1, Constants DEF Question, PackingInv, TypeOK
  <2>2. asked' \in Seq(Nat) /\ Len(asked') = Len(asked) + 1
    BY <2>1
  <2>3. /\ packs' \in Seq(Pack) /\ current' \in Pack /\ packedBytes' \in 0 .. MaxTotal
         /\ scalarThrew' \in BOOLEAN /\ overBudget' \in BOOLEAN
        /\ AllPacks(packs', current') /\ Ordered(packs', current')
        /\ ~scalarThrew' => Last0(packs', Len(packs')) + Len(current'.refs) = Len(asked) + 1
    BY <2>1, EvaluateStep
  <2>4. /\ sent' \in Seq(Pack) /\ pack' \in Pack /\ streamThrew' \in BOOLEAN
        /\ AllPacks(sent', pack') /\ Ordered(sent', pack')
        /\ ~streamThrew' => Last0(sent', Len(sent')) + Len(pack'.refs) = Len(asked) + 1
    BY <2>1, AddStep
  <2>5. early' \in BOOLEAN
    BY <2>1 DEF PackingInv, TypeOK
  <2>6. TypeOK'
    BY <2>2, <2>3, <2>4, <2>5 DEF TypeOK, Pack
  <2>7. AllSendable'
    BY <2>3, <2>4 DEF AllSendable, AllPacks, Sendable
  <2>8. AskedInOrder'
    BY <2>2, <2>3, <2>4 DEF AskedInOrder, Ordered, Last0
  <2> QED
    BY <2>6, <2>7, <2>8, <1>1, SameStep DEF PackingInv
<1>2. ASSUME EmitFlush PROVE PackingInv'
  <2>1. /\ ~streamThrew /\ pack.refs # <<>> /\ sent' = Append(sent, pack) /\ pack' = EmptyPack
        /\ early' = TRUE
        /\ UNCHANGED <<asked, packs, current, packedBytes, scalarThrew, overBudget, streamThrew>>
    BY <1>2 DEF EmitFlush, scalarVars
  <2>2. /\ sent \in Seq(Pack) /\ pack \in Pack /\ AllPacks(sent, pack) /\ Ordered(sent, pack)
        /\ Last0(sent, Len(sent)) + Len(pack.refs) = Len(asked)
    BY <2>1 DEF PackingInv, TypeOK, AllSendable, AllPacks, AskedInOrder
  <2>3. sent' \in Seq(Pack) /\ \A i \in DOMAIN sent' : sent'[i] = pack \/ (i \in DOMAIN sent /\ sent'[i] = sent[i])
    BY <2>1, <2>2
  <2>4. AllPacks(sent', pack')
    BY <2>1, <2>2, <2>3, EmptyPackOK DEF AllPacks
  <2>5. Ordered(sent', pack') /\ Last0(sent', Len(sent')) + Len(pack'.refs) = Len(asked)
    BY <2>1, <2>2, OrderedCut
  <2>6. TypeOK'
    BY <2>1, <2>3, EmptyPackOK DEF PackingInv, TypeOK, Pack
  <2>7. AllSendable'
    BY <2>1, <2>4 DEF PackingInv, AllSendable, AllPacks, Sendable
  <2>8. AskedInOrder'
    BY <2>1, <2>5, ZenonT(40) DEF PackingInv, AskedInOrder, Ordered, Last0
  <2>9. SamePacks'
    BY <2>1 DEF SamePacks
  <2> QED
    BY <2>6, <2>7, <2>8, <2>9 DEF PackingInv
<1>3. ASSUME UNCHANGED packingVars PROVE PackingInv'
  BY <1>3 DEF packingVars, scalarVars, streamVars, PackingInv, TypeOK, AllSendable, Sendable, AskedInOrder,
              Ordered, Last0, SamePacks, Pack
<1> QED
  BY <1>1, <1>2, <1>3 DEF Next

LEMMA AlwaysPackingInv == Spec => []PackingInv
BY InitInv, StepInv, PTL DEF Spec

(* Every variable keeps its type; packedBytes never passes 32 MiB.         *)
THEOREM PackingTypeCorrect == Spec => []TypeOK
<1>1. PackingInv => TypeOK
  BY DEF PackingInv
<1> QED
  BY <1>1, AlwaysPackingInv, PTL

(***************************************************************************)
(* Every request of either packer is within the batch size and the byte    *)
(* bound, and its ids are positions: an entry made before a cut is made    *)
(* again after it, and what did not overfill the pack stays in the bound.  *)
(***************************************************************************)
THEOREM RequestsSendable == Spec => []AllSendable
<1>1. PackingInv => AllSendable
  BY DEF PackingInv
<1> QED
  BY <1>1, AlwaysPackingInv, PTL

(* Neither packer loses, repeats or reorders a question.                   *)
THEOREM QuestionsInOrder == Spec => []AskedInOrder
<1>1. PackingInv => AskedInOrder
  BY DEF PackingInv
<1> QED
  BY <1>1, AlwaysPackingInv, PTL

(* A stream that is not made to flush sends what a chunk would send, and   *)
(* throws for the question a chunk throws for; a chunk may also throw for  *)
(* its 32 MiB (jev_extension.cpp:1012-1040, jev_stream.hpp:197-218).       *)
THEOREM PackersAgree == Spec => []SamePacks
<1>1. PackingInv => SamePacks
  BY DEF PackingInv
<1> QED
  BY <1>1, AlwaysPackingInv, PTL

-----------------------------------------------------------------------------
(* The byte counts. *)

(* An entry, a pack's entries and the commas between them, of the          *)
(* questions a.                                                            *)
EntryIn(a, ref) == Entry(ref.id, a[ref.question])
(* The entries of a pack, by position. *)
EntriesIn(a, refs) == [i \in DOMAIN refs |-> EntryIn(a, refs[i])]
(* The commas between them. *)
Commas(refs) == IF refs = <<>> THEN 0 ELSE Len(refs) - 1

(* A pack's bytes are its payload's, and its questions have been asked.    *)
PaidIn(a, p) ==
  /\ \A i \in DOMAIN p.refs : p.refs[i].question \in DOMAIN a
  /\ p.bytes = PrefixBytes + SumFunction(EntriesIn(a, p.refs)) + Commas(p.refs)

(* All packs of one packer. *)
AllPaid(a, ps, p) == PaidIn(a, p) /\ \A i \in DOMAIN ps : PaidIn(a, ps[i])

(* What each closed pack takes, braces included. *)
Totals(ps) == [i \in DOMAIN ps |-> ps[i].bytes + 2]

(* The invariant of the byte counts, in which packedBytes is a sum of the  *)
(* packs' own counts.                                                      *)
PaidInv ==
  /\ AllPaid(asked, packs, current) /\ AllPaid(asked, sent, pack)
  /\ packedBytes = SumFunction(Totals(packs)) + current.bytes + 2

(* The lengths of entries are numbers. *)
LEMMA EntriesTyped ==
  ASSUME NEW a \in Seq(Nat), NEW p \in Pack, Sendable(p),
         \A i \in DOMAIN p.refs : p.refs[i].question \in DOMAIN a
  PROVE  EntriesIn(a, p.refs) \in [DOMAIN p.refs -> Nat]
<1> SUFFICES ASSUME NEW i \in DOMAIN p.refs PROVE EntryIn(a, p.refs[i]) \in Nat
  BY DEF EntriesIn
<1>1. a[p.refs[i].question] \in Nat
  OBVIOUS
<1>2. p.refs[i].id \in 0 .. BatchSize
  <2>1. p.refs[i].id = i - 1 /\ Len(p.refs) <= BatchSize
    BY DEF Sendable
  <2> QED BY <2>1, PackParts, Constants
<1>3. IdBytes[p.refs[i].id] \in Nat
  BY <1>2, Constants
<1> QED BY <1>1, <1>3 DEF EntryIn, Entry

(* What a pack is worth does not change when more is asked. *)
LEMMA PaidLater ==
  ASSUME NEW a \in Seq(Nat), NEW size \in Nat, NEW p, PaidIn(a, p)
  PROVE  PaidIn(Append(a, size), p)
<1>1. /\ DOMAIN Append(a, size) = 1 .. Len(a) + 1 /\ DOMAIN a = 1 .. Len(a) /\ Len(a) \in Nat
      /\ \A i \in DOMAIN a : Append(a, size)[i] = a[i]
  OBVIOUS
<1>2. \A i \in DOMAIN p.refs : p.refs[i].question \in DOMAIN a
  BY DEF PaidIn
<1>3. \A i \in DOMAIN p.refs : EntryIn(Append(a, size), p.refs[i]) = EntryIn(a, p.refs[i])
  BY <1>1, <1>2 DEF EntryIn
<1>4. EntriesIn(Append(a, size), p.refs) = EntriesIn(a, p.refs)
  BY <1>3 DEF EntriesIn
<1>5. \A i \in DOMAIN p.refs : p.refs[i].question \in DOMAIN Append(a, size)
  BY <1>1, <1>2
<1> QED BY <1>4, <1>5 DEF PaidIn

(* The same, of all packs. *)
LEMMA AllPaidLater ==
  ASSUME NEW a \in Seq(Nat), NEW size \in Nat, NEW ps, NEW p, AllPaid(a, ps, p)
  PROVE  AllPaid(Append(a, size), ps, p)
  BY PaidLater DEF AllPaid

(* An empty pack is its prefix. *)
LEMMA PaidEmpty == ASSUME NEW a PROVE PaidIn(a, EmptyPack) /\ EmptyPack.bytes = PrefixBytes
<1>1. EmptyPack.refs = <<>> /\ EmptyPack.bytes = PrefixBytes /\ DOMAIN EmptyPack.refs = {}
  BY DEF EmptyPack
<1>2. EntriesIn(a, EmptyPack.refs) \in [{} -> {0}]
  BY <1>1 DEF EntriesIn
<1>3. SumFunction(EntriesIn(a, EmptyPack.refs)) = 0
  BY <1>2, SumZero, FS_EmptySet
<1> QED BY <1>1, <1>3, Constants DEF PaidIn, Commas

(* Putting a question adds its entry, and a comma if it is not the first.  *)
LEMMA PaidPut ==
  ASSUME asked \in Seq(Nat), NEW p \in Pack, Sendable(p), PaidIn(asked, p), NEW size \in Sizes,
         Len(p.refs) < BatchSize
  PROVE  LET new == Put(p, Len(p.refs), size)
         IN  /\ PaidIn(Append(asked, size), new)
             /\ new.bytes = p.bytes + Comma(p) + Entry(Len(p.refs), size)
<1> DEFINE new == Put(p, Len(p.refs), size)
           a == Append(asked, size)
<1>1. PICK n, k, e : n = Len(p.refs) /\ k = Len(asked) + 1 /\ e = [question |-> k, id |-> n]
  OBVIOUS
<1>2. /\ new.refs = Append(p.refs, e) /\ new.bytes = p.bytes + Comma(p) + Entry(n, size)
      /\ e.question = k /\ e.id = n
  BY <1>1 DEF Put
<1>3. p.refs \in Seq(Ref) /\ n \in Nat /\ p.bytes \in Nat /\ DOMAIN p.refs = 1 .. n
  BY <1>1, PackParts
<1>4. size \in Nat /\ k \in Nat \ {0}
  BY <1>1, Constants
<1>5. a \in Seq(Nat) /\ a[k] = size /\ k \in DOMAIN a
  BY <1>1, <1>4
<1>6. e \in Ref
  BY <1>1, <1>3, <1>4 DEF Ref
<1>7. /\ DOMAIN new.refs = 1 .. n + 1 /\ new.refs[n + 1] = e /\ new.refs # <<>> /\ Len(new.refs) = n + 1
      /\ \A i \in 1 .. n : new.refs[i] = p.refs[i]
  <2>1. PICK s, t : s = p.refs /\ t = Append(s, e)
    OBVIOUS
  <2>2. s \in Seq(Ref)
    BY <1>3, <2>1
  <2>3. /\ t # <<>> /\ Len(t) = Len(s) + 1 /\ DOMAIN t = 1 .. Len(s) + 1
        /\ (\A i \in DOMAIN s : t[i] = s[i]) /\ t[Len(s) + 1] = e
    <3>1. /\ Append(s, e) # <<>> /\ Len(Append(s, e)) = Len(s) + 1
          /\ DOMAIN Append(s, e) = 1 .. Len(s) + 1
          /\ \A i \in DOMAIN s : Append(s, e)[i] = s[i]
          /\ Append(s, e)[Len(s) + 1] = e
      BY <1>6, <2>2, Appended, SMTT(40)
    <3> QED BY <2>1, <3>1, Zenon
  <2>4. t = new.refs /\ Len(s) = n /\ DOMAIN s = 1 .. n
    BY <1>1, <1>2, <1>3, <2>1
  <2> HIDE DEF new
  <2> QED BY <2>1, <2>3, <2>4
<1>8. PaidIn(a, p)
  BY <1>4, PaidLater
<1> HIDE DEF new, a
<1>9. \A i \in DOMAIN new.refs : new.refs[i].question \in DOMAIN a
  <2>1. \A i \in 1 .. n : p.refs[i].question \in DOMAIN a
    BY <1>3, <1>8 DEF PaidIn
  <2>2. \A i \in 1 .. n + 1 : i \in 1 .. n \/ i = n + 1
    BY <1>3
  <2> QED BY <1>2, <1>5, <1>7, <2>1, <2>2
<1>10. EntryIn(a, e) = Entry(n, size) /\ Entry(n, size) \in Nat
  <2>1. n \in 0 .. BatchSize
    BY <1>1, <1>3, Constants
  <2> QED BY <1>2, <1>4, <1>5, <2>1, Constants DEF EntryIn, Entry
<1> DEFINE w == EntriesIn(a, p.refs)
           v == EntriesIn(a, new.refs)
           D == 1 .. n
           E == 1 .. n + 1
<1>11. w \in [D -> Nat]
  BY <1>3, <1>5, <1>8, EntriesTyped DEF PaidIn
<1>12. v \in [E -> Nat] /\ v[n + 1] = Entry(n, size) /\ \A i \in D : v[i] = w[i]
  <2>1. \A i \in D : v[i] = w[i]
    BY <1>3, <1>7 DEF EntriesIn
  <2>2. v[n + 1] = Entry(n, size)
    BY <1>3, <1>7, <1>10 DEF EntriesIn
  <2>3. DOMAIN v = E /\ v = [i \in E |-> v[i]]
    BY <1>7 DEF EntriesIn
  <2>4. \A i \in E : v[i] \in Nat
    <3>1. \A i \in E : i \in D \/ i = n + 1
      BY <1>3
    <3> QED BY <1>10, <1>11, <2>1, <2>2, <3>1
  <2> HIDE DEF v
  <2> QED BY <2>1, <2>2, <2>3, <2>4
<1>14. SumFunction(v) = SumFunction(w) + Entry(n, size) /\ SumFunction(w) \in Nat
  <2> HIDE DEF v, w
  <2>1. SumFunction(v) = SumFunction(w) + v[n + 1] /\ SumFunction(w) \in Nat
    BY <1>3, <1>11, <1>12, SumAppend
  <2> QED BY <2>1, <1>12
<1>15. Commas(new.refs) = Commas(p.refs) + Comma(p) /\ Commas(p.refs) \in Nat /\ Comma(p) \in Nat
  <2>1. CASE p.refs = <<>>
    <3>1. n = 0
      BY <2>1, <1>1
    <3> QED BY <2>1, <3>1, <1>7 DEF Commas, Comma
  <2>2. CASE p.refs # <<>>
    <3>1. n # 0
      BY <2>2, <1>3, <1>1
    <3> QED BY <2>2, <3>1, <1>1, <1>3, <1>7 DEF Commas, Comma
  <2> QED BY <2>1, <2>2
<1>16. p.bytes = PrefixBytes + SumFunction(w) + Commas(p.refs)
  BY <1>8 DEF PaidIn
<1>17. new.bytes = PrefixBytes + SumFunction(v) + Commas(new.refs)
  <2> HIDE DEF v, w
  <2> QED BY <1>2, <1>10, <1>14, <1>15, <1>16, Constants
<1>18. PaidIn(a, new)
  BY <1>9, <1>17 DEF PaidIn
<1> QED BY <1>1, <1>2, <1>18 DEF new, a

(* Closing a pack adds its bytes and its braces. *)
LEMMA TotalsAppend ==
  ASSUME NEW ps \in Seq(Pack), NEW p \in Pack
  PROVE  /\ SumFunction(Totals(Append(ps, p))) = SumFunction(Totals(ps)) + (p.bytes + 2)
         /\ SumFunction(Totals(ps)) \in Nat
<1>1. PICK n : n = Len(ps)
  OBVIOUS
<1> DEFINE qs == Append(ps, p)
           w == Totals(ps)
           v == Totals(qs)
<1>2. /\ n \in Nat /\ DOMAIN ps = 1 .. n /\ DOMAIN qs = 1 .. n + 1 /\ qs[n + 1] = p
      /\ \A i \in 1 .. n : qs[i] = ps[i] /\ ps[i] \in Pack
  BY <1>1
<1> HIDE DEF qs
<1>3. w \in [1 .. n -> Nat]
  BY <1>2, PackParts DEF Totals
<1>4. v \in [1 .. n + 1 -> Nat] /\ v[n + 1] = p.bytes + 2 /\ \A i \in 1 .. n : v[i] = w[i]
  <2>1. \A i \in 1 .. n + 1 : qs[i] \in Pack
    BY <1>2
  <2>2. \A i \in 1 .. n + 1 : qs[i].bytes \in Nat
    BY <2>1, PackParts
  <2>3. n + 1 \in 1 .. n + 1 /\ \A i \in 1 .. n : i \in 1 .. n + 1
    BY <1>2
  <2> QED BY <1>2, <2>2, <2>3 DEF Totals
<1> HIDE DEF v, w
<1>5. SumFunction(v) = SumFunction(w) + v[n + 1] /\ SumFunction(w) \in Nat
  BY <1>2, <1>3, <1>4, SumAppend
<1> QED BY <1>4, <1>5 DEF v, w, qs

(* A pack is closed as it is. *)
LEMMA AppendPaid ==
  ASSUME NEW a, NEW ps \in Seq(Pack), NEW p \in Pack, NEW q, AllPaid(a, ps, p), PaidIn(a, q)
  PROVE  AllPaid(a, Append(ps, p), q)
<1>1. \A i \in DOMAIN Append(ps, p) : Append(ps, p)[i] = p \/ (i \in DOMAIN ps /\ Append(ps, p)[i] = ps[i])
  OBVIOUS
<1> QED BY <1>1 DEF AllPaid

(* What one packer does of a question, for either of them. *)
LEMMA CutPaid ==
  ASSUME asked \in Seq(Nat), NEW closed \in Seq(Pack), NEW open \in Pack, AllPacks(closed, open),
         AllPaid(asked, closed, open), NEW size \in Sizes, NEW cut \in BOOLEAN,
         Len(Fresh(cut, open).refs) < BatchSize
  PROVE  LET p   == Fresh(cut, open)
             new == Put(p, NextId(open, p), size)
             cs  == IF cut THEN Append(closed, open) ELSE closed
         IN  /\ AllPaid(Append(asked, size), cs, new)
             /\ AllPaid(Append(asked, size), cs, p)
             /\ new.bytes = p.bytes + Comma(p) + Entry(NextId(open, p), size)
<1> DEFINE p   == Fresh(cut, open)
           new == Put(p, NextId(open, p), size)
           cs  == IF cut THEN Append(closed, open) ELSE closed
           a   == Append(asked, size)
<1>1. p \in Pack /\ Sendable(p) /\ PaidIn(asked, p) /\ NextId(open, p) = Len(p.refs) /\ size \in Nat
  BY EmptyPackOK, PaidEmpty, Constants DEF Fresh, NextId, AllPacks, AllPaid
<1>2. PaidIn(a, new) /\ new.bytes = p.bytes + Comma(p) + Entry(NextId(open, p), size)
  <2> HIDE DEF p
  <2> QED BY <1>1, PaidPut DEF p
<1>3. AllPaid(a, closed, open) /\ PaidIn(a, p)
  BY <1>1, AllPaidLater, PaidLater
<1>4. AllPaid(a, cs, new) /\ AllPaid(a, cs, p)
  <2>1. CASE cut
    BY <1>2, <1>3, <2>1, AppendPaid
  <2>2. CASE ~cut
    <3>1. cs = closed
      BY <2>2
    <3> HIDE DEF cs, new, p, a
    <3> QED BY <1>2, <1>3, <3>1 DEF AllPaid
  <2> QED BY <2>1, <2>2
<1> QED BY <1>2, <1>4

(* Evaluate's question (jev_extension.cpp:1012-1040). *)
LEMMA EvaluatePaid ==
  ASSUME PackingInv, PaidInv, NEW size \in Sizes, Evaluate(size), asked' = Append(asked, size)
  PROVE  AllPaid(asked', packs', current') /\ packedBytes' = SumFunction(Totals(packs')) + current'.bytes + 2
<1> DEFINE cut   == Full(current, size) /\ current.refs # <<>>
           p     == Fresh(cut, current)
           id    == NextId(current, p)
           new   == Put(p, id, size)
           total == packedBytes + (IF cut THEN NewPackBytes ELSE 0) + Entry(id, size) + Comma(p)
<1>1. /\ asked \in Seq(Nat) /\ packs \in Seq(Pack) /\ current \in Pack /\ packedBytes \in Nat /\ size \in Nat
      /\ AllPacks(packs, current) /\ AllPaid(asked, packs, current)
      /\ packedBytes = SumFunction(Totals(packs)) + current.bytes + 2
  BY Constants DEF PackingInv, TypeOK, AllSendable, AllPacks, PaidInv
<1>2. CASE UNCHANGED <<packs, current, packedBytes>>
  BY <1>1, <1>2, AllPaidLater
<1>3. CASE /\ ~(Full(current, size) /\ Overfull(p, id, size))
           /\ packs' = (IF cut THEN Append(packs, current) ELSE packs)
           /\ current' = new
           /\ packedBytes' = total
  <2>1. Len(p.refs) < BatchSize /\ p \in Pack
    <3>1. CASE cut
      BY <3>1, EmptyPackOK, Constants DEF Fresh
    <3>2. CASE ~cut
      <4>1. p = current
        BY <3>2 DEF Fresh
      <4>2. current.refs = <<>> \/ ~Full(current, size)
        BY <3>2
      <4>3. ~Full(current, size) => Len(current.refs) < BatchSize
        BY <1>1, PackParts, Constants DEF Full
      <4>4. current.refs = <<>> => Len(current.refs) < BatchSize
        BY Constants
      <4> QED BY <1>1, <4>1, <4>2, <4>3, <4>4
    <3> QED BY <3>1, <3>2
  <2>2. /\ AllPaid(asked', packs', current')
        /\ current'.bytes = p.bytes + Comma(p) + Entry(id, size)
    <3>1. cut \in BOOLEAN
      OBVIOUS
    <3> HIDE DEF cut
    <3> QED BY <1>1, <1>3, <2>1, <3>1, CutPaid
  <2>3. Entry(id, size) \in Nat /\ Comma(p) \in Nat /\ p.bytes \in Nat /\ current.bytes \in Nat
    <3>1. id \in 0 .. BatchSize
      <4> HIDE DEF p
      <4> QED BY <2>1, PackParts, Constants DEF NextId
    <3> HIDE DEF id, p
    <3> QED BY <1>1, <2>1, <3>1, PackParts, Constants DEF Entry, Comma
  <2>4. CASE cut
    <3>1. p.bytes = PrefixBytes /\ PrefixBytes \in Nat
      BY <2>4, PaidEmpty, Constants DEF Fresh
    <3>2. /\ SumFunction(Totals(packs')) = SumFunction(Totals(packs)) + (current.bytes + 2)
          /\ SumFunction(Totals(packs)) \in Nat
      BY <1>1, <1>3, <2>4, TotalsAppend
    <3>3. packedBytes' = packedBytes + (PrefixBytes + 2) + Entry(id, size) + Comma(p)
      BY <1>3, <2>4 DEF NewPackBytes
    <3>4. packedBytes' = SumFunction(Totals(packs')) + current'.bytes + 2
      <4> HIDE DEF p, id, cut, new
      <4>1. PICK old, s, b, e, c, x : /\ old = packedBytes /\ s = SumFunction(Totals(packs)) /\ b = current.bytes
                                      /\ e = Entry(id, size) /\ c = Comma(p) /\ x = PrefixBytes
        OBVIOUS
      <4>2. {s, b, e, c, x} \subseteq Nat /\ old = s + b + 2
        BY <1>1, <2>3, <3>1, <3>2, <4>1
      <4>3. /\ packedBytes' = old + (x + 2) + e + c
            /\ SumFunction(Totals(packs')) = s + (b + 2) /\ current'.bytes = x + c + e
        BY <2>2, <3>1, <3>2, <3>3, <4>1, Zenon
      <4> QED BY <4>2, <4>3
    <3> QED BY <2>2, <3>4
  <2>5. CASE ~cut
    <3>1. p = current /\ packs' = packs /\ packedBytes' = packedBytes + 0 + Entry(id, size) + Comma(p)
      BY <1>3, <2>5 DEF Fresh
    <3>2. SumFunction(Totals(packs)) \in Nat
      BY <1>1, TotalsAppend
    <3>3. packedBytes' = SumFunction(Totals(packs')) + current'.bytes + 2
      <4> HIDE DEF p, id, cut, new
      <4>1. PICK old, s, b, e, c : /\ old = packedBytes /\ s = SumFunction(Totals(packs)) /\ b = current.bytes
                                   /\ e = Entry(id, size) /\ c = Comma(p)
        OBVIOUS
      <4>2. {s, b, e, c} \subseteq Nat /\ old = s + b + 2
        BY <1>1, <2>3, <3>2, <4>1
      <4>3. /\ packedBytes' = old + 0 + e + c
            /\ SumFunction(Totals(packs')) = s /\ current'.bytes = b + c + e
        BY <2>2, <3>1, <4>1, Zenon
      <4> QED BY <4>2, <4>3
    <3> QED BY <2>2, <3>3
  <2> QED BY <2>4, <2>5
<1> QED BY <1>2, <1>3 DEF Evaluate, scalarVars

(* Add's question (jev_stream.hpp:197-218). *)
LEMMA AddPaid ==
  ASSUME PackingInv, PaidInv, NEW size \in Sizes, Add(size), asked' = Append(asked, size)
  PROVE  AllPaid(asked', sent', pack')
<1> DEFINE cut     == Full(pack, size) /\ pack.refs # <<>>
           p       == Fresh(cut, pack)
           id      == NextId(pack, p)
           new     == Put(p, id, size)
           flushed == IF cut THEN Append(sent, pack) ELSE sent
<1>1. /\ asked \in Seq(Nat) /\ sent \in Seq(Pack) /\ pack \in Pack /\ size \in Nat
      /\ AllPacks(sent, pack) /\ AllPaid(asked, sent, pack)
  BY Constants DEF PackingInv, TypeOK, AllSendable, AllPacks, PaidInv
<1>2. CASE UNCHANGED streamVars
  BY <1>1, <1>2, AllPaidLater DEF streamVars
<1>3. CASE sent' = flushed /\ pack' = p
  <2>1. CASE cut
    <3>1. AllPaid(asked', sent, pack) /\ PaidIn(asked', EmptyPack)
      BY <1>1, AllPaidLater, PaidEmpty
    <3> QED BY <1>1, <1>3, <2>1, <3>1, AppendPaid DEF Fresh
  <2>2. CASE ~cut
    BY <1>1, <1>3, <2>2, AllPaidLater DEF Fresh
  <2> QED BY <2>1, <2>2
<1>4. CASE /\ ~Overfull(p, id, size)
           /\ sent' = (IF FlushNow(new) THEN Append(flushed, new) ELSE flushed)
           /\ pack' = (IF FlushNow(new) THEN EmptyPack ELSE new)
  <2>1. Len(p.refs) < BatchSize /\ p \in Pack
    <3>1. CASE cut
      BY <3>1, EmptyPackOK, Constants DEF Fresh
    <3>2. CASE ~cut
      <4>1. p = pack
        BY <3>2 DEF Fresh
      <4>2. pack.refs = <<>> \/ ~Full(pack, size)
        BY <3>2
      <4>3. ~Full(pack, size) => Len(pack.refs) < BatchSize
        BY <1>1, PackParts, Constants DEF Full
      <4>4. pack.refs = <<>> => Len(pack.refs) < BatchSize
        BY Constants
      <4> QED BY <1>1, <4>1, <4>2, <4>3, <4>4
    <3> QED BY <3>1, <3>2
  <2>2. AllPaid(asked', flushed, new)
    <3>1. cut \in BOOLEAN
      OBVIOUS
    <3> HIDE DEF cut
    <3> QED BY <1>1, <2>1, <3>1, CutPaid
  <2>3. flushed \in Seq(Pack) /\ new \in Pack
    <3>1. flushed \in Seq(Pack)
      BY <1>1
    <3>2. p \in Pack /\ Sendable(p) /\ id = Len(p.refs)
      BY <1>1, <2>1, EmptyPackOK DEF Fresh, AllPacks, NextId
    <3>3. ~Overfull(p, Len(p.refs), size)
      BY <1>4, <3>2
    <3>4. new \in Pack
      <4> HIDE DEF p
      <4> QED BY <1>1, <2>1, <3>2, <3>3, PutOK
    <3> QED BY <3>1, <3>4
  <2> HIDE DEF flushed, new
  <2>4. CASE FlushNow(new)
    BY <1>4, <2>2, <2>3, <2>4, AppendPaid, PaidEmpty
  <2>5. CASE ~FlushNow(new)
    BY <1>4, <2>2, <2>5
  <2> QED BY <2>4, <2>5
<1> QED BY <1>2, <1>3, <1>4 DEF Add

(* The packs are empty at first, and one is paid for. *)
LEMMA PaidInit == Init => PaidInv
<1> SUFFICES ASSUME Init PROVE PaidInv
  OBVIOUS
<1>1. packs = <<>> /\ sent = <<>> /\ current = EmptyPack /\ pack = EmptyPack /\ packedBytes = PrefixBytes + 2
  BY DEF Init
<1>2. DOMAIN <<>> = {}
  OBVIOUS
<1>3. Totals(<<>>) \in [{} -> {0}]
  BY DEF Totals
<1>4. SumFunction(Totals(packs)) = 0
  BY <1>1, <1>3, SumZero, FS_EmptySet
<1>5. AllPaid(asked, packs, current) /\ AllPaid(asked, sent, pack)
  BY <1>1, <1>2, PaidEmpty DEF AllPaid
<1> QED BY <1>1, <1>4, <1>5, PaidEmpty, Constants DEF PaidInv

(* Every step keeps the counts. *)
LEMMA PaidStep == ASSUME PackingInv, PaidInv, [Next]_packingVars PROVE PaidInv'
<1>1. ASSUME NEW size \in Sizes, Question(size) PROVE PaidInv'
  <2>1. asked' = Append(asked, size) /\ Evaluate(size) /\ Add(size)
    BY <1>1 DEF Question
  <2> QED BY <2>1, EvaluatePaid, AddPaid DEF PaidInv
<1>2. ASSUME EmitFlush PROVE PaidInv'
  <2>1. /\ sent' = Append(sent, pack) /\ pack' = EmptyPack
        /\ UNCHANGED <<asked, packs, current, packedBytes>>
    BY <1>2 DEF EmitFlush, scalarVars
  <2>2. sent \in Seq(Pack) /\ pack \in Pack
    BY DEF PackingInv, TypeOK
  <2>3. AllPaid(asked, sent', pack')
    BY <2>1, <2>2, AppendPaid, PaidEmpty DEF PaidInv
  <2> QED BY <2>1, <2>3 DEF PaidInv
<1>3. ASSUME UNCHANGED packingVars PROVE PaidInv'
  BY <1>3 DEF packingVars, scalarVars, streamVars, PaidInv
<1> QED BY <1>1, <1>2, <1>3 DEF Next

(* A pack that is paid has its payload's bytes. *)
LEMMA PaidIsPayload ==
  ASSUME NEW p, PaidIn(asked, p)
  PROVE  p.bytes = Payload(p)
  BY DEF PaidIn, Payload, Entries, EntriesIn, EntryIn, Commas

(* The two sums are those of BytesExact. *)
LEMMA PaidExact == ASSUME PackingInv, PaidInv PROVE BytesExact
<1>1. packs \in Seq(Pack) /\ sent \in Seq(Pack) /\ current \in Pack
  BY DEF PackingInv, TypeOK
<1>2. \A p \in ToSet(packs) \cup ToSet(sent) \cup {current, pack} : PaidIn(asked, p)
  BY DEF ToSet, PaidInv, AllPaid
<1>3. \A p \in ToSet(packs) \cup ToSet(sent) \cup {current, pack} : p.bytes = Payload(p)
  BY <1>2, PaidIsPayload
<1>4. \A i \in DOMAIN Append(packs, current) : Append(packs, current)[i] \in ToSet(packs) \cup {current}
  BY <1>1 DEF ToSet
<1>5. Closed(Append(packs, current)) = Totals(Append(packs, current))
  BY <1>3, <1>4 DEF Closed, Totals
<1>6. packedBytes = SumFunction(Closed(Append(packs, current)))
  <2>1. packedBytes = SumFunction(Totals(packs)) + current.bytes + 2
    BY DEF PaidInv
  <2>2. current.bytes \in Nat
    BY <1>1, PackParts
  <2>3. /\ SumFunction(Totals(Append(packs, current))) = SumFunction(Totals(packs)) + (current.bytes + 2)
        /\ SumFunction(Totals(packs)) \in Nat
    BY <1>1, TotalsAppend
  <2> QED BY <1>5, <2>1, <2>2, <2>3
<1> QED BY <1>3, <1>6 DEF BytesExact

(***************************************************************************)
(* Each pack's byte count is the length of the payload it will be sent as, *)
(* and packedBytes, which is held against 32 MiB, the length of all of     *)
(* Evaluate's payloads, wherever the cuts fall (jev_extension.cpp:1001,    *)
(* 1025, 1031; jev_stream.hpp:197-216).                                    *)
(***************************************************************************)
THEOREM BytesCounted == Spec => []BytesExact
<1>1. Init => PackingInv /\ PaidInv
  BY InitInv, PaidInit
<1>2. (PackingInv /\ PaidInv) /\ [Next]_packingVars => (PackingInv /\ PaidInv)'
  BY StepInv, PaidStep
<1>3. PackingInv /\ PaidInv => BytesExact
  BY PaidExact
<1> QED BY <1>1, <1>2, <1>3, PTL DEF Spec
================================================================================
