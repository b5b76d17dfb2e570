-------------------------------- MODULE Packing --------------------------------
(***************************************************************************)
(* How questions are cut into requests, twice in the code: Evaluate        *)
(* (src/jev_extension.cpp:991-1044) packs a chunk's questions and closes   *)
(* the pack a question does not fit in; StreamState::Add                   *)
(* (src/jev_stream.hpp:197-218) closes a pack as soon as it is full, and a *)
(* blocking Emit may close it at any time.  Both are given the same        *)
(* questions here.                                                         *)
(*                                                                         *)
(* A payload is its length.  An entry is the id of its position in the     *)
(* pack ("q0", "q1", ...), whose length grows with the position, and the   *)
(* encoded question.                                                       *)
(***************************************************************************)
EXTENDS Integers, SequencesExt

CONSTANTS
  Sizes,          \* lengths of encoded questions
  IdBytes,        \* by position: the length of its id, quotes and colon included
  PrefixBytes,    \* length of the payload's beginning
  BatchSize,      \* jev_batch_size
  Bytes,          \* jev_max_request_bytes
  MaxTotal,       \* 32 MiB
  MaxQuestions    \* bounds the model, not the code

ASSUME PackingAssumption ==
  /\ Sizes \subseteq Nat
  /\ IdBytes \in [0 .. BatchSize -> Nat]
  /\ BatchSize \in Nat \ {0}
  /\ {PrefixBytes, Bytes, MaxTotal, MaxQuestions} \subseteq Nat
  /\ PrefixBytes + 2 <= MaxTotal

VARIABLES
  asked,                  \* the lengths of the questions so far
  packs, current,         \* Evaluate: the packs closed, the open one
  packedBytes,
  sent, pack,             \* StreamState: the packs flushed, the open one
  scalarThrew, streamThrew,
  overBudget,             \* history: it was for the 32 MiB that Evaluate threw
  early                   \* history: Emit has flushed a pack that was not full

scalarVars  == <<packs, current, packedBytes, scalarThrew, overBudget>>
streamVars  == <<sent, pack, streamThrew>>
packingVars == <<asked, scalarVars, streamVars, early>>

EmptyPack == [refs |-> <<>>, bytes |-> PrefixBytes]

Comma(p) == IF p.refs = <<>> THEN 0 ELSE 1
Entry(id, size) == IdBytes[id] + size

Overfull(p, id, size) == p.bytes + Entry(id, size) + Comma(p) + 2 > Bytes

Full(p, size) == Len(p.refs) >= BatchSize \/ Overfull(p, Len(p.refs), size)

(* The entry is made before the cut and again after it. *)
(* mutant: the entry made before is kept *)
EntryBeforeCut(before, p) == Len(before.refs)

NextId(before, p) == Len(p.refs)

Put(p, id, size) ==
  [refs  |-> Append(p.refs, [question |-> Len(asked) + 1, id |-> id]),
   bytes |-> p.bytes + Comma(p) + Entry(id, size)]

Fresh(cut, p) == IF cut THEN EmptyPack ELSE p

(* mutant: the braces that close a pack are not counted *)
BracesUncounted == PrefixBytes

NewPackBytes == PrefixBytes + 2

TooMuch(total) == total > MaxTotal

Evaluate(size) ==
  LET cut   == Full(current, size) /\ current.refs # <<>>
      p     == Fresh(cut, current)
      id    == NextId(current, p)
      total == packedBytes + (IF cut THEN NewPackBytes ELSE 0) + Entry(id, size) + Comma(p)
      single == Full(current, size) /\ Overfull(p, id, size)
  IN  IF scalarThrew THEN UNCHANGED scalarVars
      ELSE IF single \/ TooMuch(total)
        THEN /\ scalarThrew' = TRUE /\ overBudget' = ~single
             /\ UNCHANGED <<packs, current, packedBytes>>
        ELSE /\ packs' = IF cut THEN Append(packs, current) ELSE packs
             /\ current' = Put(p, id, size)
             /\ packedBytes' = total
             /\ UNCHANGED <<scalarThrew, overBudget>>

(* mutant: a pack is flushed one question early *)
FlushSoon(p) == Len(p.refs) + 1 >= BatchSize

FlushNow(p) == Len(p.refs) = BatchSize

Add(size) ==
  LET cut     == Full(pack, size) /\ pack.refs # <<>>
      p       == Fresh(cut, pack)
      id      == NextId(pack, p)
      new     == Put(p, id, size)
      flushed == IF cut THEN Append(sent, pack) ELSE sent
  IN  IF streamThrew THEN UNCHANGED streamVars
      ELSE IF Overfull(p, id, size)
        THEN streamThrew' = TRUE /\ sent' = flushed /\ pack' = p
        ELSE /\ sent' = IF FlushNow(new) THEN Append(flushed, new) ELSE flushed
             /\ pack' = IF FlushNow(new) THEN EmptyPack ELSE new
             /\ UNCHANGED streamThrew

Question(size) ==
  /\ Len(asked) < MaxQuestions /\ ~(scalarThrew /\ streamThrew)
  /\ asked' = Append(asked, size)
  /\ Evaluate(size) /\ Add(size)
  /\ UNCHANGED early

(* A blocking Emit flushes before it waits.  (Evaluate closes its last pack *)
(* as it is, when the questions are over.)                                  *)
EmitFlush ==
  /\ ~streamThrew /\ pack.refs # <<>>
  /\ sent' = Append(sent, pack)
  /\ pack' = EmptyPack
  /\ early' = TRUE
  /\ UNCHANGED <<asked, scalarVars, streamThrew>>

Init ==
  /\ asked = <<>>
  /\ packs = <<>> /\ current = EmptyPack /\ packedBytes = PrefixBytes + 2
  /\ sent = <<>> /\ pack = EmptyPack
  /\ scalarThrew = FALSE /\ streamThrew = FALSE /\ overBudget = FALSE /\ early = FALSE

Next == (\E size \in Sizes : Question(size)) \/ EmitFlush

Spec == Init /\ [][Next]_packingVars

-----------------------------------------------------------------------------
(* Properties *)

Pack == [refs : Seq([question : Nat \ {0}, id : Nat]), bytes : Nat]

(* Type invariant. *)
TypeOK ==
  /\ asked \in Seq(Nat)
  /\ packs \in Seq(Pack) /\ current \in Pack /\ packedBytes \in 0 .. MaxTotal
  /\ sent \in Seq(Pack) /\ pack \in Pack
  /\ scalarThrew \in BOOLEAN /\ streamThrew \in BOOLEAN
  /\ overBudget \in BOOLEAN /\ early \in BOOLEAN

(***************************************************************************)
(* A request is within jev_max_request_bytes and jev_batch_size, closing   *)
(* braces included, and the ids in it are the positions by which the       *)
(* answers are matched (jev_extension.cpp:1012-1030, 1065;                 *)
(* jev_stream.hpp:197-216, 113), wherever the cuts fall.                   *)
(***************************************************************************)
Sendable(p) ==
  /\ Len(p.refs) <= BatchSize
  /\ p.refs # <<>> => p.bytes + 2 <= Bytes
  /\ \A i \in DOMAIN p.refs : p.refs[i].id = i - 1

AllSendable ==
  /\ Sendable(current) /\ Sendable(pack)
  /\ \A i \in DOMAIN packs : packs[i].refs # <<>> /\ Sendable(packs[i])
  /\ \A i \in DOMAIN sent : sent[i].refs # <<>> /\ Sendable(sent[i])

(***************************************************************************)
(* The byte counts are the sums they stand for: each payload is its        *)
(* prefix, its entries and the commas between them; packedBytes, which is  *)
(* held against 32 MiB, is what all the payloads take when closed          *)
(* (jev_extension.cpp:1001, 1025, 1031).                                   *)
(***************************************************************************)
Entries(p) == [i \in DOMAIN p.refs |-> Entry(p.refs[i].id, asked[p.refs[i].question])]
Payload(p) == PrefixBytes + SumFunction(Entries(p))
              + (IF p.refs = <<>> THEN 0 ELSE Len(p.refs) - 1)
Closed(ps) == [i \in DOMAIN ps |-> Payload(ps[i]) + 2]
BytesExact ==
  /\ \A p \in ToSet(packs) \cup ToSet(sent) \cup {current, pack} : p.bytes = Payload(p)
  /\ packedBytes = SumFunction(Closed(Append(packs, current)))

(***************************************************************************)
(* No question is lost, repeated or out of order, up to the one that threw.*)
(***************************************************************************)
Last0(ps, i) == IF i = 0 THEN 0 ELSE ps[i].refs[Len(ps[i].refs)].question
Ordered(closed, open) ==
  /\ \A i \in DOMAIN closed : \A j \in DOMAIN closed[i].refs :
       closed[i].refs[j].question = Last0(closed, i - 1) + j
  /\ \A j \in DOMAIN open.refs : open.refs[j].question = Last0(closed, Len(closed)) + j
AskedInOrder ==
  /\ Ordered(packs, current)
  /\ ~scalarThrew => Last0(packs, Len(packs)) + Len(current.refs) = Len(asked)
  /\ Ordered(sent, pack)
  /\ ~streamThrew => Last0(sent, Len(sent)) + Len(pack.refs) = Len(asked)

(***************************************************************************)
(* A stream makes the requests the scalar function makes of the same       *)
(* questions, until Emit flushes, although it decides earlier: it sends a  *)
(* pack that is full before it knows the next question                     *)
(* (jev_stream.hpp:217, jev_extension.cpp:1017).  And both throw at the    *)
(* same question, for its length, or neither does; the scalar's 32 MiB for *)
(* a chunk apart, which a stream does not have.                            *)
(***************************************************************************)
SamePacks ==
  ~early =>
    /\ scalarThrew = streamThrew \/ (scalarThrew /\ overBudget)
    /\ ~scalarThrew => \/ sent = packs /\ pack = current
                       \/ /\ sent = Append(packs, current) /\ pack = EmptyPack
                          /\ Len(current.refs) = BatchSize
================================================================================
