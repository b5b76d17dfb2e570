---------------------------- MODULE JevQueryProofs -----------------------------
(***************************************************************************)
(* Theorems of QueryState, then of JevQuery: what the operations of the    *)
(* shared state keep, in whatever order threads call them, and that the    *)
(* evaluators and streams of a query use them as specified, so that what   *)
(* is proved of QueryState holds of every query.                           *)
(***************************************************************************)
EXTENDS JevQuery, SumTheorems, FiniteSetTheorems, SequenceTheorems, TLAPS

-----------------------------------------------------------------------------
(* Lemmas about the helpers. *)

LEMMA SizeTType == ASSUME NEW m \in Nat, NEW n \in Nat, n < SizeMax
                   PROVE  SizeT(m - n) \in Nat
  BY ConstantsAssumption DEF SizeT

LEMMA SubSeqType ==
  ASSUME NEW s \in Seq(Keys), NEW m \in Nat \ {0}, NEW n \in Int, n <= Len(s)
  PROVE  SubSeq(s, m, n) \in Seq(Keys)
<1>1. \A j \in m .. n : s[j] \in Keys
  OBVIOUS
<1> QED  BY <1>1, SubSeqProperties

(* Taking an element out of a sequence leaves a sequence of the same kind. *)
LEMMA WithoutType == ASSUME NEW s \in Seq(Keys), NEW k PROVE Without(s, k) \in Seq(Keys)
<1>1. CASE \E i \in DOMAIN s : s[i] = k
  <2> DEFINE i == CHOOSE i \in DOMAIN s : s[i] = k
  <2>1. i \in 1 .. Len(s)  BY <1>1
  <2> HIDE DEF i
  <2>2. SubSeq(s, 1, i - 1) \in Seq(Keys)  BY <2>1, SubSeqType
  <2>3. SubSeq(s, i + 1, Len(s)) \in Seq(Keys)  BY <2>1, SubSeqType
  <2>4. Without(s, k) = SubSeq(s, 1, i - 1) \o SubSeq(s, i + 1, Len(s))
    BY <1>1 DEF Without, i
  <2> QED  BY <2>2, <2>3, <2>4
<1>2. CASE ~ \E i \in DOMAIN s : s[i] = k
  BY <1>2 DEF Without
<1> QED  BY <1>1, <1>2

LEMMA ToFrontType == ASSUME NEW s \in Seq(Keys), NEW k \in Keys PROVE ToFront(s, k) \in Seq(Keys)
  BY WithoutType DEF ToFront

-----------------------------------------------------------------------------
(* Type correctness. *)
LEMMA TypeInit == Init => TypeOK
  BY DEF Init, TypeOK, ClaimPc

LEMMA AddAnswerType ==
  ASSUME TypeOK, NEW k \in Keys, NEW a \in Answer, AddAnswer(k, a)
  PROVE  bytes' \in Nat /\ answers' \in [Keys -> Answer \cup {None}]
<1>1. KeySize[k] \in Nat /\ a.size \in Nat
  BY ConstantsAssumption DEF Answer
<1> QED  BY <1>1 DEF AddAnswer, TypeOK

(* What DropExpired does to the session. *)
LEMMA DropExpiredType ==
  ASSUME TypeOK, NEW k \in Keys, DropExpired(k)
  PROVE  /\ session' \in [Keys -> Entry \cup {None}]
         /\ lru' \in Seq(Keys) /\ recent' \in Seq(Keys)
  BY WithoutType DEF DropExpired, TypeOK, sessionVars

LEMMA StoreSessionType ==
  ASSUME TypeOK, NEW k \in Keys, NEW a \in Answer, StoreSession(k, a)
  PROVE  /\ session' \in [Keys -> Entry \cup {None}]
         /\ lru' \in Seq(Keys) /\ recent' \in Seq(Keys)
<1>1. CASE session_budget = 0 \/ EntrySize(k, a) > session_budget
  BY <1>1 DEF StoreSession, TypeOK, sessionVars
<1>2. CASE ~(session_budget = 0 \/ EntrySize(k, a) > session_budget)
  <2> DEFINE rest == Without(lru, k)
  <2>1. PICK n \in 0 .. Len(rest) :
          /\ session' = [j \in Keys |->
               IF j = k THEN [answer |-> a, expires |-> now + session_ttl,
                              bytes |-> EntrySize(k, a)]
               ELSE IF j \in Erased(k, rest, n) THEN None ELSE session[j]]
          /\ lru' = <<k>> \o SubSeq(rest, 1, Len(rest) - n)
          /\ recent' = ToFront(recent, k)
    BY <1>2 DEF StoreSession
  <2>2. rest \in Seq(Keys)  BY WithoutType DEF TypeOK
  <2>3. EntrySize(k, a) \in Nat
    BY ConstantsAssumption DEF EntrySize, Answer
  <2>4. [answer |-> a, expires |-> now + session_ttl, bytes |-> EntrySize(k, a)] \in Entry
    BY <2>3 DEF Entry, TypeOK
  <2>5. session' \in [Keys -> Entry \cup {None}]
    BY <2>1, <2>4 DEF TypeOK
  <2>6. SubSeq(rest, 1, Len(rest) - n) \in Seq(Keys)
    <3> HIDE DEF rest
    <3> QED  BY <2>2, SubSeqType
  <2>7. lru' \in Seq(Keys)  BY <2>1, <2>6
  <2>8. recent' \in Seq(Keys)  BY <2>1, ToFrontType DEF TypeOK
  <2> QED  BY <2>5, <2>7, <2>8
<1> QED  BY <1>1, <1>2

(* A claim in progress has the options of its query and a key. *)
InProgress == {"waiting", "owner", "sent", "stored", "set", "broken", "orphan", "late"}

ClaimsOK == \A c \in Claims : /\ pc[c] \in InProgress \cup {"ready"} => opts[c] \in Settings
                              /\ pc[c] \in InProgress => key[c] \in Keys

TypeInv == TypeOK /\ ClaimsOK

LEMMA TypeInvInit == Init => TypeInv
  BY TypeInit DEF TypeInv, ClaimsOK, InProgress, Init

LEMMA TypeNext == TypeInv /\ [Next]_vars => TypeInv'
<1> SUFFICES ASSUME TypeInv, [Next]_vars PROVE TypeInv'
  OBVIOUS
<1> USE DEF TypeInv, InProgress, stateVars, sessionVars, scopeVars, claimVars, ghostVars
<1>1. ASSUME NEW S \in SUBSET Claims, Snapshot(S) PROVE TypeInv'
  <2>1. PICK o \in Settings :
          /\ FirstSnapshot(o) \/ LaterSnapshot(o)
          /\ opts' = [c \in Claims |-> IF c \in S THEN o ELSE opts[c]]
    BY <1>1 DEF Snapshot
  <2>2. /\ o.scope \in Scopes /\ o.session_bytes \in Nat /\ o.session_ttl \in Nat
    BY ConstantsAssumption DEF Scopes
  <2>3. /\ session' \in [Keys -> Entry \cup {None}]
        /\ lru' \in Seq(Keys) /\ recent' \in Seq(Keys)
    <3>1. \/ UNCHANGED <<session, lru, recent>>
          \/ session' = [k \in Keys |-> None] /\ lru' = <<>> /\ UNCHANGED recent
      BY <2>1 DEF FirstSnapshot, LaterSnapshot, ClearSessionLocked
    <3>2. <<>> \in Seq(Keys)
      OBVIOUS
    <3>3. [k \in Keys |-> None] \in [Keys -> Entry \cup {None}]
      OBVIOUS
    <3> QED  BY <3>1, <3>2, <3>3 DEF TypeOK
  <2>4. /\ session_scope' \in Scopes \cup {NoScope}
        /\ session_budget' \in Nat /\ session_ttl' \in Nat
        /\ options' \in Settings /\ started' \in Nat
    BY <2>1, <2>2 DEF FirstSnapshot, LaterSnapshot, TypeOK
  <2>5. TypeOK'
    BY <1>1, <2>1, <2>3, <2>4 DEF Snapshot, TypeOK, ClaimPc
  <2>6. ClaimsOK'
    BY <1>1, <2>1 DEF Snapshot, ClaimsOK, TypeOK
  <2> QED  BY <2>5, <2>6
<1>2. ASSUME NEW c \in Claims, NEW k \in Keys, Acquire(c, k) PROVE TypeInv'
  <2>1. /\ answers' \in [Keys -> Answer \cup {None}] /\ bytes' \in Nat
        /\ session' \in [Keys -> Entry \cup {None}]
        /\ lru' \in Seq(Keys) /\ recent' \in Seq(Keys)
        /\ flights' \in [Keys -> Claims \cup {None}] /\ flight_bytes' \in Nat
        /\ flight' \in [Claims -> Claims]
        /\ promise' \in [Claims -> Answer \cup {None, Open, Broken}]
        /\ enrolled' \subseteq Claims /\ unshared' \subseteq Keys
    <3> USE DEF TypeOK
    <3>1. CASE HitAnswer(c, k)
      BY <3>1 DEF HitAnswer, HoldReady
    <3>2. CASE HitSession(c, k)
      <4>1. session[k].answer \in Answer
        BY <3>2 DEF HitSession, Fresh, Entry
      <4>3. bytes' \in Nat /\ answers' \in [Keys -> Answer \cup {None}]
        <5>1. \/ AddAnswer(k, session[k].answer)
              \/ UNCHANGED <<answers, bytes>>
          BY <3>2 DEF HitSession
        <5> QED  BY <5>1, <4>1, AddAnswerType
      <4>4. lru' \in Seq(Keys) /\ recent' \in Seq(Keys)
        BY <3>2, ToFrontType DEF HitSession, Touch
      <4>5. promise' \in [Claims -> Answer \cup {None, Open, Broken}]
        BY <3>2, <4>1 DEF HitSession, HoldReady
      <4>6. /\ UNCHANGED <<session, flights, flight_bytes, enrolled, unshared>>
            /\ flight' \in [Claims -> Claims]
        BY <3>2 DEF HitSession, HoldReady
      <4> QED  BY <4>3, <4>4, <4>5, <4>6
    <3>3. CASE Join(c, k)
      BY <3>3, DropExpiredType DEF Join
    <3>4. CASE Own(c, k)
      <4>1. flight_bytes' \in Nat /\ flights' \in [Keys -> Claims \cup {None}]
        <5>1. \/ /\ flights' = [flights EXCEPT ![k] = c]
                 /\ flight_bytes' = flight_bytes + KeySize[k]
              \/ UNCHANGED <<flights, flight_bytes>>
          BY <3>4 DEF Own
        <5>2. KeySize[k] \in Nat
          BY ConstantsAssumption
        <5>3. flight_bytes' \in Nat
          BY <5>1, <5>2 DEF TypeOK
        <5>4. flights' \in [Keys -> Claims \cup {None}]
          BY <5>1 DEF TypeOK
        <5> QED  BY <5>3, <5>4
      <4>2. promise' \in [Claims -> Answer \cup {None, Open, Broken}]
        BY <3>4 DEF Own
      <4>3. answers' \in [Keys -> Answer \cup {None}] /\ bytes' \in Nat
        BY <3>4 DEF Own
      <4>4. enrolled' \subseteq Claims /\ unshared' \subseteq Keys /\ flight' \in [Claims -> Claims]
        BY <3>4 DEF Own
      <4>5. DropExpired(k)  BY <3>4 DEF Own
      <4> QED  BY <4>1, <4>2, <4>3, <4>4, <4>5, DropExpiredType
    <3> QED  BY <1>2, <3>1, <3>2, <3>3, <3>4 DEF Acquire
  <2>2. pc' = [pc EXCEPT ![c] = "waiting"] \/ pc' = [pc EXCEPT ![c] = "owner"]
    BY <1>2 DEF Acquire, HitAnswer, HitSession, Join, Own, HoldReady
  <2>3. TypeOK'
    BY <1>2, <2>1, <2>2 DEF Acquire, TypeOK, ClaimPc
  <2>4. ClaimsOK'
    BY <1>2, <2>2 DEF Acquire, ClaimsOK, TypeOK
  <2> QED  BY <2>3, <2>4
<1>3. ASSUME NEW S \in SUBSET Claims, NEW requests \in 1 .. Cardinality(S),
             Reserve(S, requests)
      PROVE  TypeInv'
  <2>1. Cardinality(S) \in Nat
    BY ConstantsAssumption, FS_Subset, FS_CardinalityType
  <2>2. TypeOK'
    BY <1>3, <2>1 DEF Reserve, TypeOK, ClaimPc
  <2>3. ClaimsOK'
    BY <1>3 DEF Reserve, ClaimsOK, TypeOK
  <2> QED  BY <2>2, <2>3
<1>4. ASSUME NEW c \in Claims, Store(c) PROVE TypeInv'
  <2>1. PICK size \in AnswerSizes :
          LET a == [key |-> key[c], scope |-> opts[c].scope, stored |-> now, size |-> size]
          IN  /\ StoreSession(key[c], a)
              /\ \/ AddAnswer(key[c], a) /\ UNCHANGED unshared
                 \/ unshared' = unshared \cup {key[c]} /\ UNCHANGED <<answers, bytes>>
              /\ encoded' = [encoded EXCEPT ![c] = a]
    BY <1>4 DEF Store
  <2> DEFINE a == [key |-> key[c], scope |-> opts[c].scope, stored |-> now, size |-> size]
  <2>2. key[c] \in Keys /\ opts[c] \in Settings  BY <1>4 DEF Store, ClaimsOK
  <2>3. a \in Answer
    BY <2>2, ConstantsAssumption DEF Answer, Scopes, TypeOK
  <2>4. /\ session' \in [Keys -> Entry \cup {None}]
        /\ lru' \in Seq(Keys) /\ recent' \in Seq(Keys)
    BY <2>1, <2>2, <2>3, StoreSessionType
  <2>6. /\ bytes' \in Nat /\ answers' \in [Keys -> Answer \cup {None}]
        /\ unshared' \subseteq Keys
    BY <2>1, <2>2, <2>3, AddAnswerType DEF TypeOK
  <2>7. encoded' \in [Claims -> Answer \cup {None}]
    BY <2>1, <2>3 DEF TypeOK
  <2>8. pc' = [pc EXCEPT ![c] = "stored"] /\ key' = key /\ opts' = opts /\ pc[c] = "sent"
    BY <1>4 DEF Store
  <2>9. TypeOK'
    <3>1. /\ UNCHANGED <<options, flights, flight_bytes, query_questions, query_requests,
                 scopeVars, now, key, opts, flight, promise, started, enrolled, sent>>
      BY <1>4 DEF Store
    <3> QED  BY <3>1, <2>4, <2>6, <2>7, <2>8 DEF TypeOK, ClaimPc
  <2>10. ClaimsOK'
    BY <2>8 DEF ClaimsOK, TypeOK
  <2> QED  BY <2>9, <2>10
<1>5. ASSUME NEW c \in Claims, SetValue(c) PROVE TypeInv'
  BY <1>5 DEF SetValue, TypeOK, ClaimPc, ClaimsOK
<1>6. ASSUME NEW c \in Claims, Abandon(c) PROVE TypeInv'
  BY <1>6 DEF Abandon, BreakPromise, TypeOK, ClaimPc, ClaimsOK
<1>7. ASSUME NEW c \in Claims, Release(c) PROVE TypeInv'
  <2>1. key[c] \in Keys  BY <1>7 DEF Release, ClaimsOK
  <2>2. flight_bytes' \in Nat /\ flights' \in [Keys -> Claims \cup {None}]
    <3>1. KeySize[key[c]] \in Nat /\ KeySize[key[c]] < SizeMax
      BY <2>1, ConstantsAssumption
    <3>2. SizeT(flight_bytes - KeySize[key[c]]) \in Nat
      BY <3>1, SizeTType DEF TypeOK
    <3> QED  BY <1>7, <3>2 DEF Release, Unregister, TypeOK
  <2> QED  BY <1>7, <2>2 DEF Release, TypeOK, ClaimPc, ClaimsOK
<1>8. ASSUME NEW c \in Claims, Orphan(c) \/ AwaitFlight(c) \/ Leave(c) PROVE TypeInv'
  BY <1>8 DEF Orphan, AwaitFlight, Leave, TypeOK, ClaimPc, ClaimsOK
<1>9. CASE ClearSession
  BY <1>9 DEF ClearSession, ClearSessionLocked, TypeOK, ClaimsOK
<1>10. CASE QueryEnd
  <2>1. TypeOK'
    BY <1>10 DEF QueryEnd, TypeOK, ClaimPc
  <2>2. ClaimsOK'
    BY <1>10 DEF QueryEnd, ClaimsOK, TypeOK
  <2> QED  BY <2>1, <2>2
<1>11. CASE Tick
  <2>1. now \in 0 .. MaxTime /\ now' = now + 1 /\ now < MaxTime /\ MaxTime \in Nat
    BY <1>11, ConstantsAssumption DEF Tick, TypeOK
  <2>2. now' \in 0 .. MaxTime
    BY <2>1
  <2>3. TypeOK'
    BY <1>11, <2>2 DEF Tick, TypeOK
  <2>4. ClaimsOK'
    BY <1>11 DEF Tick, ClaimsOK
  <2> QED  BY <2>3, <2>4
<1>12. CASE UNCHANGED vars
  BY <1>12 DEF vars, TypeOK, ClaimsOK
<1> QED
  BY <1>1, <1>2, <1>3, <1>4, <1>5, <1>6, <1>7, <1>8, <1>9, <1>10, <1>11, <1>12
     DEF Next, ClaimStep, OwnerStep

(* Type correctness: in every reachable state each field of QueryState and  *)
(* each claim holds a value of its kind.                                    *)
THEOREM TypeCorrect == Spec => []TypeOK
<1>1. TypeInv => TypeOK
  BY DEF TypeInv
<1> QED  BY <1>1, TypeInvInit, TypeNext, PTL DEF Spec

-----------------------------------------------------------------------------
(* The registry. *)

Unreleased == {"owner", "sent", "stored", "set", "broken", "orphan", "late"}

(* Orphan, AwaitFlight and Leave move one claim and nothing else. *)
LEMMA MoveFrame ==
  ASSUME NEW c \in Claims, Orphan(c) \/ AwaitFlight(c) \/ Leave(c)
  PROVE  /\ UNCHANGED <<stateVars, sessionVars, scopeVars, now, claimVars, ghostVars>>
         /\ \/ pc[c] = "sent" /\ pc' = [pc EXCEPT ![c] = "orphan"]
            \/ pc[c] \in {"ready", "waiting"} /\ pc' = [pc EXCEPT ![c] = "done"]
  BY DEF Orphan, AwaitFlight, Leave

RegistryInv == /\ RegistryExact
               /\ \A c \in enrolled : pc[c] \in Unreleased

LEMMA RegistryNext == TypeInv /\ RegistryInv /\ [Next]_vars => RegistryInv'
<1> SUFFICES ASSUME TypeInv, RegistryInv, [Next]_vars PROVE RegistryInv'
  OBVIOUS
<1> USE DEF TypeInv, TypeOK, RegistryInv, RegistryExact, Unreleased, ClaimPc,
            stateVars, sessionVars, scopeVars, claimVars, ghostVars
<1>1. ASSUME NEW S \in SUBSET Claims, Snapshot(S) PROVE RegistryInv'
  BY <1>1 DEF Snapshot
<1>2. ASSUME NEW c \in Claims, NEW k \in Keys, Acquire(c, k) PROVE RegistryInv'
  <2>1. c \notin enrolled /\ pc[c] = "ready" /\ key' = [key EXCEPT ![c] = k]
    BY <1>2 DEF Acquire
  <2>2. CASE ~Own(c, k)
    <3>1. UNCHANGED <<flights, enrolled>> /\ pc' = [pc EXCEPT ![c] = "waiting"]
      BY <1>2, <2>2 DEF Acquire, HitAnswer, HitSession, Join, HoldReady
    <3> QED  BY <2>1, <3>1
  <2>3. CASE Own(c, k)
    <3>1. /\ pc' = [pc EXCEPT ![c] = "owner"] /\ flights[k] = None
          /\ \/ /\ flights' = [flights EXCEPT ![k] = c]
                /\ enrolled' = enrolled \cup {c}
             \/ UNCHANGED <<flights, enrolled>>
      BY <2>3 DEF Own
    <3>2. \A d \in Claims : d # None
      BY NoneAssumption
    <3> QED  BY <2>1, <3>1, <3>2
  <2> QED  BY <2>2, <2>3
<1>3. ASSUME NEW S \in SUBSET Claims, NEW requests \in 1 .. Cardinality(S),
             Reserve(S, requests)
      PROVE  RegistryInv'
  BY <1>3 DEF Reserve
<1>4. ASSUME NEW c \in Claims, Store(c) PROVE RegistryInv'
  <2>1. /\ UNCHANGED <<flights, enrolled, key>>
        /\ pc[c] = "sent" /\ pc' = [pc EXCEPT ![c] = "stored"]
    BY <1>4 DEF Store
  <2> QED  BY <2>1
<1>5. ASSUME NEW c \in Claims, SetValue(c) PROVE RegistryInv'
  BY <1>5 DEF SetValue
<1>6. ASSUME NEW c \in Claims, Abandon(c) PROVE RegistryInv'
  BY <1>6 DEF Abandon
<1>7. ASSUME NEW c \in Claims, Release(c) PROVE RegistryInv'
  <2>1. key[c] \in Keys  BY <1>7 DEF Release, ClaimsOK, InProgress
  <2>2. \A d \in Claims : d # None
    BY NoneAssumption
  <2>3. /\ enrolled' = enrolled \ {c} /\ key' = key
        /\ pc' = [pc EXCEPT ![c] = "done"]
    BY <1>7 DEF Release
  <2>4. CASE flights[key[c]] = c
    <3>1. flights' = [flights EXCEPT ![key[c]] = None]
      BY <1>7, <2>4 DEF Release, Unregister
    <3> QED  BY <2>1, <2>2, <2>3, <2>4, <3>1
  <2>5. CASE flights[key[c]] # c
    <3>1. flights' = flights
      BY <1>7, <2>5 DEF Release, Unregister
    <3>2. c \notin enrolled
      BY <2>1, <2>5
    <3> QED  BY <2>3, <3>1, <3>2
  <2> QED  BY <2>4, <2>5
<1>8. ASSUME NEW c \in Claims, Orphan(c) \/ AwaitFlight(c) \/ Leave(c) PROVE RegistryInv'
  BY <1>8, MoveFrame
<1>9. CASE ClearSession
  BY <1>9 DEF ClearSession
<1>10. CASE QueryEnd
  <2>1. flights' = [k \in Keys |-> None] /\ enrolled' = {}
    BY <1>10 DEF QueryEnd
  <2>2. \A d \in Claims : d # None
    BY NoneAssumption
  <2> QED  BY <2>1, <2>2
<1>11. CASE Tick
  BY <1>11 DEF Tick
<1>12. CASE UNCHANGED vars
  BY <1>12 DEF vars
<1> QED
  BY <1>1, <1>2, <1>3, <1>4, <1>5, <1>6, <1>7, <1>8, <1>9, <1>10, <1>11, <1>12
     DEF Next, ClaimStep, OwnerStep

(* The registry (Acquire, Release, QueryEnd): a registered flight is always  *)
(* that of an owner of this query which has not released it, and a late      *)
(* release from an earlier query never takes another claim's flight out.     *)
THEOREM RegistryCorrect == Spec => []RegistryExact
<1>1. Init => RegistryInv
  BY NoneAssumption DEF Init, RegistryInv, RegistryExact
<1>2. RegistryInv => RegistryExact
  BY DEF RegistryInv
<1> QED  BY <1>1, <1>2, TypeInvInit, TypeNext, RegistryNext, PTL DEF Spec

-----------------------------------------------------------------------------
(* Isolation. *)

OfKey(a, k, scope) == a.key = k /\ a.scope = scope

(* Claims of the current query; a claim past its query is "orphan", "late" or, *)
(* with a broken promise of its own, "done".                                   *)
Current == {"ready", "waiting", "owner", "sent", "stored", "set", "broken"}

SnapshotInv ==
  /\ options # None => session_scope = options.scope /\ session_ttl = options.session_ttl
  /\ \A c \in Claims : pc[c] \in Current => options # None /\ opts[c] = options
  /\ \A c \in enrolled : options # None /\ opts[c] = options

CachesInv ==
  /\ \A k \in Keys : session[k] # None => OfKey(session[k].answer, k, session_scope)
  /\ \A k \in Keys : answers[k] # None =>
        options # None /\ OfKey(answers[k], k, options.scope)

FlightsInv == \A c \in Claims :
  /\ pc[c] = "stored" => encoded[c] \in Answer /\ OfKey(encoded[c], key[c], opts[c].scope)
  /\ promise[c] \in Answer => /\ pc[c] \in {"waiting", "set", "done"}
                              /\ OfKey(promise[c], key[c], opts[c].scope)
  /\ pc[c] \notin {"waiting", "done"} => flight[c] = c
  /\ pc[c] \in {"waiting", "done"} /\ flight[c] # c =>
        /\ pc[flight[c]] \in Unreleased \cup {"done"}
        /\ key[flight[c]] = key[c]
        /\ opts[flight[c]] = opts[c]

IsolationInv == SnapshotInv /\ CachesInv /\ FlightsInv

LEMMA SnapshotNext ==
  TypeInv /\ RegistryInv /\ SnapshotInv /\ [Next]_vars => SnapshotInv'
<1> SUFFICES ASSUME TypeInv, RegistryInv, SnapshotInv, [Next]_vars PROVE SnapshotInv'
  OBVIOUS
<1> USE DEF TypeInv, TypeOK, RegistryInv, Unreleased, ClaimPc, SnapshotInv, Current,
            stateVars, sessionVars, scopeVars, claimVars, ghostVars
<1>1. ASSUME NEW S \in SUBSET Claims, Snapshot(S) PROVE SnapshotInv'
  <2>1. PICK o \in Settings :
          /\ FirstSnapshot(o) \/ LaterSnapshot(o)
          /\ opts' = [c \in Claims |-> IF c \in S THEN o ELSE opts[c]]
    BY <1>1 DEF Snapshot
  <2>2. o # None  BY NoneAssumption
  <2>3. /\ \A c \in S : pc[c] = "idle"
        /\ pc' = [c \in Claims |-> IF c \in S THEN "ready" ELSE pc[c]]
        /\ enrolled' = enrolled
    BY <1>1 DEF Snapshot
  <2>4. CASE FirstSnapshot(o)
    <3>1. /\ options = None /\ options' = o
          /\ session_scope' = o.scope /\ session_ttl' = o.session_ttl
      BY <2>4 DEF FirstSnapshot
    <3> QED  BY <2>1, <2>2, <2>3, <3>1
  <2>5. CASE LaterSnapshot(o)
    <3>1. options = o /\ UNCHANGED <<options, session_scope, session_ttl>>
      BY <2>5 DEF LaterSnapshot
    <3> QED  BY <2>1, <2>2, <2>3, <3>1
  <2> QED  BY <2>1, <2>4, <2>5
<1>2. ASSUME NEW c \in Claims, NEW k \in Keys, Acquire(c, k) PROVE SnapshotInv'
  <2>1. /\ pc[c] = "ready" /\ UNCHANGED <<options, opts, session_scope, session_ttl>>
        /\ pc' = [pc EXCEPT ![c] = "waiting"] \/ pc' = [pc EXCEPT ![c] = "owner"]
        /\ enrolled' = enrolled \/ enrolled' = enrolled \cup {c}
    BY <1>2 DEF Acquire, HitAnswer, HitSession, Join, Own, HoldReady
  <2> QED  BY <2>1
<1>3. ASSUME NEW S \in SUBSET Claims, NEW requests \in 1 .. Cardinality(S),
             Reserve(S, requests)
      PROVE  SnapshotInv'
  BY <1>3 DEF Reserve
<1>4. ASSUME NEW c \in Claims, Store(c) PROVE SnapshotInv'
  <2>1. /\ UNCHANGED <<options, opts, session_scope, session_ttl, enrolled>>
        /\ pc[c] = "sent" /\ pc' = [pc EXCEPT ![c] = "stored"]
    BY <1>4 DEF Store
  <2> QED  BY <2>1
<1>5. ASSUME NEW c \in Claims, SetValue(c) PROVE SnapshotInv'
  BY <1>5 DEF SetValue
<1>6. ASSUME NEW c \in Claims, Abandon(c) PROVE SnapshotInv'
  BY <1>6 DEF Abandon
<1>7. ASSUME NEW c \in Claims, Release(c) PROVE SnapshotInv'
  <2>1. /\ UNCHANGED <<options, opts, session_scope, session_ttl>>
        /\ enrolled' = enrolled \ {c} /\ pc' = [pc EXCEPT ![c] = "done"]
    BY <1>7 DEF Release
  <2> QED  BY <2>1
<1>8. ASSUME NEW c \in Claims, Orphan(c) \/ AwaitFlight(c) \/ Leave(c) PROVE SnapshotInv'
  BY <1>8, MoveFrame
<1>9. CASE ClearSession
  BY <1>9 DEF ClearSession
<1>10. CASE QueryEnd
  <2>1. /\ options' = None /\ enrolled' = {}
        /\ \A c \in Claims : pc[c] \in {"idle", "done", "orphan", "late"}
        /\ pc' = [c \in Claims |-> IF pc[c] = "done" THEN "idle" ELSE pc[c]]
    BY <1>10 DEF QueryEnd
  <2> QED  BY <2>1
<1>11. CASE Tick
  BY <1>11 DEF Tick
<1>12. CASE UNCHANGED vars
  BY <1>12 DEF vars
<1> QED
  BY <1>1, <1>2, <1>3, <1>4, <1>5, <1>6, <1>7, <1>8, <1>9, <1>10, <1>11, <1>12
     DEF Next, ClaimStep, OwnerStep

LEMMA CachesNext ==
  TypeInv /\ SnapshotInv /\ CachesInv /\ [Next]_vars => CachesInv'
<1> SUFFICES ASSUME TypeInv, SnapshotInv, CachesInv, [Next]_vars PROVE CachesInv'
  OBVIOUS
<1> USE DEF TypeInv, TypeOK, SnapshotInv, CachesInv, Current, OfKey,
            stateVars, sessionVars, scopeVars, claimVars, ghostVars
<1>1. ASSUME NEW S \in SUBSET Claims, Snapshot(S) PROVE CachesInv'
  <2>1. PICK o \in Settings : FirstSnapshot(o) \/ LaterSnapshot(o)
    BY <1>1 DEF Snapshot
  <2>2. answers' = answers
    BY <1>1 DEF Snapshot
  <2>3. CASE FirstSnapshot(o)
    <3>1. \/ session' = [k \in Keys |-> None]
          \/ session' = session /\ session_scope' = session_scope
      BY <2>3 DEF FirstSnapshot, SessionOutdated, ClearSessionLocked
    <3>2. \A k \in Keys : answers[k] = None
      BY <2>3 DEF FirstSnapshot
    <3> QED  BY <2>2, <3>1, <3>2
  <2>4. CASE LaterSnapshot(o)
    BY <2>2, <2>4 DEF LaterSnapshot
  <2> QED  BY <2>1, <2>3, <2>4
<1>2. ASSUME NEW c \in Claims, NEW k \in Keys, Acquire(c, k) PROVE CachesInv'
  <2>1. pc[c] = "ready" /\ UNCHANGED <<options, session_scope>>
    BY <1>2 DEF Acquire
  <2>2. CASE HitAnswer(c, k)
    BY <2>1, <2>2 DEF HitAnswer
  <2>3. CASE HitSession(c, k)
    <3>1. session[k] # None /\ UNCHANGED session
      BY <2>3 DEF HitSession, Fresh
    <3>2. \/ answers' = [answers EXCEPT ![k] = session[k].answer]
          \/ UNCHANGED answers
      BY <2>3 DEF HitSession, AddAnswer
    <3> QED  BY <2>1, <3>1, <3>2
  <2>4. CASE Join(c, k) \/ Own(c, k)
    <3>1. /\ UNCHANGED answers
          /\ session' = [session EXCEPT ![k] = None] \/ UNCHANGED session
      BY <2>4 DEF Join, Own, DropExpired
    <3> QED  BY <2>1, <3>1
  <2> QED  BY <1>2, <2>2, <2>3, <2>4 DEF Acquire
<1>3. ASSUME NEW S \in SUBSET Claims, NEW requests \in 1 .. Cardinality(S),
             Reserve(S, requests)
      PROVE  CachesInv'
  BY <1>3 DEF Reserve
<1>4. ASSUME NEW c \in Claims, Store(c) PROVE CachesInv'
  <2>1. PICK a : /\ a.key = key[c] /\ a.scope = opts[c].scope
                 /\ StoreSession(key[c], a)
                 /\ AddAnswer(key[c], a) \/ UNCHANGED answers
    BY <1>4 DEF Store
  <2>2. /\ UNCHANGED <<options, session_scope>> /\ opts[c] = options /\ options # None
        /\ session_scope = options.scope
    BY <1>4 DEF Store
  <2>3. \A k \in Keys : \/ session'[k] = session[k] \/ session'[k] = None
                        \/ k = key[c] /\ session'[k].answer = a
    <3>1. CASE UNCHANGED sessionVars
      BY <3>1
    <3>2. CASE ~ UNCHANGED sessionVars
      <4>1. PICK n, rest :
              session' = [j \in Keys |->
                IF j = key[c] THEN [answer |-> a, expires |-> now + session_ttl,
                                    bytes |-> EntrySize(key[c], a)]
                ELSE IF j \in Erased(key[c], rest, n) THEN None ELSE session[j]]
        BY <2>1, <3>2 DEF StoreSession
      <4> QED  BY <4>1
    <3> QED  BY <3>1, <3>2
  <2>4. \A k \in Keys : \/ answers'[k] = answers[k]
                        \/ k = key[c] /\ answers'[k] = a
    BY <2>1 DEF AddAnswer
  <2> QED  BY <2>1, <2>2, <2>3, <2>4, ZenonT(40)
<1>5. ASSUME NEW c \in Claims, SetValue(c) \/ Abandon(c) PROVE CachesInv'
  BY <1>5 DEF SetValue, Abandon
<1>6. ASSUME NEW c \in Claims, Release(c) PROVE CachesInv'
  BY <1>6 DEF Release
<1>7. ASSUME NEW c \in Claims, Orphan(c) \/ AwaitFlight(c) \/ Leave(c) PROVE CachesInv'
  BY <1>7, MoveFrame
<1>8. CASE ClearSession
  BY <1>8 DEF ClearSession, ClearSessionLocked
<1>9. CASE QueryEnd
  BY <1>9 DEF QueryEnd
<1>10. CASE Tick
  BY <1>10 DEF Tick
<1>11. CASE UNCHANGED vars
  BY <1>11 DEF vars
<1> QED
  BY <1>1, <1>2, <1>3, <1>4, <1>5, <1>6, <1>7, <1>8, <1>9, <1>10, <1>11
     DEF Next, ClaimStep, OwnerStep

LEMMA FlightsNext ==
  TypeInv /\ RegistryInv /\ SnapshotInv /\ CachesInv /\ FlightsInv /\ [Next]_vars => FlightsInv'
<1> SUFFICES ASSUME TypeInv, RegistryInv, SnapshotInv, CachesInv, FlightsInv, [Next]_vars
             PROVE  FlightsInv'
  OBVIOUS
<1> USE DEF TypeInv, TypeOK, ClaimPc, SnapshotInv, CachesInv, FlightsInv, Current, OfKey,
            Unreleased, stateVars, sessionVars, scopeVars, claimVars, ghostVars
<1>1. ASSUME NEW S \in SUBSET Claims, Snapshot(S) PROVE FlightsInv'
  <2>1. PICK o \in Settings : opts' = [c \in Claims |-> IF c \in S THEN o ELSE opts[c]]
    BY <1>1 DEF Snapshot
  <2>2. /\ \A c \in S : pc[c] = "idle"
        /\ pc' = [c \in Claims |-> IF c \in S THEN "ready" ELSE pc[c]]
        /\ UNCHANGED <<key, flight, promise, encoded>>
    BY <1>1 DEF Snapshot
  <2>3. \A d \in Claims : flight[d] \in S => d = flight[d] \/ pc[d] \notin {"waiting", "done"}
    BY <2>2
  <2> QED  BY <2>1, <2>2, <2>3
<1>2. ASSUME NEW c \in Claims, NEW k \in Keys, Acquire(c, k) PROVE FlightsInv'
  <2>1. /\ pc[c] = "ready" /\ key' = [key EXCEPT ![c] = k]
        /\ UNCHANGED <<opts, options, encoded>>
        /\ options # None /\ opts[c] = options
    BY <1>2 DEF Acquire
  <2>2. \A d \in Claims : flight[d] = c => d = c \/ pc[d] \notin {"waiting", "done"}
    BY <2>1
  <2>3. promise[c] \notin Answer /\ flight[c] = c
    BY <2>1
  <2>4. CASE HitAnswer(c, k) \/ HitSession(c, k)
    <3>1. PICK a \in Answer : /\ OfKey(a, k, options.scope)
                             /\ promise' = [promise EXCEPT ![c] = a]
      <4>1. CASE HitAnswer(c, k)
        <5>1. /\ answers[k] # None /\ answers[k] \in Answer
              /\ OfKey(answers[k], k, options.scope)
          BY <4>1 DEF HitAnswer
        <5>2. promise' = [promise EXCEPT ![c] = answers[k]]
          BY <4>1 DEF HitAnswer, HoldReady
        <5> QED  BY <5>1, <5>2
      <4>2. CASE HitSession(c, k)
        <5>1. /\ session[k] # None /\ session[k].answer \in Answer
          BY <4>2 DEF HitSession, Fresh, Entry
        <5>2. promise' = [promise EXCEPT ![c] = session[k].answer]
          BY <4>2 DEF HitSession, HoldReady
        <5>3. OfKey(session[k].answer, k, options.scope)
          BY <5>1, <2>1
        <5> QED  BY <5>1, <5>2, <5>3
      <4> QED  BY <2>4, <4>1, <4>2
    <3>2. /\ flight' = [flight EXCEPT ![c] = c] /\ pc' = [pc EXCEPT ![c] = "waiting"]
      BY <2>4 DEF HitAnswer, HitSession, HoldReady
    <3> QED  BY <2>1, <2>2, <3>1, <3>2
  <2>5. CASE Join(c, k)
    <3>1. /\ flight' = [flight EXCEPT ![c] = flights[k]] /\ flights[k] # None
          /\ pc' = [pc EXCEPT ![c] = "waiting"] /\ UNCHANGED promise
      BY <2>5 DEF Join
    <3>2. flights[k] \in enrolled /\ flights[k] \in Claims /\ key[flights[k]] = k
      BY <3>1 DEF RegistryInv, RegistryExact
    <3>3. pc[flights[k]] \in Unreleased /\ opts[flights[k]] = options
      BY <3>2 DEF RegistryInv
    <3>4. flights[k] # c
      BY <3>3, <2>1
    <3> QED  BY <2>1, <2>2, <2>3, <3>1, <3>2, <3>3, <3>4
  <2>6. CASE Own(c, k)
    <3>1. /\ flight' = [flight EXCEPT ![c] = c] /\ pc' = [pc EXCEPT ![c] = "owner"]
          /\ promise' = [promise EXCEPT ![c] = Open]
      BY <2>6 DEF Own
    <3>2. Open \notin Answer
      BY NoneAssumption
    <3> QED  BY <2>1, <2>2, <3>1, <3>2
  <2> QED  BY <1>2, <2>4, <2>5, <2>6 DEF Acquire
<1>3. ASSUME NEW S \in SUBSET Claims, NEW requests \in 1 .. Cardinality(S),
             Reserve(S, requests)
      PROVE  FlightsInv'
  <2>1. /\ \A c \in S : pc[c] = "owner"
        /\ pc' = [c \in Claims |-> IF c \in S THEN "sent" ELSE pc[c]]
        /\ UNCHANGED claimVars
    BY <1>3 DEF Reserve
  <2> QED  BY <2>1
<1>4. ASSUME NEW c \in Claims, Store(c) PROVE FlightsInv'
  <2>1. PICK size \in AnswerSizes :
          encoded' = [encoded EXCEPT ![c] =
             [key |-> key[c], scope |-> opts[c].scope, stored |-> now, size |-> size]]
    BY <1>4 DEF Store
  <2>2. /\ pc[c] = "sent" /\ pc' = [pc EXCEPT ![c] = "stored"]
        /\ UNCHANGED <<key, opts, flight, promise>>
    BY <1>4 DEF Store
  <2>3. key[c] \in Keys /\ opts[c] \in Settings
    BY <2>2 DEF ClaimsOK, InProgress
  <2>4. [key |-> key[c], scope |-> opts[c].scope, stored |-> now, size |-> size] \in Answer
    BY <2>3, ConstantsAssumption DEF Answer, Scopes
  <2> QED  BY <2>1, <2>2, <2>4
<1>5. ASSUME NEW c \in Claims, SetValue(c) PROVE FlightsInv'
  BY <1>5 DEF SetValue
<1>6. ASSUME NEW c \in Claims, Abandon(c) PROVE FlightsInv'
  <2>1. Broken \notin Answer
    BY NoneAssumption
  <2> QED  BY <1>6, <2>1 DEF Abandon, BreakPromise
<1>7. ASSUME NEW c \in Claims, Release(c) PROVE FlightsInv'
  <2>1. /\ pc[c] \in {"set", "broken", "late"} /\ pc' = [pc EXCEPT ![c] = "done"]
        /\ UNCHANGED claimVars
    BY <1>7 DEF Release
  <2> QED  BY <2>1
<1>8. ASSUME NEW c \in Claims, Orphan(c) \/ AwaitFlight(c) \/ Leave(c) PROVE FlightsInv'
  <2>1. UNCHANGED claimVars
    BY <1>8, MoveFrame
  <2>2. CASE pc[c] = "sent" /\ pc' = [pc EXCEPT ![c] = "orphan"]
    BY <2>1, <2>2
  <2>3. CASE pc[c] \in {"ready", "waiting"} /\ pc' = [pc EXCEPT ![c] = "done"]
    <3>1. flight[c] # c => pc[c] = "waiting"
      BY <2>3
    <3> QED  BY <2>1, <2>3, <3>1
  <2> QED  BY <1>8, MoveFrame, <2>2, <2>3
<1>9. CASE ClearSession
  BY <1>9 DEF ClearSession
<1>10. CASE QueryEnd
  <2>1. None \notin Answer
    BY NoneAssumption
  <2>2. \A c \in Claims : pc'[c] \notin {"waiting", "done", "stored", "set"}
    BY <1>10 DEF QueryEnd
  <2>3. \A c \in Claims : promise'[c] \notin Answer /\ flight'[c] = c
    BY <1>10, <2>1 DEF QueryEnd
  <2> QED  BY <2>2, <2>3
<1>11. CASE Tick
  BY <1>11 DEF Tick
<1>12. CASE UNCHANGED vars
  BY <1>12 DEF vars
<1> QED
  BY <1>1, <1>2, <1>3, <1>4, <1>5, <1>6, <1>7, <1>8, <1>9, <1>10, <1>11, <1>12
     DEF Next, ClaimStep, OwnerStep

(* Isolation (Snapshot, Acquire, Complete): whatever an evaluator is served, *)
(* from the query's answers, the session cache or another's flight, answers  *)
(* its own key under the endpoint, model and credential of its own query.    *)
THEOREM Isolation == Spec => []ServedRight
<1>1. Init => RegistryInv
  BY NoneAssumption DEF Init, RegistryInv, RegistryExact
<1>2. Init => IsolationInv
  BY NoneAssumption DEF Init, IsolationInv, SnapshotInv, CachesInv, FlightsInv, Current
<1>3. TypeInv /\ RegistryInv /\ IsolationInv /\ [Next]_vars => IsolationInv'
  BY SnapshotNext, CachesNext, FlightsNext DEF IsolationInv
<1>4. TypeInv /\ IsolationInv => ServedRight
  BY DEF TypeInv, TypeOK, IsolationInv, FlightsInv, ServedRight, OfKey
<1> QED  BY <1>1, <1>2, <1>3, <1>4, TypeInvInit, TypeNext, RegistryNext, PTL DEF Spec

-----------------------------------------------------------------------------
(* Freshness. *)

FreshInv ==
  /\ options # None => started <= now
  /\ \A k \in Keys : session[k] # None =>
        session[k].expires = session[k].answer.stored + session_ttl
  /\ \A k \in Keys : answers[k] # None => started < answers[k].stored + options.session_ttl

LEMMA FreshNext ==
  TypeInv /\ SnapshotInv /\ CachesInv /\ FreshInv /\ [Next]_vars => FreshInv'
<1> SUFFICES ASSUME TypeInv, SnapshotInv, CachesInv, FreshInv, [Next]_vars PROVE FreshInv'
  OBVIOUS
<1> USE DEF TypeInv, TypeOK, FreshInv, SnapshotInv, Current,
            stateVars, sessionVars, scopeVars, claimVars, ghostVars
<1>1. ASSUME NEW S \in SUBSET Claims, Snapshot(S) PROVE FreshInv'
  <2>1. PICK o \in Settings : FirstSnapshot(o) \/ LaterSnapshot(o)
    BY <1>1 DEF Snapshot
  <2>2. UNCHANGED <<answers, now>>
    BY <1>1 DEF Snapshot
  <2>3. CASE FirstSnapshot(o)
    <3>1. \/ session' = [k \in Keys |-> None]
          \/ session' = session /\ session_ttl' = session_ttl
      BY <2>3 DEF FirstSnapshot, SessionOutdated, ClearSessionLocked
    <3>2. started' = now
      BY <2>3 DEF FirstSnapshot
    <3>3. \A k \in Keys : answers[k] = None
      BY <2>3 DEF FirstSnapshot, CachesInv
    <3> QED  BY <2>2, <3>1, <3>2, <3>3
  <2>4. CASE LaterSnapshot(o)
    BY <2>2, <2>4 DEF LaterSnapshot
  <2> QED  BY <2>1, <2>3, <2>4
<1>2. ASSUME NEW c \in Claims, NEW k \in Keys, Acquire(c, k) PROVE FreshInv'
  <2>1. /\ UNCHANGED <<options, now, started, session_ttl>>
        /\ options # None /\ session_ttl = options.session_ttl
    BY <1>2 DEF Acquire
  <2>2. CASE HitAnswer(c, k)
    BY <2>1, <2>2 DEF HitAnswer
  <2>3. CASE HitSession(c, k)
    <3>1. /\ session[k] # None /\ UNCHANGED session /\ now < session[k].expires
          /\ session[k].answer.stored \in Nat
      BY <2>3 DEF HitSession, Fresh, Entry, Answer
    <3>2. \/ answers' = [answers EXCEPT ![k] = session[k].answer]
          \/ UNCHANGED answers
      BY <2>3 DEF HitSession, AddAnswer
    <3>3. started < session[k].answer.stored + options.session_ttl
      BY <2>1, <3>1, SMTT(40)
    <3> QED  BY <2>1, <3>1, <3>2, <3>3
  <2>4. CASE Join(c, k) \/ Own(c, k)
    <3>1. /\ UNCHANGED answers
          /\ session' = [session EXCEPT ![k] = None] \/ UNCHANGED session
      BY <2>4 DEF Join, Own, DropExpired
    <3> QED  BY <2>1, <3>1
  <2> QED  BY <1>2, <2>2, <2>3, <2>4 DEF Acquire
<1>3. ASSUME NEW S \in SUBSET Claims, NEW requests \in 1 .. Cardinality(S),
             Reserve(S, requests)
      PROVE  FreshInv'
  BY <1>3 DEF Reserve
<1>4. ASSUME NEW c \in Claims, Store(c) PROVE FreshInv'
  <2>1. PICK a : /\ a.stored = now
                 /\ StoreSession(key[c], a)
                 /\ AddAnswer(key[c], a) \/ UNCHANGED answers
    BY <1>4 DEF Store
  <2>2. /\ UNCHANGED <<options, session_ttl, now, started>> /\ options # None
        /\ session_ttl = options.session_ttl
    BY <1>4 DEF Store
  <2>3. options.session_ttl \in Nat \ {0}
    BY <2>2, ConstantsAssumption
  <2>4. \A k \in Keys : \/ session'[k] = session[k] \/ session'[k] = None
                        \/ /\ session'[k].answer = a
                           /\ session'[k].expires = now + session_ttl
    <3>1. CASE UNCHANGED sessionVars
      BY <3>1
    <3>2. CASE ~ UNCHANGED sessionVars
      <4>1. PICK n, rest :
              session' = [j \in Keys |->
                IF j = key[c] THEN [answer |-> a, expires |-> now + session_ttl,
                                    bytes |-> EntrySize(key[c], a)]
                ELSE IF j \in Erased(key[c], rest, n) THEN None ELSE session[j]]
        BY <2>1, <3>2 DEF StoreSession
      <4> QED  BY <4>1
    <3> QED  BY <3>1, <3>2
  <2>5. \A k \in Keys : answers'[k] = answers[k] \/ answers'[k] = a
    BY <2>1 DEF AddAnswer
  <2>6. started < a.stored + options.session_ttl
    BY <2>1, <2>2, <2>3
  <2> QED  BY <2>1, <2>2, <2>4, <2>5, <2>6
<1>5. ASSUME NEW c \in Claims, SetValue(c) \/ Abandon(c) PROVE FreshInv'
  BY <1>5 DEF SetValue, Abandon
<1>6. ASSUME NEW c \in Claims, Release(c) PROVE FreshInv'
  BY <1>6 DEF Release
<1>7. ASSUME NEW c \in Claims, Orphan(c) \/ AwaitFlight(c) \/ Leave(c) PROVE FreshInv'
  BY <1>7, MoveFrame
<1>8. CASE ClearSession
  BY <1>8 DEF ClearSession, ClearSessionLocked
<1>9. CASE QueryEnd
  BY <1>9 DEF QueryEnd
<1>10. CASE Tick
  BY <1>10 DEF Tick
<1>11. CASE UNCHANGED vars
  BY <1>11 DEF vars
<1> QED
  BY <1>1, <1>2, <1>3, <1>4, <1>5, <1>6, <1>7, <1>8, <1>9, <1>10, <1>11
     DEF Next, ClaimStep, OwnerStep

(* Freshness (StoreSession's expiry, Acquire's check, Snapshot's clear): the *)
(* answers a query can serve were within their TTL when it began, however    *)
(* the TTL was changed between queries.                                      *)
THEOREM Freshness == Spec => []NoExpiredAnswer
<1>1. Init => RegistryInv
  BY NoneAssumption DEF Init, RegistryInv, RegistryExact
<1>2. Init => SnapshotInv /\ CachesInv /\ FreshInv
  BY DEF Init, SnapshotInv, CachesInv, FreshInv, Current
<1>3. FreshInv => NoExpiredAnswer
  BY DEF FreshInv, NoExpiredAnswer
<1> QED
  BY <1>1, <1>2, <1>3, TypeInvInit, TypeNext, RegistryNext, SnapshotNext, CachesNext,
     FreshNext, PTL DEF Spec

-----------------------------------------------------------------------------
(* One question, asked once. *)

OnceInv ==
  /\ \A c \in Claims : pc[c] \in {"broken", "late"} => promise[c] = Broken
  /\ \A c \in sent : pc[c] \in Unreleased \cup {"done"} /\ key[c] \in Keys
  /\ \A c \in Claims : key[c] \notin unshared =>
        /\ pc[c] \in {"owner", "sent", "stored", "set"} => c \in enrolled
        /\ pc[c] \in {"owner", "sent"} => answers[key[c]] = None /\ session[key[c]] = None
        /\ Asks(c) /\ pc[c] \notin {"owner", "sent"} => answers[key[c]] # None

LEMMA OnceNext ==
  TypeInv /\ RegistryInv /\ FlightsInv /\ OnceInv /\ [Next]_vars => OnceInv'
<1> SUFFICES ASSUME TypeInv, RegistryInv, FlightsInv, OnceInv, [Next]_vars PROVE OnceInv'
  OBVIOUS
<1> USE DEF TypeInv, TypeOK, ClaimPc, OnceInv, Asks, Unreleased,
            stateVars, sessionVars, scopeVars, claimVars, ghostVars
<1>1. ASSUME NEW S \in SUBSET Claims, Snapshot(S) PROVE OnceInv'
  <2>1. /\ \A c \in S : pc[c] = "idle"
        /\ pc' = [c \in Claims |-> IF c \in S THEN "ready" ELSE pc[c]]
        /\ UNCHANGED <<key, promise, answers, sent, unshared, enrolled>>
    BY <1>1 DEF Snapshot
  <2>2. \A k \in Keys : session'[k] = session[k] \/ session'[k] = None
    BY <1>1 DEF Snapshot, FirstSnapshot, LaterSnapshot, ClearSessionLocked
  <2>3. \A d \in Claims : pc[d] \in {"owner", "sent"} => key[d] \in Keys
    BY DEF ClaimsOK, InProgress
  <2> QED  BY <2>1, <2>2, <2>3
<1>2. ASSUME NEW c \in Claims, NEW k \in Keys, Acquire(c, k) PROVE OnceInv'
  <2>1. /\ pc[c] = "ready" /\ c \notin sent /\ key' = [key EXCEPT ![c] = k]
        /\ UNCHANGED sent
    BY <1>2 DEF Acquire
  <2>2. CASE HitAnswer(c, k)
    <3>1. /\ pc' = [pc EXCEPT ![c] = "waiting"]
          /\ \A d \in Claims \ {c} : promise'[d] = promise[d]
          /\ UNCHANGED <<answers, session, enrolled, unshared>>
      BY <2>2 DEF HitAnswer, HoldReady
    <3> QED  BY <2>1, <3>1
  <2>3. CASE HitSession(c, k)
    <3>1. /\ pc' = [pc EXCEPT ![c] = "waiting"]
          /\ \A d \in Claims \ {c} : promise'[d] = promise[d]
          /\ UNCHANGED <<session, enrolled, unshared>>
          /\ session[k] # None
      BY <2>3 DEF HitSession, HoldReady, Fresh
    <3>2. \/ UNCHANGED answers
          \/ /\ answers' = [answers EXCEPT ![k] = session[k].answer]
             /\ session[k].answer # None
      <4>1. session[k].answer \in Answer
        BY <3>1 DEF Entry
      <4>2. session[k].answer # None
        BY <4>1, NoneAssumption
      <4>3. AddAnswer(k, session[k].answer) \/ UNCHANGED answers
        BY <2>3 DEF HitSession
      <4> QED  BY <4>2, <4>3 DEF AddAnswer
    <3>3. \A d \in Claims : pc[d] \in {"owner", "sent"} /\ key[d] = k => k \in unshared
      BY <3>1
    <3>4. \A j \in Keys : answers'[j] = answers[j] \/ (j = k /\ answers'[j] # None)
      BY <3>2
    <3>5. \A d \in Claims : pc[d] \in Unreleased \/ d \in sent => key[d] \in Keys
      BY DEF ClaimsOK, InProgress
    <3>6. \A d \in Claims \ {c} : pc'[d] = pc[d] /\ key'[d] = key[d]
      BY <2>1, <3>1
    <3>7. pc'[c] = "waiting" /\ c \notin sent'
      BY <2>1, <3>1
    <3> HIDE DEF Unreleased
    <3>8. \A d \in Claims \ {c} : key[d] \notin unshared =>
             /\ pc[d] \in {"owner", "sent"} => answers'[key[d]] = None
             /\ Asks(d) /\ pc[d] \notin {"owner", "sent"} => answers'[key[d]] # None
      BY <3>3, <3>4, <3>5 DEF Unreleased
    <3> QED  BY <2>1, <3>1, <3>6, <3>7, <3>8 DEF Unreleased
  <2>4. CASE Join(c, k)
    <3>1. /\ pc' = [pc EXCEPT ![c] = "waiting"]
          /\ UNCHANGED <<answers, promise, enrolled, unshared>>
          /\ session' = [session EXCEPT ![k] = None] \/ UNCHANGED session
      BY <2>4 DEF Join, DropExpired
    <3>2. \A d \in Claims : pc[d] \in {"owner", "sent"} => key[d] \in Keys
      BY DEF ClaimsOK, InProgress
    <3> QED  BY <2>1, <3>1, <3>2
  <2>5. CASE Own(c, k)
    <3>1. /\ pc' = [pc EXCEPT ![c] = "owner"] /\ UNCHANGED answers /\ answers[k] = None
          /\ \A d \in Claims \ {c} : promise'[d] = promise[d]
          /\ \/ enrolled' = enrolled \cup {c} /\ UNCHANGED unshared
             \/ unshared' = unshared \cup {k} /\ UNCHANGED enrolled
      BY <2>5 DEF Own
    <3>2. /\ session' = [session EXCEPT ![k] = None] \/ UNCHANGED session
          /\ session'[k] = None
      <4>1. session[k] # None => session[k].expires \in Nat
        BY DEF Entry
      <4>2. session[k] # None => Expired(k)
        BY <2>5, <4>1 DEF Own, Fresh, Expired
      <4> QED  BY <2>5, <4>2 DEF Own, DropExpired, Expired
    <3>3. \A d \in Claims : pc[d] \in {"owner", "sent"} => key[d] \in Keys
      BY DEF ClaimsOK, InProgress
    <3> QED  BY <2>1, <3>1, <3>2, <3>3
  <2> QED  BY <1>2, <2>2, <2>3, <2>4, <2>5 DEF Acquire
<1>3. ASSUME NEW S \in SUBSET Claims, NEW requests \in 1 .. Cardinality(S),
             Reserve(S, requests)
      PROVE  OnceInv'
  <2>1. /\ \A c \in S : pc[c] = "owner"
        /\ pc' = [c \in Claims |-> IF c \in S THEN "sent" ELSE pc[c]]
        /\ sent' = sent \cup S
        /\ UNCHANGED <<answers, session, key, promise, enrolled, unshared>>
    BY <1>3 DEF Reserve
  <2>2. \A c \in S : key[c] \in Keys
    BY <2>1 DEF ClaimsOK, InProgress
  <2> QED  BY <2>1, <2>2
<1>4. ASSUME NEW c \in Claims, Store(c) PROVE OnceInv'
  <2>1. PICK a : /\ a.key = key[c] /\ a \in Answer
                 /\ StoreSession(key[c], a)
                 /\ \/ AddAnswer(key[c], a) /\ UNCHANGED unshared
                    \/ unshared' = unshared \cup {key[c]} /\ UNCHANGED answers
    <3>1. key[c] \in Keys /\ opts[c] \in Settings
      BY <1>4 DEF Store, ClaimsOK, InProgress
    <3>2. \A size \in AnswerSizes :
            [key |-> key[c], scope |-> opts[c].scope, stored |-> now, size |-> size]
              \in Answer
      BY <3>1, ConstantsAssumption DEF Answer, Scopes
    <3> QED  BY <1>4, <3>2 DEF Store
  <2>2. /\ pc[c] = "sent" /\ pc' = [pc EXCEPT ![c] = "stored"]
        /\ UNCHANGED <<key, promise, enrolled, sent>>
    BY <1>4 DEF Store
  <2>3. a # None
    BY <2>1, NoneAssumption
  <2>4. key[c] \in Keys
    BY <2>2 DEF ClaimsOK, InProgress
  <2>5. \A k \in Keys \ {key[c]} : session'[k] = session[k] \/ session'[k] = None
    <3>1. CASE UNCHANGED sessionVars
      BY <3>1
    <3>2. CASE ~ UNCHANGED sessionVars
      <4>1. PICK n, rest :
              session' = [j \in Keys |->
                IF j = key[c] THEN [answer |-> a, expires |-> now + session_ttl,
                                    bytes |-> EntrySize(key[c], a)]
                ELSE IF j \in Erased(key[c], rest, n) THEN None ELSE session[j]]
        BY <2>1, <3>2 DEF StoreSession
      <4> QED  BY <4>1
    <3> QED  BY <3>1, <3>2
  <2>6. \A k \in Keys \ {key[c]} : answers'[k] = answers[k]
    BY <2>1 DEF AddAnswer
  <2>7. \A d \in Claims : pc[d] \in {"owner", "sent"} => key[d] \in Keys
    BY DEF ClaimsOK, InProgress
  (* No second claim is asking the same question. *)
  <2>8. \A d \in Claims \ {c} : pc[d] \in {"owner", "sent"} /\ key[d] = key[c]
                               => key[c] \in unshared
    BY <2>2, <2>4 DEF RegistryInv, RegistryExact
  <2>9. key[c] \notin unshared' => answers'[key[c]] = a
    BY <2>1, <2>4 DEF AddAnswer
  <2>10. unshared \subseteq unshared'
    BY <2>1
  <2>11. \A d \in Claims : Asks(d)' /\ pc'[d] \notin {"owner", "sent"} /\ key[d] \notin unshared'
                           => answers'[key[d]] # None
    <3> SUFFICES ASSUME NEW d \in Claims, Asks(d)', pc'[d] \notin {"owner", "sent"},
                        key[d] \notin unshared'
                 PROVE  answers'[key[d]] # None
      BY <2>2
    <3>1. CASE key[d] = key[c]
      BY <3>1, <2>3, <2>9
    <3>2. CASE key[d] # key[c]
      <4>1. Asks(d) /\ pc[d] \notin {"owner", "sent"}
        BY <3>2, <2>2
      <4>2. answers[key[d]] # None
        BY <4>1, <2>10
      <4>3. key[d] \in Keys
        BY <4>1 DEF ClaimsOK, InProgress
      <4>4. answers'[key[d]] = answers[key[d]]
        BY <3>2, <4>3, <2>6
      <4> QED  BY <4>2, <4>4
    <3> QED  BY <3>1, <3>2
  <2> QED  BY <2>2, <2>5, <2>6, <2>7, <2>8, <2>10, <2>11
<1>5. ASSUME NEW c \in Claims, SetValue(c) PROVE OnceInv'
  <2>1. encoded[c] # Broken
    BY <1>5, NoneAssumption DEF SetValue, FlightsInv
  <2> QED  BY <1>5, <2>1 DEF SetValue
<1>6. ASSUME NEW c \in Claims, Abandon(c) PROVE OnceInv'
  BY <1>6 DEF Abandon, BreakPromise
<1>7. ASSUME NEW c \in Claims, Release(c) PROVE OnceInv'
  <2>1. /\ pc[c] \in {"set", "broken", "late"} /\ pc' = [pc EXCEPT ![c] = "done"]
        /\ UNCHANGED <<answers, session, key, promise, sent, unshared>>
        /\ enrolled' = enrolled \ {c}
    BY <1>7 DEF Release
  <2> QED  BY <2>1
<1>8. ASSUME NEW c \in Claims, Orphan(c) \/ AwaitFlight(c) \/ Leave(c) PROVE OnceInv'
  <2>1. UNCHANGED <<answers, session, key, promise, sent, unshared, enrolled>>
    BY <1>8, MoveFrame
  <2>2. CASE pc[c] = "sent" /\ pc' = [pc EXCEPT ![c] = "orphan"]
    BY <2>1, <2>2
  <2>3. CASE pc[c] \in {"ready", "waiting"} /\ pc' = [pc EXCEPT ![c] = "done"]
    BY <2>1, <2>3
  <2> QED  BY <1>8, MoveFrame, <2>2, <2>3
<1>9. CASE ClearSession
  <2>1. \A d \in Claims : pc[d] \in {"owner", "sent"} => key[d] \in Keys
    BY DEF ClaimsOK, InProgress
  <2> QED  BY <1>9, <2>1 DEF ClearSession, ClearSessionLocked
<1>10. CASE QueryEnd
  <2>1. /\ \A c \in Claims : pc[c] \in {"idle", "done", "orphan", "late"}
        /\ pc' = [c \in Claims |-> IF pc[c] = "done" THEN "idle" ELSE pc[c]]
        /\ \A c \in Claims : pc[c] # "done" => promise'[c] = promise[c]
        /\ sent' = {}
    BY <1>10 DEF QueryEnd
  <2> QED  BY <2>1
<1>11. CASE Tick
  BY <1>11 DEF Tick
<1>12. CASE UNCHANGED vars
  BY <1>12 DEF vars
<1> QED
  BY <1>1, <1>2, <1>3, <1>4, <1>5, <1>6, <1>7, <1>8, <1>9, <1>10, <1>11, <1>12
     DEF Next, ClaimStep, OwnerStep

(* Only Own makes a claim ask. *)
LEMMA AsksFrame ==
  ASSUME TypeInv, OnceInv, Next, ~QueryEnd,
         \A c \in Claims, k \in Keys : ~(Acquire(c, k) /\ Own(c, k))
  PROVE  /\ \A d \in Claims : Asks(d)' => Asks(d) /\ key'[d] = key[d]
         /\ unshared \subseteq unshared'
<1> USE DEF TypeInv, TypeOK, ClaimPc, OnceInv, Asks, Unreleased,
            stateVars, sessionVars, scopeVars, claimVars, ghostVars
<1> DEFINE Goal == /\ \A d \in Claims : Asks(d)' => Asks(d) /\ key'[d] = key[d]
                   /\ unshared \subseteq unshared'
<1>1. ASSUME NEW S \in SUBSET Claims, Snapshot(S) PROVE Goal
  BY <1>1 DEF Snapshot
<1>2. ASSUME NEW c \in Claims, NEW k \in Keys, Acquire(c, k) PROVE Goal
  <2>1. /\ pc[c] = "ready" /\ pc' = [pc EXCEPT ![c] = "waiting"] /\ UNCHANGED <<sent, unshared>>
        /\ key' = [key EXCEPT ![c] = k]
        /\ \A d \in Claims \ {c} : promise'[d] = promise[d]
    BY <1>2 DEF Acquire, HitAnswer, HitSession, Join, HoldReady
  <2> QED  BY <2>1
<1>3. ASSUME NEW S \in SUBSET Claims, NEW requests \in 1 .. Cardinality(S),
             Reserve(S, requests)
      PROVE  Goal
  BY <1>3 DEF Reserve
<1>4. ASSUME NEW c \in Claims, Store(c) PROVE Goal
  <2>1. /\ pc[c] = "sent" /\ pc' = [pc EXCEPT ![c] = "stored"]
        /\ UNCHANGED <<key, promise, sent>> /\ unshared \subseteq unshared'
    BY <1>4 DEF Store
  <2> QED  BY <2>1
<1>5. ASSUME NEW c \in Claims, SetValue(c) PROVE Goal
  BY <1>5 DEF SetValue
<1>6. ASSUME NEW c \in Claims, Abandon(c) PROVE Goal
  BY <1>6 DEF Abandon, BreakPromise
<1>7. ASSUME NEW c \in Claims, Release(c) PROVE Goal
  <2>1. /\ pc[c] \in {"set", "broken", "late"} /\ pc' = [pc EXCEPT ![c] = "done"]
        /\ UNCHANGED <<key, promise, sent, unshared>>
    BY <1>7 DEF Release
  <2> QED  BY <2>1
<1>8. ASSUME NEW c \in Claims, Orphan(c) \/ AwaitFlight(c) \/ Leave(c) PROVE Goal
  <2>1. UNCHANGED <<key, promise, sent, unshared>>
    BY <1>8, MoveFrame
  <2> QED  BY <1>8, MoveFrame, <2>1
<1>9. CASE ClearSession
  BY <1>9 DEF ClearSession
<1>10. CASE Tick
  BY <1>10 DEF Tick
<1> QED
  BY <1>1, <1>2, <1>3, <1>4, <1>5, <1>6, <1>7, <1>8, <1>9, <1>10
     DEF Next, ClaimStep, OwnerStep

LEMMA AskedOnceNext ==
  TypeInv /\ RegistryInv /\ OnceInv /\ AskedOnce /\ [Next]_vars => AskedOnce'
<1> SUFFICES ASSUME TypeInv, RegistryInv, OnceInv, AskedOnce, [Next]_vars PROVE AskedOnce'
  OBVIOUS
<1>1. ASSUME NEW c \in Claims, NEW k \in Keys, Acquire(c, k), Own(c, k) PROVE AskedOnce'
  <2> USE DEF TypeInv, TypeOK
  <2>1. /\ pc[c] = "ready" /\ pc' = [pc EXCEPT ![c] = "owner"]
        /\ key' = [key EXCEPT ![c] = k]
        /\ UNCHANGED sent /\ unshared \subseteq unshared'
        /\ answers[k] = None /\ flights[k] = None
        /\ \A d \in Claims \ {c} : promise'[d] = promise[d]
    BY <1>1 DEF Acquire, Own
  <2>2. \A d \in Claims \ {c} : Asks(d)' => Asks(d) /\ key'[d] = key[d]
    BY <2>1 DEF Asks
  <2>3. \A d \in Claims : Asks(d) /\ key[d] = k => k \in unshared
    <3> SUFFICES ASSUME NEW d \in Claims, Asks(d), key[d] = k, k \notin unshared
                 PROVE  FALSE
      OBVIOUS
    <3>1. CASE pc[d] \in {"owner", "sent"}
      <4>1. d \in enrolled
        BY <3>1 DEF OnceInv
      <4>2. flights[k] = d
        BY <4>1 DEF RegistryInv, RegistryExact
      <4> QED  BY <4>2, <2>1, NoneAssumption
    <3>2. CASE pc[d] \notin {"owner", "sent"}
      BY <3>2, <2>1 DEF OnceInv
    <3> QED  BY <3>1, <3>2
  <2> QED  BY <2>1, <2>2, <2>3 DEF AskedOnce
<1>2. CASE QueryEnd
  <2>1. \A c \in Claims : pc'[c] \in {"idle", "orphan", "late"}
    BY <1>2 DEF QueryEnd
  <2> QED  BY <2>1 DEF AskedOnce, Asks
<1>3. CASE /\ Next /\ ~QueryEnd
           /\ \A c \in Claims, k \in Keys : ~(Acquire(c, k) /\ Own(c, k))
  <2>1. /\ \A d \in Claims : Asks(d)' => Asks(d) /\ key'[d] = key[d]
        /\ unshared \subseteq unshared'
    BY <1>3, AsksFrame
  <2> QED  BY <2>1 DEF AskedOnce
<1>4. CASE UNCHANGED vars
  BY <1>4 DEF vars, AskedOnce, Asks, claimVars, ghostVars
<1> QED  BY <1>1, <1>2, <1>3, <1>4

(* Asked once (Acquire, Complete's order of Store and Release): as long as   *)
(* the caches have room for a key, its question is dispatched by one owner   *)
(* of a query only, whatever number of evaluators want it.                   *)
THEOREM OneRequestPerKey == Spec => []AskedOnce
<1>1. Init => RegistryInv
  BY NoneAssumption DEF Init, RegistryInv, RegistryExact
<1>2. Init => IsolationInv
  BY NoneAssumption DEF Init, IsolationInv, SnapshotInv, CachesInv, FlightsInv, Current
<1>3. Init => OnceInv /\ AskedOnce
  BY DEF Init, OnceInv, AskedOnce, Asks
<1>4. TypeInv /\ RegistryInv /\ IsolationInv /\ [Next]_vars => IsolationInv'
  BY SnapshotNext, CachesNext, FlightsNext DEF IsolationInv
<1>5. IsolationInv => FlightsInv
  BY DEF IsolationInv
<1> QED
  BY <1>1, <1>2, <1>3, <1>4, <1>5, TypeInvInit, TypeNext, RegistryNext, OnceNext,
     AskedOnceNext, PTL DEF Spec

-----------------------------------------------------------------------------
(* The budgets: what is counted covers what is sent, and nothing is counted  *)
(* before the snapshot.                                                      *)
BudgetInv ==
  /\ Cardinality(sent) <= query_questions
  /\ IF options = None
       THEN query_questions = 0 /\ query_requests = 0
       ELSE /\ query_questions <= options.max_query_questions
            /\ query_requests <= options.max_query_requests

LEMMA BudgetNext ==
  TypeInv /\ SnapshotInv /\ BudgetInv /\ [Next]_vars => BudgetInv'
<1> SUFFICES ASSUME TypeInv, SnapshotInv, BudgetInv, [Next]_vars PROVE BudgetInv'
  OBVIOUS
<1>1. ASSUME NEW S \in SUBSET Claims, NEW requests \in 1 .. Cardinality(S), Reserve(S, requests)
      PROVE  BudgetInv'
  <2>1. IsFiniteSet(S) /\ IsFiniteSet(sent) /\ Cardinality(S) \in Nat /\ Cardinality(sent) \in Nat
    BY ConstantsAssumption, FS_Subset, FS_CardinalityType DEF TypeInv, TypeOK
  <2>2. /\ Cardinality(sent \cup S) = Cardinality(sent) + Cardinality(S) - Cardinality(sent \cap S)
        /\ Cardinality(sent \cap S) \in Nat
    BY <2>1, FS_Union, FS_Subset, FS_CardinalityType
  <2>3. options # None /\ options \in Settings
    <3>1. PICK c \in S : pc[c] = "owner"
      BY <1>1 DEF Reserve
    <3> QED
      BY <3>1, NoneAssumption DEF SnapshotInv, Current, TypeInv, TypeOK, ClaimsOK, InProgress
  <2>4. /\ options.max_query_questions \in Nat /\ options.max_query_requests \in Nat
        /\ query_questions \in Nat /\ query_requests \in Nat
    BY <2>3, ConstantsAssumption DEF TypeInv, TypeOK
  <2>5. /\ Cardinality(S) <= options.max_query_questions - query_questions
        /\ requests <= options.max_query_requests - query_requests
    BY <1>1, <2>3, <2>4 DEF Reserve, BudgetLeft, SizeT, BudgetInv
  <2>6. /\ sent' = sent \cup S /\ query_questions' = query_questions + Cardinality(S)
        /\ query_requests' = query_requests + requests /\ options' = options
    BY <1>1 DEF Reserve
  <2> QED
    BY <2>1, <2>2, <2>3, <2>4, <2>5, <2>6 DEF BudgetInv
<1>2. ASSUME NEW S \in SUBSET Claims, Snapshot(S) PROVE BudgetInv'
  <2>1. /\ UNCHANGED <<query_questions, query_requests, sent>>
        /\ options' = options \/ (options = None /\ options' \in Settings)
    BY <1>2 DEF Snapshot, FirstSnapshot, LaterSnapshot
  <2>2. CASE options' = options
    BY <2>1, <2>2 DEF BudgetInv
  <2>3. CASE options = None /\ options' \in Settings
    BY <2>1, <2>3, ConstantsAssumption, NoneAssumption DEF BudgetInv
  <2> QED
    BY <2>1, <2>2, <2>3
<1>3. CASE QueryEnd
  BY <1>3, FS_EmptySet DEF QueryEnd, BudgetInv
<1>4. ASSUME UNCHANGED <<options, query_questions, query_requests, sent>> PROVE BudgetInv'
  BY <1>4 DEF BudgetInv
<1>5. ASSUME NEW c \in Claims, ClaimStep(c) PROVE BudgetInv'
  BY <1>4, <1>5 DEF ClaimStep, OwnerStep, Acquire, Store, SetValue, Release, Abandon, Orphan,
                    AwaitFlight, Leave, stateVars, ghostVars
<1>6. CASE ClearSession \/ Tick \/ UNCHANGED vars
  BY <1>4, <1>6 DEF ClearSession, Tick, vars, stateVars, ghostVars
<1> QED
  BY <1>1, <1>2, <1>3, <1>5, <1>6 DEF Next

(* Budgets (Reserve, QueryEnd): no query dispatches more questions or        *)
(* requests than its limits, and no difference of theirs wraps.              *)
THEOREM Budgets == Spec => []WithinBudget
<1>1. Init => RegistryInv
  BY NoneAssumption DEF Init, RegistryInv, RegistryExact
<1>2. Init => IsolationInv
  BY NoneAssumption DEF Init, IsolationInv, SnapshotInv, CachesInv, FlightsInv, Current
<1>3. Init => BudgetInv
  BY FS_EmptySet DEF Init, BudgetInv
<1>4. TypeInv /\ RegistryInv /\ IsolationInv /\ [Next]_vars => IsolationInv'
  BY SnapshotNext, CachesNext, FlightsNext DEF IsolationInv
<1>5. IsolationInv => SnapshotInv
  BY DEF IsolationInv
<1>6. TypeInv /\ BudgetInv => WithinBudget
  <2> SUFFICES ASSUME TypeInv, BudgetInv, options # None PROVE WithinBudget
    BY DEF WithinBudget
  <2>1. /\ Cardinality(sent) \in Nat /\ query_questions \in Nat /\ options \in Settings
    BY ConstantsAssumption, FS_Subset, FS_CardinalityType DEF TypeInv, TypeOK
  <2> QED
    BY <2>1, ConstantsAssumption DEF BudgetInv, WithinBudget
<1> QED
  BY <1>1, <1>2, <1>3, <1>4, <1>5, <1>6, TypeInvInit, TypeNext, RegistryNext, BudgetNext, PTL DEF Spec

-----------------------------------------------------------------------------
(* The session cache: its list and its account. *)

(* The keys held when one gets a value. *)
LEMMA HeldAdd ==
  ASSUME NEW V, NEW f \in [Keys -> V \cup {None}], NEW k \in Keys, NEW v, v # None
  PROVE  Held([f EXCEPT ![k] = v]) = Held(f) \cup {k}
  BY DEF Held

(* The keys held when one loses it. *)
LEMMA HeldDrop ==
  ASSUME NEW V, NEW f \in [Keys -> V \cup {None}], NEW k \in Keys
  PROVE  Held([f EXCEPT ![k] = None]) = Held(f) \ {k}
  BY DEF Held

(* Taking an element out of a sequence without repetition. *)
LEMMA WithoutIs ==
  ASSUME NEW s \in Seq(Keys), IsInjective(s), NEW k
  PROVE  \/ k \notin Range(s) /\ Without(s, k) = s
         \/ \E i \in 1 .. Len(s) :
              /\ s[i] = k
              /\ Without(s, k) \in Seq(Keys) /\ Len(Without(s, k)) = Len(s) - 1
              /\ \A m \in 1 .. Len(s) - 1 : Without(s, k)[m] = IF m < i THEN s[m] ELSE s[m + 1]
<1>1. CASE \E i \in DOMAIN s : s[i] = k
  <2> DEFINE i == CHOOSE i \in DOMAIN s : s[i] = k
  <2>1. i \in 1 .. Len(s) /\ s[i] = k
    BY <1>1
  <2> HIDE DEF i
  <2>2. Without(s, k) = SubSeq(s, 1, i - 1) \o SubSeq(s, i + 1, Len(s))
    BY <1>1 DEF Without, i
  <2> DEFINE a == SubSeq(s, 1, i - 1)
             b == SubSeq(s, i + 1, Len(s))
  <2>3. /\ a \in Seq(Keys) /\ Len(a) = i - 1 /\ \A m \in 1 .. i - 1 : a[m] = s[m]
        /\ b \in Seq(Keys) /\ Len(b) = Len(s) - i
        /\ \A m \in 1 .. Len(s) - i : b[m] = s[i + m]
    BY <2>1
  <2> HIDE DEF a, b
  <2>4. /\ a \o b \in Seq(Keys) /\ Len(a \o b) = Len(s) - 1
        /\ \A m \in 1 .. Len(s) - 1 : (a \o b)[m] = IF m < i THEN s[m] ELSE s[m + 1]
    <3>0. Len(s) \in Nat /\ i \in Int
      BY <2>1
    <3>1. a \o b \in Seq(Keys) /\ Len(a \o b) = Len(s) - 1
      <4>1. a \o b \in Seq(Keys) /\ Len(a \o b) = Len(a) + Len(b)
        BY <2>3
      <4> QED BY <2>3, <3>0, <4>1
    <3>2. ASSUME NEW m \in 1 .. Len(s) - 1 PROVE (a \o b)[m] = IF m < i THEN s[m] ELSE s[m + 1]
      <4>1. (a \o b)[m] = IF m <= i - 1 THEN a[m] ELSE b[m - (i - 1)]
        BY <2>1, <2>3
      <4>2. CASE m < i
        BY <2>1, <2>3, <4>1, <4>2
      <4>3. CASE m >= i
        <5>1. m - (i - 1) \in 1 .. Len(s) - i /\ i + (m - (i - 1)) = m + 1
          BY <2>1, <4>3
        <5>2. b[m - (i - 1)] = s[i + (m - (i - 1))]
          BY <2>3, <5>1
        <5> QED BY <2>1, <4>1, <4>3, <5>1, <5>2
      <4>4. m < i \/ m >= i
        BY <3>0
      <4> QED BY <4>2, <4>3, <4>4
    <3> QED BY <3>1, <3>2
  <2> QED BY <2>1, <2>2, <2>4 DEF a, b
<1>2. CASE ~ \E i \in DOMAIN s : s[i] = k
  BY <1>2 DEF Without, Range
<1> QED BY <1>1, <1>2

(* What is left keeps its order. *)
LEMMA WithoutOrder ==
  ASSUME NEW s \in Seq(Keys), IsInjective(s), NEW k
  PROVE  /\ IsInjective(Without(s, k)) /\ Range(Without(s, k)) = Range(s) \ {k}
         /\ Len(Without(s, k)) <= Len(s)
         /\ k \in Range(s) => Len(Without(s, k)) = Len(s) - 1
         /\ \A x, y : Before(Without(s, k), x, y) <=> x # k /\ y # k /\ Before(s, x, y)
<1>1. CASE k \notin Range(s) /\ Without(s, k) = s
  BY <1>1 DEF Range, Before
<1>2. CASE \E i \in 1 .. Len(s) :
              /\ s[i] = k
              /\ Without(s, k) \in Seq(Keys) /\ Len(Without(s, k)) = Len(s) - 1
              /\ \A m \in 1 .. Len(s) - 1 : Without(s, k)[m] = IF m < i THEN s[m] ELSE s[m + 1]
  <2>1. PICK i \in 1 .. Len(s) :
              /\ s[i] = k
              /\ Without(s, k) \in Seq(Keys) /\ Len(Without(s, k)) = Len(s) - 1
              /\ \A m \in 1 .. Len(s) - 1 : Without(s, k)[m] = IF m < i THEN s[m] ELSE s[m + 1]
    BY <1>2
  <2> DEFINE t == Without(s, k)
             n == Len(s)
  <2>2. /\ DOMAIN s = 1 .. n /\ n \in Nat /\ \A p, q \in 1 .. n : s[p] = s[q] => p = q
        /\ DOMAIN t = 1 .. n - 1
        /\ \A m \in 1 .. n - 1 : t[m] = IF m < i THEN s[m] ELSE s[m + 1]
    BY <2>1 DEF IsInjective
  <2> HIDE DEF t, n
  <2>3. IsInjective(t)
    BY <2>1, <2>2 DEF IsInjective
  <2>4. Range(t) = Range(s) \ {k}
    <3>1. ASSUME NEW x \in Range(t) PROVE x \in Range(s) \ {k}
      BY <2>1, <2>2, <3>1 DEF Range, n
    <3>2. ASSUME NEW x \in Range(s) \ {k} PROVE x \in Range(t)
      <4>1. PICK p \in 1 .. n : s[p] = x /\ p # i
        BY <2>1, <2>2, <3>2 DEF Range
      <4>2. CASE p < i
        BY <2>1, <2>2, <4>1, <4>2 DEF Range, n
      <4>3. CASE p > i
        <5>1. p - 1 \in 1 .. n - 1 /\ t[p - 1] = x
          BY <2>1, <2>2, <4>1, <4>3 DEF n
        <5> QED BY <2>2, <5>1 DEF Range
      <4> QED BY <2>1, <4>1, <4>2, <4>3
    <3> QED BY <3>1, <3>2
  <2>5. ASSUME NEW x, NEW y PROVE Before(t, x, y) <=> x # k /\ y # k /\ Before(s, x, y)
    <3>1. ASSUME Before(t, x, y) PROVE x # k /\ y # k /\ Before(s, x, y)
      <4>1. PICK p, q \in 1 .. n - 1 : p < q /\ t[p] = x /\ t[q] = y
        BY <2>2, <3>1 DEF Before
      <4> DEFINE up(m) == IF m < i THEN m ELSE m + 1
      <4>2. /\ up(p) \in 1 .. n /\ up(q) \in 1 .. n /\ up(p) < up(q)
            /\ up(p) # i /\ up(q) # i /\ s[up(p)] = x /\ s[up(q)] = y
        BY <2>1, <2>2, <4>1 DEF n
      <4> HIDE DEF up
      <4> QED BY <2>1, <2>2, <4>2 DEF Before, n
    <3>2. ASSUME x # k, y # k, Before(s, x, y) PROVE Before(t, x, y)
      <4>1. PICK p, q \in 1 .. n : p < q /\ s[p] = x /\ s[q] = y
        BY <2>2, <3>2 DEF Before
      <4> DEFINE down(m) == IF m < i THEN m ELSE m - 1
      <4>2. p # i /\ q # i
        BY <2>1, <3>2, <4>1
      <4>3. /\ down(p) \in 1 .. n - 1 /\ down(q) \in 1 .. n - 1 /\ down(p) < down(q)
            /\ t[down(p)] = x /\ t[down(q)] = y
        BY <2>1, <2>2, <4>1, <4>2 DEF n
      <4> HIDE DEF down
      <4> QED BY <2>2, <4>3 DEF Before
    <3> QED BY <3>1, <3>2
  <2>6. Len(t) = n - 1 /\ n - 1 <= n /\ k \in Range(s)
    BY <2>1, <2>2 DEF t, n, Range
  <2> QED BY <2>3, <2>4, <2>5, <2>6 DEF t, n
<1> QED BY <1>1, <1>2, WithoutIs


(* A key moved or put to the front comes before all others. *)
LEMMA ToFrontOrder ==
  ASSUME NEW s \in Seq(Keys), IsInjective(s), NEW k \in Keys
  PROVE  /\ IsInjective(ToFront(s, k)) /\ Range(ToFront(s, k)) = Range(s) \cup {k}
         /\ Len(ToFront(s, k)) = Len(Without(s, k)) + 1
         /\ \A x, y : Before(ToFront(s, k), x, y) <=>
                        \/ x = k /\ y \in Range(s) \ {k}
                        \/ x # k /\ y # k /\ Before(s, x, y)
<1> DEFINE t == Without(s, k)
           f == <<k>> \o t
           n == Len(t)
<1>1. /\ t \in Seq(Keys) /\ IsInjective(t) /\ Range(t) = Range(s) \ {k}
      /\ \A x, y : Before(t, x, y) <=> x # k /\ y # k /\ Before(s, x, y)
  BY WithoutOrder, WithoutType
<1>2. ToFront(s, k) = f
  BY DEF ToFront
<1> HIDE DEF t
<1>3. /\ DOMAIN t = 1 .. n /\ n \in Nat /\ DOMAIN f = 1 .. n + 1 /\ Len(f) = n + 1
      /\ f[1] = k /\ \A m \in 1 .. n : f[m + 1] = t[m]
  BY <1>1
<1> HIDE DEF f, n
<1>4. \A m \in 2 .. n + 1 : f[m] = t[m - 1] /\ m - 1 \in 1 .. n
  <2> SUFFICES ASSUME NEW m \in 2 .. n + 1 PROVE f[m] = t[m - 1] /\ m - 1 \in 1 .. n
    OBVIOUS
  <2>1. m - 1 \in 1 .. n /\ (m - 1) + 1 = m
    BY <1>3
  <2> QED BY <1>3, <2>1
<1>5. \A m \in 1 .. n : t[m] # k
  BY <1>1, <1>3 DEF Range
<1>6. IsInjective(f)
  <2> SUFFICES ASSUME NEW p \in 1 .. n + 1, NEW q \in 1 .. n + 1, f[p] = f[q] PROVE p = q
    BY <1>3 DEF IsInjective
  <2>1. CASE p = 1 \/ q = 1
    BY <1>3, <1>4, <1>5, <2>1
  <2>2. CASE p # 1 /\ q # 1
    <3>1. /\ p - 1 \in DOMAIN t /\ q - 1 \in DOMAIN t
          /\ t[p - 1] = t[q - 1]
      BY <1>3, <1>4, <2>2
    <3>2. p - 1 = q - 1
      BY <1>1, <3>1 DEF IsInjective
    <3> QED BY <1>3, <3>2
  <2> QED BY <2>1, <2>2
<1>7. Range(f) = Range(t) \cup {k}
  <2>1. ASSUME NEW x \in Range(f) PROVE x \in Range(t) \cup {k}
    <3>1. PICK p \in 1 .. n + 1 : f[p] = x
      BY <1>3, <2>1 DEF Range
    <3> QED BY <1>3, <1>4, <3>1 DEF Range
  <2>2. ASSUME NEW x \in Range(t) \cup {k} PROVE x \in Range(f)
    <3>1. CASE x = k
      <4>1. 1 \in DOMAIN f
        BY <1>3
      <4> QED BY <1>3, <3>1, <4>1 DEF Range
    <3>2. CASE x \in Range(t)
      <4>1. PICK p \in 1 .. n : t[p] = x
        BY <1>3, <3>2 DEF Range
      <4>2. p + 1 \in DOMAIN f /\ f[p + 1] = x
        BY <1>3, <4>1
      <4> QED BY <4>2 DEF Range
    <3> QED BY <2>2, <3>1, <3>2
  <2> QED BY <2>1, <2>2
<1>8. ASSUME NEW x, NEW y
      PROVE  Before(f, x, y) <=> \/ x = k /\ y \in Range(t)
                                 \/ x # k /\ y # k /\ Before(t, x, y)
  <2>1. ASSUME Before(f, x, y)
        PROVE  \/ x = k /\ y \in Range(t)
               \/ x # k /\ y # k /\ Before(t, x, y)
    <3>1. PICK p, q \in 1 .. n + 1 : p < q /\ f[p] = x /\ f[q] = y
      BY <1>3, <2>1 DEF Before
    <3>2. q - 1 \in 1 .. n /\ y = t[q - 1] /\ y # k
      BY <1>3, <1>4, <1>5, <3>1
    <3>3. CASE p = 1
      BY <1>3, <3>1, <3>2, <3>3 DEF Range
    <3>4. CASE p # 1
      <4>1. p - 1 \in 1 .. n /\ x = t[p - 1] /\ x # k /\ p - 1 < q - 1
        BY <1>3, <1>4, <1>5, <3>1, <3>4
      <4> QED BY <1>3, <3>2, <4>1 DEF Before
    <3> QED BY <3>3, <3>4
  <2>2. ASSUME x = k, y \in Range(t) PROVE Before(f, x, y)
    <3>1. PICK q \in 1 .. n : t[q] = y
      BY <1>3, <2>2 DEF Range
    <3>2. 1 \in DOMAIN f /\ q + 1 \in DOMAIN f /\ 1 < q + 1 /\ f[1] = x /\ f[q + 1] = y
      BY <1>3, <2>2, <3>1
    <3> QED BY <3>2 DEF Before
  <2>3. ASSUME Before(t, x, y) PROVE Before(f, x, y)
    <3>1. PICK p, q \in 1 .. n : p < q /\ t[p] = x /\ t[q] = y
      BY <1>3, <2>3 DEF Before
    <3>2. p + 1 \in DOMAIN f /\ q + 1 \in DOMAIN f /\ p + 1 < q + 1 /\ f[p + 1] = x /\ f[q + 1] = y
      BY <1>3, <3>1
    <3> QED BY <3>2 DEF Before
  <2> QED BY <2>1, <2>2, <2>3
<1>9. Len(ToFront(s, k)) = Len(Without(s, k)) + 1
  BY <1>2, <1>3 DEF t, n
<1>10. k \in Range(s) \/ k \notin Range(s)
  OBVIOUS
<1> QED BY <1>1, <1>2, <1>6, <1>7, <1>8, <1>9

(* The front of a sequence without repetition. *)
LEMMA FrontOrder ==
  ASSUME NEW s \in Seq(Keys), IsInjective(s), NEW n \in 0 .. Len(s)
  PROVE  LET t    == SubSeq(s, 1, Len(s) - n)
             last == { s[i] : i \in Len(s) - n + 1 .. Len(s) }
         IN  /\ t \in Seq(Keys) /\ Len(t) = Len(s) - n
             /\ IsInjective(t) /\ Range(t) = Range(s) \ last
             /\ \A x, y \in Range(t) : Before(t, x, y) <=> Before(s, x, y)
<1> DEFINE t    == SubSeq(s, 1, Len(s) - n)
           last == { s[i] : i \in Len(s) - n + 1 .. Len(s) }
           m    == Len(s) - n
<1>1. /\ t \in Seq(Keys) /\ Len(t) = m /\ DOMAIN t = 1 .. m /\ m \in 0 .. Len(s)
      /\ \A i \in 1 .. m : t[i] = s[i]
      /\ DOMAIN s = 1 .. Len(s) /\ Len(s) \in Nat
  OBVIOUS
<1>2. last = { s[i] : i \in m + 1 .. Len(s) }
  OBVIOUS
<1> HIDE DEF t, m, last
<1>3. IsInjective(t)
  BY <1>1 DEF IsInjective
<1>4. Range(t) = Range(s) \ last
  <2>1. ASSUME NEW x \in Range(t) PROVE x \in Range(s) \ last
    BY <1>1, <1>2, <2>1 DEF Range, IsInjective
  <2>2. ASSUME NEW x \in Range(s) \ last PROVE x \in Range(t)
    <3>1. PICK p \in 1 .. Len(s) : s[p] = x
      BY <1>1, <2>2 DEF Range
    <3>2. p <= m
      BY <1>1, <1>2, <2>2, <3>1
    <3>3. p \in 1 .. m
      BY <1>1, <3>2
    <3> QED BY <1>1, <3>1, <3>3 DEF Range
  <2> QED BY <2>1, <2>2
<1>5. ASSUME NEW x \in Range(t), NEW y \in Range(t) PROVE Before(t, x, y) <=> Before(s, x, y)
  <2>1. ASSUME Before(t, x, y) PROVE Before(s, x, y)
    BY <1>1, <2>1 DEF Before
  <2>2. ASSUME Before(s, x, y) PROVE Before(t, x, y)
    <3>1. PICK p, q \in 1 .. Len(s) : p < q /\ s[p] = x /\ s[q] = y
      BY <1>1, <2>2 DEF Before
    <3>2. PICK a, b \in 1 .. m : t[a] = x /\ t[b] = y
      BY <1>1, <1>5 DEF Range
    <3>3. a = p /\ b = q
      BY <1>1, <3>1, <3>2 DEF IsInjective
    <3> QED BY <1>1, <3>1, <3>2, <3>3 DEF Before
  <2> QED BY <2>1, <2>2
<1> QED BY <1>1, <1>3, <1>4, <1>5 DEF t, m, last

(* The session cache: its list holds each cached key once, in the order of *)
(* use, and its account is the sum of its entries and within the budget.   *)
SessionInv ==
  /\ IsInjective(lru) /\ IsInjective(recent)
  /\ Range(lru) = Held(session) /\ Held(session) \subseteq Range(recent)
  /\ LruIsRecency
  /\ session_bytes = SessionBytes(Held(session)) /\ session_bytes <= session_budget
  /\ Len(lru) <= MaxSession

(* A sequence without repetition is as long as its range is large.         *)
LEMMA RangeFinite ==
  ASSUME NEW s \in Seq(Keys), IsInjective(s)
  PROVE  IsFiniteSet(Range(s)) /\ Cardinality(Range(s)) = Len(s)
<1>1. DOMAIN s = 1 .. Len(s) /\ Len(s) \in Nat
  OBVIOUS
<1>2. s \in Bijection(1 .. Len(s), Range(s))
  <2>1. s \in [1 .. Len(s) -> Range(s)]
    BY <1>1 DEF Range
  <2>2. \A t \in Range(s) : \E i \in 1 .. Len(s) : s[i] = t
    BY <1>1 DEF Range
  <2> QED BY <2>1, <2>2 DEF Bijection, Injection, Surjection
<1>3. ExistsBijection(1 .. Len(s), Range(s))
  BY <1>2 DEF ExistsBijection
<1>4. IsFiniteSet(1 .. Len(s)) /\ Cardinality(1 .. Len(s)) = Len(s)
  BY <1>1, FS_Interval
<1> QED BY <1>3, <1>4, FS_Bijection

(* What the entries of a set of cached keys weigh. *)
Weight(ses) == [k \in Held(ses) |-> ses[k].bytes]

(* The weights of a part of the cache and of the rest. *)
LEMMA SessionWeights ==
  ASSUME NEW ses \in [Keys -> Entry \cup {None}], IsFiniteSet(Held(ses)),
         NEW U \in SUBSET Held(ses)
  PROVE  /\ SumFunction([k \in U |-> ses[k].bytes]) = SumFunctionOnSet(Weight(ses), U)
         /\ SumFunctionOnSet(Weight(ses), U) \in Nat
         /\ SumFunctionOnSet(Weight(ses), Held(ses) \ U) \in Nat
         /\ SumFunctionOnSet(Weight(ses), Held(ses))
              = SumFunctionOnSet(Weight(ses), U) + SumFunctionOnSet(Weight(ses), Held(ses) \ U)
<1> DEFINE v == [k \in U |-> ses[k].bytes]
           w == Weight(ses)
           H == Held(ses)
<1>1. \A k \in H : w[k] \in Nat
  BY DEF Entry, Held, Weight
<1>2. IsFiniteSet(U) /\ \A k \in U : v[k] = w[k]
  BY FS_Subset DEF Weight
<1>3. SumFunctionOnSet(v, U) = SumFunctionOnSet(w, U)
  <2> HIDE DEF v, w, H
  <2> QED BY <1>2, SumSame
<1>4. SumFunction(v) = SumFunctionOnSet(v, U)
  BY DEF SumFunction
<1>5. /\ SumFunctionOnSet(w, U) \in Nat /\ SumFunctionOnSet(w, H \ U) \in Nat
      /\ SumFunctionOnSet(w, H) = SumFunctionOnSet(w, U) + SumFunctionOnSet(w, H \ U)
  <2>0. IsFiniteSet(H) /\ U \in SUBSET H
    OBVIOUS
  <2> HIDE DEF v, w, H
  <2>1. SumFunctionOnSet(w, U) \in Nat /\ SumFunctionOnSet(w, H \ U) \in Nat
    BY <1>1, <2>0, SumSplit
  <2>2. SumFunctionOnSet(w, H) = SumFunctionOnSet(w, U) + SumFunctionOnSet(w, H \ U)
    BY <1>1, <2>0, SumSplit
  <2> QED BY <2>1, <2>2
<1> QED BY <1>3, <1>4, <1>5

(* An entry that has expired is taken out of the map, the list and the     *)
(* account (jev_extension.cpp:352-360).                                    *)
LEMMA DropExpiredSession ==
  ASSUME TypeOK, SessionInv, NEW k \in Keys, DropExpired(k), session_budget' = session_budget
  PROVE  SessionInv'
<1>1. CASE UNCHANGED sessionVars
  BY <1>1 DEF SessionInv, LruIsRecency, SessionBytes, Held, Before, sessionVars
<1>2. CASE Expired(k)
  <2> DEFINE H == Held(session)
             w == Weight(session)
             b == session[k].bytes
  <2>1. /\ session_bytes' = SizeT(session_bytes - b) /\ lru' = Without(lru, k)
        /\ session' = [session EXCEPT ![k] = None] /\ recent' = recent
        /\ k \in H /\ lru \in Seq(Keys) /\ session \in [Keys -> Entry \cup {None}]
    BY <1>2 DEF DropExpired, Expired, Held, TypeOK
  <2>2. Held(session') = H \ {k}
    BY <2>1, HeldDrop
  <2>3. /\ IsInjective(lru') /\ Range(lru') = H \ {k} /\ Len(lru') <= Len(lru)
        /\ \A x, y : Before(lru', x, y) <=> x # k /\ y # k /\ Before(lru, x, y)
    BY <2>1, WithoutOrder DEF SessionInv
  <2>4. IsFiniteSet(H)
    BY <2>1, RangeFinite DEF SessionInv
  <2>5. /\ SessionBytes(H) = SumFunctionOnSet(w, H)
        /\ SumFunctionOnSet(w, H) = b + SumFunctionOnSet(w, H \ {k})
        /\ b \in Nat /\ SumFunctionOnSet(w, H \ {k}) \in Nat
    <3>1. SumFunctionOnSet(w, H) = w[k] + SumFunctionOnSet(w, H \ {k}) /\ SumFunctionOnSet(w, H \ {k}) \in Nat
      <4>1. \A j \in H : w[j] \in Nat
        BY <2>1 DEF Entry, Held, Weight
      <4> HIDE DEF w, H
      <4> QED BY <2>1, <2>4, <4>1, SumTakeOut
    <3>2. w[k] = b /\ b \in Nat
      BY <2>1 DEF Entry, Held, Weight
    <3>3. SessionBytes(H) = SumFunctionOnSet(w, H)
      BY DEF SessionBytes, SumFunction, Weight
    <3> QED BY <3>1, <3>2, <3>3
  <2>6. SumFunction([j \in H \ {k} |-> session'[j].bytes]) = SumFunctionOnSet(w, H \ {k})
    <3> DEFINE v == [j \in H \ {k} |-> session'[j].bytes]
    <3>1. \A j \in H \ {k} : v[j] = w[j]
      BY <2>1 DEF Weight
    <3>2. IsFiniteSet(H \ {k})
      BY <2>4, FS_RemoveElement
    <3>3. SumFunctionOnSet(v, H \ {k}) = SumFunctionOnSet(w, H \ {k})
      <4> HIDE DEF v, w, H
      <4> QED BY <3>1, <3>2, SumSame
    <3>4. SumFunction(v) = SumFunctionOnSet(v, H \ {k})
      BY DEF SumFunction
    <3> QED BY <3>3, <3>4
  <2>7. session_bytes' = SessionBytes(Held(session))' /\ session_bytes' <= session_budget
    <3>1. SessionBytes(Held(session))' = SumFunction([j \in H \ {k} |-> session'[j].bytes])
      BY <2>2 DEF SessionBytes
    <3>2. session_bytes = SessionBytes(H) /\ session_bytes <= session_budget /\ session_budget \in Nat
      BY DEF SessionInv, TypeOK
    <3> HIDE DEF w, H, b
    <3>3. session_bytes' = SumFunctionOnSet(w, H \ {k})
      BY <2>1, <2>5, <3>2 DEF SizeT
    <3> QED BY <2>5, <2>6, <3>1, <3>2, <3>3
  <2>8. LruIsRecency'
    <3>1. \A x, y \in H \ {k} : Before(lru', x, y) <=> Before(recent', x, y)
      BY <2>1, <2>3 DEF SessionInv, LruIsRecency
    <3> QED BY <2>2, <3>1 DEF LruIsRecency
  <2>9. Len(lru') <= MaxSession
    BY <2>1, <2>3, ConstantsAssumption, WithoutType DEF SessionInv
  <2>10. Held(session') \subseteq Range(recent')
    BY <2>1, <2>2 DEF SessionInv
  <2> HIDE DEF H
  <2> QED BY <2>1, <2>2, <2>3, <2>7, <2>8, <2>9, <2>10 DEF SessionInv
<1> QED BY <1>1, <1>2 DEF DropExpired

(* A hit moves its key to the front (jev_extension.cpp:425). *)
LEMMA TouchSession ==
  ASSUME TypeOK, SessionInv, NEW k \in Held(session), Touch(k), recent' = ToFront(recent, k),
         UNCHANGED <<session, session_bytes, session_budget>>
  PROVE  SessionInv'
<1>1. lru \in Seq(Keys) /\ recent \in Seq(Keys) /\ k \in Keys
  BY DEF TypeOK, Held
<1>2. /\ IsInjective(lru') /\ Range(lru') = Range(lru) \cup {k} /\ k \in Range(lru)
      /\ Len(lru') = Len(lru)
      /\ \A x, y : Before(lru', x, y) <=> \/ x = k /\ y \in Range(lru) \ {k}
                                          \/ x # k /\ y # k /\ Before(lru, x, y)
  <2>1. k \in Range(lru) /\ IsInjective(lru) /\ lru' = ToFront(lru, k)
    BY DEF SessionInv, Touch
  <2>2. /\ IsInjective(ToFront(lru, k)) /\ Range(ToFront(lru, k)) = Range(lru) \cup {k}
        /\ Len(ToFront(lru, k)) = Len(Without(lru, k)) + 1
        /\ \A x, y : Before(ToFront(lru, k), x, y) <=> \/ x = k /\ y \in Range(lru) \ {k}
                                                       \/ x # k /\ y # k /\ Before(lru, x, y)
    BY <1>1, <2>1, ToFrontOrder
  <2>3. Len(Without(lru, k)) = Len(lru) - 1 /\ Len(lru) \in Nat
    BY <1>1, <2>1, WithoutOrder
  <2> QED BY <2>1, <2>2, <2>3
<1>3. /\ IsInjective(recent') /\ Range(recent') = Range(recent) \cup {k}
      /\ \A x, y : Before(recent', x, y) <=> \/ x = k /\ y \in Range(recent) \ {k}
                                             \/ x # k /\ y # k /\ Before(recent, x, y)
  BY <1>1, ToFrontOrder DEF SessionInv
<1>4. Held(session') = Held(session) /\ SessionBytes(Held(session))' = SessionBytes(Held(session))
  BY DEF SessionBytes
<1>5. \A x, y \in Held(session) : Before(lru', x, y) <=> Before(recent', x, y)
  BY <1>2, <1>3 DEF SessionInv, LruIsRecency
<1> QED BY <1>2, <1>3, <1>4, <1>5 DEF SessionInv, LruIsRecency

(* Clearing the session (jev_extension.cpp:362-366). *)
LEMMA ClearSessionInv ==
  ASSUME TypeOK, SessionInv, ClearSessionLocked, session_budget' \in Nat
  PROVE  SessionInv'
<1>1. /\ Held(session)' = {} /\ lru' = <<>> /\ session_bytes' = 0 /\ recent' = recent
  BY DEF ClearSessionLocked, Held
<1>2. SessionBytes(Held(session))' = 0
  BY <1>1, SumEmpty DEF SessionBytes, SumFunction
<1>3. IsInjective(lru') /\ Range(lru') = {} /\ Len(lru') = 0
  BY <1>1 DEF IsInjective, Range
<1> QED BY <1>1, <1>2, <1>3, ConstantsAssumption DEF SessionInv, LruIsRecency

(* A store takes the least recently used entries out until the new one     *)
(* fits, and puts it in front (jev_extension.cpp:368-387).                 *)
LEMMA StoreSessionInv ==
  ASSUME TypeOK, SessionInv, NEW k \in Keys, NEW a \in Answer, StoreSession(k, a),
         session_budget' = session_budget
  PROVE  SessionInv'
<1>1. CASE UNCHANGED sessionVars
  BY <1>1 DEF SessionInv, LruIsRecency, SessionBytes, Held, Before, sessionVars
<1>2. CASE ~(session_budget = 0 \/ EntrySize(k, a) > session_budget)
  <2> DEFINE rest == Without(lru, k)
             H    == Held(session)
             w    == Weight(session)
  <2>1. PICK n \in 0 .. Len(rest) :
          /\ Fits(k, a, rest, n)
          /\ session' = [j \in Keys |->
                IF j = k THEN [answer |-> a, expires |-> now + session_ttl,
                               bytes |-> EntrySize(k, a)]
                ELSE IF j \in Erased(k, rest, n) THEN None ELSE session[j]]
          /\ lru' = <<k>> \o SubSeq(rest, 1, Len(rest) - n)
          /\ session_bytes' = SizeT(session_bytes - SessionBytes(Erased(k, rest, n)))
                                + EntrySize(k, a)
          /\ recent' = ToFront(recent, k)
    BY <1>2 DEF StoreSession
  <2> DEFINE E    == Erased(k, rest, n)
             t    == SubSeq(rest, 1, Len(rest) - n)
             last == { rest[i] : i \in Len(rest) - n + 1 .. Len(rest) }
             size == EntrySize(k, a)
             kept == SumFunctionOnSet(w, H \ E)
  <2>2. /\ lru \in Seq(Keys) /\ recent \in Seq(Keys) /\ session \in [Keys -> Entry \cup {None}]
        /\ session_budget \in Nat /\ size \in Nat /\ size <= session_budget
    <3>1. KeySize[k] \in Nat /\ a.size \in Nat /\ session_budget \in Nat
      BY ConstantsAssumption DEF TypeOK, Answer
    <3>2. size \in Nat /\ size <= session_budget
      BY <1>2, <3>1 DEF EntrySize
    <3> QED BY <3>1, <3>2 DEF TypeOK
  <2>3. /\ rest \in Seq(Keys) /\ IsInjective(rest) /\ Range(rest) = H \ {k}
        /\ \A x, y : Before(rest, x, y) <=> x # k /\ y # k /\ Before(lru, x, y)
    BY <2>2, WithoutOrder, WithoutType DEF SessionInv
  <2>4. /\ t \in Seq(Keys) /\ Len(t) = Len(rest) - n
        /\ IsInjective(t) /\ Range(t) = (H \ {k}) \ last
        /\ \A x, y \in Range(t) : Before(t, x, y) <=> Before(rest, x, y)
    <3> HIDE DEF rest, H
    <3> QED BY <2>1, <2>3, FrontOrder
  <2>5. E = { j \in H : j = k } \cup last
    BY DEF Erased
  <2>6. E \subseteq H
    <3>1. last \subseteq Range(rest)
      <4> HIDE DEF rest
      <4>1. DOMAIN rest = 1 .. Len(rest) /\ Len(rest) \in Nat
        BY <2>3
      <4> QED BY <2>1, <4>1 DEF Range
    <3> HIDE DEF rest, last, H, E
    <3> QED BY <2>3, <2>5, <3>1
  <2>7. Range(t) = H \ E /\ k \notin Range(t)
    <3> HIDE DEF rest, last, H, E, t
    <3> QED BY <2>4, <2>5
  <2>8. /\ lru' = ToFront(t, k)
        /\ IsInjective(lru') /\ Range(lru') = (H \ E) \cup {k} /\ Len(lru') = Len(t) + 1
        /\ \A x, y : Before(lru', x, y) <=> \/ x = k /\ y \in (H \ E) \ {k}
                                            \/ x # k /\ y # k /\ Before(t, x, y)
    <3> HIDE DEF rest, last, H, E
    <3>1. lru' = <<k>> \o t
      BY <2>1
    <3> HIDE DEF t
    <3>2. Without(t, k) = t
      BY <2>4, <2>7, WithoutIs DEF Range
    <3>3. lru' = ToFront(t, k)
      BY <3>1, <3>2 DEF ToFront
    <3>4. /\ IsInjective(ToFront(t, k)) /\ Range(ToFront(t, k)) = Range(t) \cup {k}
          /\ Len(ToFront(t, k)) = Len(Without(t, k)) + 1
          /\ \A x, y : Before(ToFront(t, k), x, y) <=> \/ x = k /\ y \in Range(t) \ {k}
                                                       \/ x # k /\ y # k /\ Before(t, x, y)
      BY <2>4, ToFrontOrder
    <3> QED BY <2>7, <3>2, <3>3, <3>4
  <2>9. Held(session') = (H \ E) \cup {k} /\ k \notin H \ E
    <3>1. session'[k] # None
      <4>1. [answer |-> a, expires |-> now + session_ttl, bytes |-> size] \in Entry
        BY <2>2 DEF Entry, TypeOK
      <4> QED BY <2>1, <4>1, NoneAssumption
    <3>2. \A j \in Keys \ {k} : session'[j] = IF j \in E THEN None ELSE session[j]
      BY <2>1
    <3>3. k \notin H \ E
      BY <2>5
    <3> HIDE DEF E
    <3> QED BY <3>1, <3>2, <3>3 DEF Held
  <2>10. IsFiniteSet(H) /\ IsFiniteSet(H \ E)
    <3>1. IsFiniteSet(H)
      BY <2>2, RangeFinite DEF SessionInv
    <3> HIDE DEF H, E
    <3> QED BY <3>1, FS_Subset
  <2>11. /\ SessionBytes(H) = SumFunctionOnSet(w, H)
         /\ SessionBytes(E) = SumFunctionOnSet(w, E)
         /\ SumFunctionOnSet(w, E) \in Nat /\ kept \in Nat
         /\ SumFunctionOnSet(w, H) = SumFunctionOnSet(w, E) + kept
    <3>1. SessionBytes(H) = SumFunctionOnSet(w, H)
      BY DEF SessionBytes, SumFunction, Weight
    <3>2. SessionBytes(E) = SumFunction([j \in E |-> session[j].bytes])
      BY DEF SessionBytes
    <3> HIDE DEF E
    <3>4. /\ SumFunction([j \in E |-> session[j].bytes]) = SumFunctionOnSet(w, E)
          /\ SumFunctionOnSet(w, E) \in Nat /\ SumFunctionOnSet(w, H \ E) \in Nat
          /\ SumFunctionOnSet(w, H) = SumFunctionOnSet(w, E) + SumFunctionOnSet(w, H \ E)
      BY <2>2, <2>6, <2>10, SessionWeights
    <3> QED BY <3>1, <3>2, <3>4
  <2>12. session_bytes' = kept + size /\ session_bytes' <= session_budget
         /\ Len(lru') <= MaxSession
    <3>1. /\ session_bytes = SumFunctionOnSet(w, H) /\ session_bytes <= session_budget
      BY <2>11 DEF SessionInv
    <3>2. SizeT(session_bytes - SessionBytes(E)) = kept
      <4> HIDE DEF w, H, E, kept
      <4> QED BY <2>11, <3>1 DEF SizeT
    <3>3. session_bytes' = kept + size
      <4> HIDE DEF kept
      <4> QED BY <2>1, <3>2
    <3>4. \/ n = Len(rest)
          \/ Len(rest) - n < MaxSession /\ size <= SizeT(session_budget - kept)
      <4> HIDE DEF kept
      <4> QED BY <2>1, <3>2 DEF Fits
    <3>5. CASE n = Len(rest)
      <4>1. last = Range(rest)
        <5> HIDE DEF rest
        <5>1. DOMAIN rest = 1 .. Len(rest) /\ Len(rest) - n + 1 = 1
          BY <2>3, <3>5
        <5> QED BY <5>1 DEF Range
      <4>2. H \ E = {} /\ Len(t) = 0
        <5> HIDE DEF rest, last, H, E, t
        <5> QED BY <2>3, <2>4, <2>5, <3>5, <4>1
      <4>3. kept = 0
        BY <4>2, SumEmpty
      <4> HIDE DEF kept, t, size
      <4> QED BY <2>2, <2>8, <3>3, <4>2, <4>3, ConstantsAssumption
    <3>6. CASE Len(rest) - n < MaxSession /\ size <= SizeT(session_budget - kept)
      <4>1. kept <= session_bytes
        <5> HIDE DEF kept, w, H, E
        <5> QED BY <2>11, <3>1
      <4> HIDE DEF kept, size, t, rest, w
      <4>2. session_budget - kept >= 0 /\ session_bytes \in Int
        BY <2>2, <2>11, <3>1, <4>1
      <4>3. size <= session_budget - kept
        BY <2>2, <2>11, <3>6, <4>2 DEF SizeT
      <4>4. session_bytes' <= session_budget
        BY <2>2, <2>11, <3>3, <4>3
      <4>5. Len(lru') <= MaxSession
        BY <2>1, <2>3, <2>4, <2>8, <3>6, ConstantsAssumption
      <4> QED BY <3>3, <4>4, <4>5
    <3> HIDE DEF kept, size, t, rest, w, H, E, last
    <3> QED BY <3>3, <3>4, <3>5, <3>6
  <2>13. session_bytes' = SessionBytes(Held(session))'
    <3> DEFINE S == (H \ E) \cup {k}
               v == [j \in S |-> session'[j].bytes]
    <3>1. SessionBytes(Held(session))' = SumFunctionOnSet(v, S)
      BY <2>9 DEF SessionBytes, SumFunction
    <3>2. v[k] = size /\ \A j \in H \ E : v[j] = w[j] /\ w[j] \in Nat
      <4>1. v[k] = size
        BY <2>1
      <4>2. ASSUME NEW j \in H \ E PROVE v[j] = w[j] /\ w[j] \in Nat
        <5>1. j # k /\ j \in Keys /\ session'[j] = session[j]
          BY <2>1, <2>9, <4>2 DEF Held
        <5>2. session[j] \in Entry
          BY <2>2, <4>2 DEF Held
        <5> QED BY <4>2, <5>1, <5>2 DEF Entry, Weight
      <4> QED BY <4>1, <4>2
    <3> HIDE DEF v, w, H, E, kept, size
    <3>3. SumFunctionOnSet(v, H \ E) = SumFunctionOnSet(w, H \ E)
      BY <2>10, <3>2, SumSame
    <3>4. SumFunctionOnSet(v, (H \ E) \cup {k}) = v[k] + SumFunctionOnSet(v, H \ E)
      <4>1. \A j \in (H \ E) \cup {k} : v[j] \in Int
        BY <2>2, <3>2
      <4> QED BY <2>9, <2>10, <4>1, SumAdd
    <3> QED BY <2>2, <2>11, <2>12, <3>1, <3>2, <3>3, <3>4 DEF kept
  <2>14. LruIsRecency' /\ IsInjective(recent') /\ Held(session') \subseteq Range(recent')
    <3>1. /\ recent' = ToFront(recent, k)
          /\ IsInjective(recent') /\ Range(recent') = Range(recent) \cup {k}
          /\ \A x, y : Before(recent', x, y) <=> \/ x = k /\ y \in Range(recent) \ {k}
                                                 \/ x # k /\ y # k /\ Before(recent, x, y)
      BY <2>1, <2>2, ToFrontOrder DEF SessionInv
    <3>2. H \subseteq Range(recent) /\ \A x, y \in H : Before(lru, x, y) <=> Before(recent, x, y)
      BY DEF SessionInv, LruIsRecency
    <3> HIDE DEF H, E, t, rest, last
    <3>3. ASSUME NEW x \in (H \ E) \cup {k}, NEW y \in (H \ E) \cup {k}
          PROVE  Before(lru', x, y) <=> Before(recent', x, y)
      <4>1. CASE x = k \/ y = k
        BY <2>8, <3>1, <3>2, <3>3, <4>1
      <4>2. CASE x # k /\ y # k
        <5>1. x \in Range(t) /\ y \in Range(t) /\ x \in H /\ y \in H
          BY <2>7, <3>3, <4>2
        <5>2. Before(t, x, y) <=> Before(lru, x, y)
          BY <2>3, <2>4, <4>2, <5>1
        <5> QED BY <2>8, <3>1, <3>2, <4>2, <5>1, <5>2
      <4> QED BY <4>1, <4>2
    <3>4. LruIsRecency'
      BY <2>9, <3>3 DEF LruIsRecency
    <3> QED BY <2>9, <3>1, <3>2, <3>4
  <2> HIDE DEF H, E, t, rest, last, w, kept, size
  <2> QED BY <2>8, <2>9, <2>12, <2>13, <2>14 DEF SessionInv
<1>3. CASE session_budget = 0 \/ EntrySize(k, a) > session_budget
  BY <1>1, <1>3 DEF StoreSession
<1> QED BY <1>2, <1>3

(* Every operation keeps the session cache in order. *)
LEMMA SessionNext == TypeInv /\ SessionInv /\ [Next]_vars => SessionInv'
<1> SUFFICES ASSUME TypeInv, SessionInv, [Next]_vars PROVE SessionInv'
  OBVIOUS
<1>t. TypeOK
  BY DEF TypeInv
<1>a. ASSUME UNCHANGED sessionVars, session_budget' = session_budget
      PROVE  SessionInv'
  BY <1>a DEF SessionInv, LruIsRecency, SessionBytes, Held, Before, sessionVars
<1>1. ASSUME NEW S \in SUBSET Claims, Snapshot(S) PROVE SessionInv'
  <2>1. PICK o \in Settings : FirstSnapshot(o) \/ LaterSnapshot(o)
    BY <1>1 DEF Snapshot
  <2>2. CASE FirstSnapshot(o) /\ SessionOutdated(o)
    <3>1. session_budget' \in Nat
      BY <2>2, ConstantsAssumption DEF FirstSnapshot
    <3>2. ClearSessionLocked
      BY <2>2 DEF FirstSnapshot
    <3> QED BY <1>t, <3>1, <3>2, ClearSessionInv
  <2>3. CASE FirstSnapshot(o) /\ ~SessionOutdated(o)
    BY <1>a, <2>3 DEF FirstSnapshot, SessionOutdated
  <2>4. CASE LaterSnapshot(o)
    BY <1>a, <2>4 DEF LaterSnapshot, scopeVars
  <2> QED BY <2>1, <2>2, <2>3, <2>4
<1>2. ASSUME NEW c \in Claims, NEW k \in Keys, Acquire(c, k) PROVE SessionInv'
  <2>0. session_budget' = session_budget
    BY <1>2 DEF Acquire, scopeVars
  <2>1. CASE HitAnswer(c, k)
    BY <1>a, <2>0, <2>1 DEF HitAnswer
  <2>2. CASE HitSession(c, k)
    <3>1. k \in Held(session) /\ Touch(k) /\ recent' = ToFront(recent, k)
      BY <2>2 DEF HitSession, Fresh, Held
    <3>2. UNCHANGED <<session, session_bytes>>
      BY <2>2 DEF HitSession
    <3> QED BY <1>t, <2>0, <3>1, <3>2, TouchSession
  <2>3. CASE Join(c, k) \/ Own(c, k)
    <3>1. DropExpired(k)
      BY <2>3 DEF Join, Own
    <3> QED BY <1>t, <2>0, <3>1, DropExpiredSession
  <2> QED BY <1>2, <2>1, <2>2, <2>3 DEF Acquire
<1>3. ASSUME NEW c \in Claims, Store(c) PROVE SessionInv'
  <2>1. PICK size \in AnswerSizes :
          StoreSession(key[c], [key |-> key[c], scope |-> opts[c].scope, stored |-> now, size |-> size])
    BY <1>3 DEF Store
  <2> DEFINE a == [key |-> key[c], scope |-> opts[c].scope, stored |-> now, size |-> size]
  <2>2. key[c] \in Keys /\ a \in Answer
    <3>1. key[c] \in Keys /\ opts[c] \in Settings /\ now \in Nat /\ size \in Nat
      BY <1>3, ConstantsAssumption DEF Store, TypeInv, TypeOK, ClaimsOK, InProgress
    <3> QED BY <3>1 DEF Answer, Scopes
  <2>3. session_budget' = session_budget
    BY <1>3 DEF Store, scopeVars
  <2> HIDE DEF a
  <2>4. StoreSession(key[c], a)
    BY <2>1 DEF a
  <2> QED BY <1>t, <2>2, <2>3, <2>4, StoreSessionInv
<1>4. CASE ClearSession
  BY <1>4, <1>t, ClearSessionInv DEF ClearSession, scopeVars, TypeOK
<1>5. ASSUME NEW c \in Claims,
             \/ SetValue(c) \/ Abandon(c) \/ Release(c) \/ Orphan(c) \/ AwaitFlight(c) \/ Leave(c)
      PROVE  SessionInv'
  BY <1>5, <1>a, MoveFrame DEF SetValue, Abandon, Release, scopeVars
<1>6. ASSUME NEW S \in SUBSET Claims, NEW requests \in 1 .. Cardinality(S), Reserve(S, requests)
      PROVE  SessionInv'
  BY <1>6, <1>a DEF Reserve, scopeVars
<1>7. CASE QueryEnd \/ Tick \/ UNCHANGED vars
  BY <1>7, <1>a DEF QueryEnd, Tick, vars, scopeVars
<1> QED
  BY <1>1, <1>2, <1>3, <1>4, <1>5, <1>6, <1>7 DEF Next, ClaimStep, OwnerStep

(* It is empty at first. *)
LEMMA SessionInit == Init => SessionInv
<1> SUFFICES ASSUME Init PROVE SessionInv
  OBVIOUS
<1>1. Held(session) = {} /\ lru = <<>> /\ recent = <<>> /\ session_bytes = 0 /\ session_budget = 0
  BY DEF Init, Held
<1>2. SessionBytes(Held(session)) = 0
  BY <1>1, SumEmpty DEF SessionBytes, SumFunction
<1>3. /\ IsInjective(lru) /\ Range(lru) = {} /\ Len(lru) = 0
      /\ IsInjective(recent) /\ Range(recent) = {}
  BY <1>1 DEF IsInjective, Range
<1> QED BY <1>1, <1>2, <1>3, ConstantsAssumption DEF SessionInv, LruIsRecency

(***************************************************************************)
(* The session cache's map and list hold the same keys, each once, and     *)
(* session_bytes is the sum of the entries' sizes and within the budget,   *)
(* whatever was stored, hit, expired, evicted, resized or cleared          *)
(* (jev_extension.cpp:352-387).                                            *)
(***************************************************************************)
THEOREM SessionAccounted == Spec => []SessionAccounting
<1>1. TypeInv /\ SessionInv => SessionAccounting
  <2> SUFFICES ASSUME TypeInv, SessionInv PROVE SessionAccounting
    OBVIOUS
  <2>1. lru \in Seq(Keys)
    BY DEF TypeInv, TypeOK
  <2>2. Cardinality(Range(lru)) = Len(lru)
    BY <2>1, RangeFinite DEF SessionInv
  <2> QED BY <2>2 DEF SessionInv, SessionAccounting, Range
<1> QED BY <1>1, SessionInit, SessionNext, TypeInvInit, TypeNext, PTL DEF Spec

(***************************************************************************)
(* The list is in the order of last use, so that what StoreSession takes   *)
(* from its end is the least recently used (jev_extension.cpp:368-387,     *)
(* 425).                                                                   *)
(***************************************************************************)
THEOREM Recency == Spec => []LruIsRecency
<1>1. SessionInv => LruIsRecency
  BY DEF SessionInv
<1> QED BY <1>1, SessionInit, SessionNext, TypeInvInit, TypeNext, PTL DEF Spec

-----------------------------------------------------------------------------
(* What the cached answers and the flights are charged. *)

(* What a cached answer is charged for. *)
Charge(A) == [k \in Held(A) |-> KeySize[k] + A[k].size]

(* What the byte accounting needs to be inductive: finitely many keys.     *)
BytesInv ==
  /\ IsFiniteSet(Held(flights)) /\ IsFiniteSet(Held(answers))
  /\ BytesExact

(* A charge is a number. *)
LEMMA ChargeType ==
  ASSUME NEW A \in [Keys -> Answer \cup {None}]
  PROVE  \A k \in Held(A) : Charge(A)[k] \in Nat
  BY ConstantsAssumption DEF Charge, Held, Answer

(* Taking a key out of those charged for. *)
LEMMA KeySizeSum ==
  ASSUME NEW H \in SUBSET Keys, IsFiniteSet(H), NEW k \in H
  PROVE  /\ SumFunctionOnSet(KeySize, H) = KeySize[k] + SumFunctionOnSet(KeySize, H \ {k})
         /\ SumFunctionOnSet(KeySize, H \ {k}) \in Nat
  BY ConstantsAssumption, SumTakeOut

(* AddAnswer, called for a key without an answer and within the budget. *)
LEMMA AddAnswerBytes ==
  ASSUME TypeOK, BytesInv, NEW k \in Keys, NEW a \in Answer, AddAnswer(k, a), answers[k] = None,
         options # None, AnswerRoom(k, a, options.cache_bytes)
  PROVE  /\ IsFiniteSet(Held(answers)')
         /\ bytes' = SumFunction([j \in Held(answers)' |-> KeySize[j] + answers'[j].size])
         /\ bytes' <= options.cache_bytes
         /\ Cardinality(Held(answers)') <= MaxAnswers
<1> DEFINE H == Held(answers)
           w == Charge(answers)
           v == Charge(answers')
<1>1. /\ Held(answers)' = H \cup {k} /\ k \notin H
      /\ answers' = [answers EXCEPT ![k] = a]
  BY NoneAssumption, HeldAdd DEF AddAnswer, TypeOK, Held
<1>2. /\ IsFiniteSet(H) /\ IsFiniteSet(H \cup {k}) /\ Cardinality(H) \in Nat
      /\ Cardinality(H \cup {k}) = Cardinality(H) + 1
  BY <1>1, FS_AddElement, FS_CardinalityType DEF BytesInv
<1>3. answers' \in [Keys -> Answer \cup {None}]
  BY AddAnswerType
<1>4. \A x \in H \cup {k} : v[x] \in Int
  <2>1. \A x \in Held(answers') : v[x] \in Nat
    BY <1>3, ChargeType
  <2>2. Held(answers') = H \cup {k}
    BY <1>1
  <2> QED BY <2>1, <2>2
<1>5. v[k] = KeySize[k] + a.size /\ \A x \in H : v[x] = w[x]
  BY <1>1 DEF TypeOK, Charge, Held
<1>6. bytes = SumFunctionOnSet(w, H)
  BY DEF BytesInv, BytesExact, SumFunction, Charge
<1>7. SumFunctionOnSet(v, H) = SumFunctionOnSet(w, H)
  <2> HIDE DEF v, w, H
  <2> QED BY <1>2, <1>5, SumSame
<1>8. SumFunctionOnSet(v, H \cup {k}) = v[k] + SumFunctionOnSet(v, H)
  <2> HIDE DEF v, w, H
  <2> QED BY <1>1, <1>2, <1>4, SumAdd
<1>9. KeySize[k] \in Nat /\ a.size \in Nat /\ bytes \in Nat
  BY ConstantsAssumption DEF Answer, TypeOK
<1>10. bytes' = SumFunctionOnSet(v, H \cup {k})
  BY <1>5, <1>6, <1>7, <1>8, <1>9 DEF AddAnswer
<1>11. SumFunction([j \in Held(answers)' |-> KeySize[j] + answers'[j].size]) = SumFunctionOnSet(v, H \cup {k})
  BY <1>1 DEF SumFunction, Charge
<1>12. Cardinality(H) < MaxAnswers /\ MaxAnswers \in Nat
  BY ConstantsAssumption DEF AnswerRoom
<1>13. bytes' <= options.cache_bytes
  <2>1. options.cache_bytes \in Nat
    BY ConstantsAssumption DEF TypeOK
  <2>2. KeySize[k] + a.size <= options.cache_bytes - bytes
    BY <1>9, <2>1 DEF AnswerRoom, SizeT, BytesInv, BytesExact
  <2>3. bytes' = bytes + KeySize[k] + a.size
    BY DEF AddAnswer
  <2> QED BY <1>9, <2>1, <2>2, <2>3
<1> QED
  BY <1>1, <1>2, <1>10, <1>11, <1>12, <1>13

(* Every operation keeps the two accounts (jev_extension.cpp:362-490).     *)
LEMMA BytesNext ==
  TypeInv /\ RegistryInv /\ SnapshotInv /\ CachesInv /\ BytesInv /\ [Next]_vars => BytesInv'
<1> SUFFICES ASSUME TypeInv, RegistryInv, SnapshotInv, CachesInv, BytesInv, [Next]_vars PROVE BytesInv'
  OBVIOUS
<1> USE DEF TypeInv, TypeOK
<1>a. ASSUME UNCHANGED <<answers, bytes, flights, flight_bytes>>, options' = options
      PROVE  BytesInv'
  BY <1>a DEF BytesInv, BytesExact, Held
<1>1. ASSUME NEW S \in SUBSET Claims, Snapshot(S) PROVE BytesInv'
  <2>1. PICK o \in Settings : FirstSnapshot(o) \/ LaterSnapshot(o)
    BY <1>1 DEF Snapshot
  <2>2. CASE options' = options
    BY <1>1, <1>a, <2>2 DEF Snapshot
  <2>3. CASE FirstSnapshot(o)
    <3>1. options = None /\ options' = o /\ o # None /\ o.cache_bytes \in Nat
      BY <2>3, NoneAssumption, ConstantsAssumption DEF FirstSnapshot
    <3>2. UNCHANGED <<answers, bytes, flights, flight_bytes>>
      BY <1>1 DEF Snapshot
    <3> QED BY <3>1, <3>2 DEF BytesInv, BytesExact, Held
  <2> QED BY <2>1, <2>2, <2>3 DEF LaterSnapshot
<1>2. ASSUME NEW c \in Claims, NEW k \in Keys, Acquire(c, k) PROVE BytesInv'
  <2>0. options # None /\ options' = options
    BY <1>2 DEF Acquire, SnapshotInv, Current
  <2>1. CASE HitAnswer(c, k) \/ Join(c, k)
    BY <1>a, <2>0, <2>1 DEF HitAnswer, Join
  <2>2. CASE HitSession(c, k)
    <3>1. CASE AddAnswer(k, session[k].answer) /\ AnswerRoom(k, session[k].answer, options.cache_bytes)
      <4>1. session[k].answer \in Answer /\ answers[k] = None
        BY <2>2 DEF HitSession, Fresh, Entry
      <4>2. UNCHANGED <<flights, flight_bytes>>
        BY <2>2 DEF HitSession
      <4>3. /\ IsFiniteSet(Held(answers)')
            /\ bytes' = SumFunction([j \in Held(answers)' |-> KeySize[j] + answers'[j].size])
            /\ bytes' <= options.cache_bytes
            /\ Cardinality(Held(answers)') <= MaxAnswers
        BY <2>0, <3>1, <4>1, AddAnswerBytes
      <4> QED BY <2>0, <4>2, <4>3 DEF BytesInv, BytesExact, Held
    <3>2. CASE UNCHANGED <<answers, bytes>>
      BY <1>a, <2>0, <2>2, <3>2 DEF HitSession
    <3> QED BY <2>2, <3>1, <3>2 DEF HitSession
  <2>3. CASE Own(c, k)
    <3>1. CASE UNCHANGED <<flights, flight_bytes>>
      BY <1>a, <2>0, <2>3, <3>1 DEF Own
    <3>2. CASE FlightRoom(k) /\ flights' = [flights EXCEPT ![k] = c] /\ flight_bytes' = flight_bytes + KeySize[k]
      <4>1. UNCHANGED <<answers, bytes>> /\ flights[k] = None /\ c # None
        BY <2>3, NoneAssumption DEF Own
      <4>2. Held(flights)' = Held(flights) \cup {k} /\ k \notin Held(flights)
        BY <3>2, <4>1, HeldAdd DEF Held
      <4>3. /\ IsFiniteSet(Held(flights)') /\ Cardinality(Held(flights)) \in Nat
            /\ Cardinality(Held(flights)') = Cardinality(Held(flights)) + 1
        BY <4>2, FS_AddElement, FS_CardinalityType DEF BytesInv
      <4>4. SumFunctionOnSet(KeySize, Held(flights)') = KeySize[k] + SumFunctionOnSet(KeySize, Held(flights))
        <5>1. \A x \in Held(flights) \cup {k} : KeySize[x] \in Int
          BY ConstantsAssumption DEF Held
        <5> QED BY <4>2, <5>1, SumAdd DEF BytesInv
      <4>5. flight_bytes' = SumFunctionOnSet(KeySize, Held(flights)')
        <5>1. KeySize[k] \in Nat /\ flight_bytes = SumFunctionOnSet(KeySize, Held(flights))
          BY ConstantsAssumption DEF BytesInv, BytesExact
        <5> QED BY <3>2, <4>4, <5>1
      <4>6. Cardinality(Held(flights)') <= MaxFlights
        BY <3>2, <4>3, ConstantsAssumption DEF FlightRoom
      <4>7. flight_bytes' <= FlightBytes
        <5>1. KeySize[k] \in Nat /\ FlightBytes \in Nat /\ flight_bytes <= FlightBytes
          BY ConstantsAssumption DEF BytesInv, BytesExact
        <5>2. KeySize[k] <= FlightBytes - flight_bytes
          BY <3>2, <5>1 DEF FlightRoom, SizeT
        <5> QED BY <3>2, <5>1, <5>2
      <4> QED BY <2>0, <4>1, <4>3, <4>5, <4>6, <4>7 DEF BytesInv, BytesExact, Held
    <3> QED BY <2>3, <3>1, <3>2 DEF Own
  <2> QED BY <1>2, <2>1, <2>2, <2>3 DEF Acquire
<1>3. ASSUME NEW c \in Claims, Store(c) PROVE BytesInv'
  <2>1. /\ opts[c] = options /\ options # None /\ options' = options /\ key[c] \in Keys
        /\ UNCHANGED <<flights, flight_bytes>>
    BY <1>3 DEF Store, SnapshotInv, Current, ClaimsOK, InProgress
  <2>2. PICK size \in AnswerSizes :
          LET a == [key |-> key[c], scope |-> opts[c].scope, stored |-> now, size |-> size]
          IN  IF Storable(c, a) THEN AddAnswer(key[c], a) ELSE UNCHANGED <<answers, bytes>>
    BY <1>3 DEF Store
  <2> DEFINE a == [key |-> key[c], scope |-> opts[c].scope, stored |-> now, size |-> size]
  <2>3. CASE UNCHANGED <<answers, bytes>>
    BY <1>a, <2>1, <2>3
  <2>4. CASE Storable(c, a) /\ AddAnswer(key[c], a)
    <3>1. a \in Answer
      BY <2>1, <2>2, ConstantsAssumption DEF Answer, Scopes
    <3> HIDE DEF a
    <3>2. /\ IsFiniteSet(Held(answers)')
          /\ bytes' = SumFunction([j \in Held(answers)' |-> KeySize[j] + answers'[j].size])
          /\ bytes' <= options.cache_bytes
          /\ Cardinality(Held(answers)') <= MaxAnswers
      BY <2>1, <2>4, <3>1, AddAnswerBytes DEF Storable
    <3> QED BY <2>1, <3>2 DEF BytesInv, BytesExact, Held
  <2> QED BY <2>2, <2>3, <2>4
<1>4. ASSUME NEW c \in Claims, Release(c) PROVE BytesInv'
  <2>1. UNCHANGED <<answers, bytes, options>>
    BY <1>4 DEF Release
  <2>2. CASE UNCHANGED <<flights, flight_bytes>>
    BY <1>a, <2>1, <2>2
  <2>3. CASE /\ flights[key[c]] = c /\ flights' = [flights EXCEPT ![key[c]] = None]
             /\ flight_bytes' = SizeT(flight_bytes - KeySize[key[c]])
    <3> DEFINE k == key[c]
               H == Held(flights)
    <3>1. k \in H /\ k \in Keys
      BY <1>4, <2>3, NoneAssumption DEF Release, ClaimsOK, InProgress, Held
    <3>2. Held(flights)' = H \ {k}
      BY <2>3, <3>1, HeldDrop
    <3>3. /\ IsFiniteSet(H) /\ IsFiniteSet(H \ {k}) /\ Cardinality(H) \in Nat
          /\ Cardinality(H \ {k}) = Cardinality(H) - 1
      BY <3>1, FS_RemoveElement, FS_CardinalityType DEF BytesInv
    <3>5. /\ SumFunctionOnSet(KeySize, H) = KeySize[k] + SumFunctionOnSet(KeySize, H \ {k})
          /\ SumFunctionOnSet(KeySize, H \ {k}) \in Nat
      BY <3>1, <3>3, KeySizeSum DEF Held
    <3>6. flight_bytes' = SumFunctionOnSet(KeySize, H \ {k}) /\ flight_bytes' <= FlightBytes
      <4> HIDE DEF H
      <4>1. flight_bytes = SumFunctionOnSet(KeySize, H) /\ flight_bytes <= FlightBytes
        BY DEF BytesInv, BytesExact, H
      <4>2. KeySize[k] \in Nat /\ FlightBytes \in Nat /\ flight_bytes' = SizeT(flight_bytes - KeySize[k])
        BY <2>3, <3>1, ConstantsAssumption
      <4> QED BY <3>5, <4>1, <4>2 DEF SizeT
    <3>7. Cardinality(H \ {k}) <= MaxFlights
      BY <3>3, ConstantsAssumption DEF BytesInv, BytesExact
    <3> QED BY <2>1, <3>2, <3>3, <3>6, <3>7 DEF BytesInv, BytesExact, Held
  <2> QED BY <1>4, <2>2, <2>3 DEF Release, Unregister
<1>5. CASE QueryEnd
  <2>1. Held(answers)' = {} /\ Held(flights)' = {} /\ bytes' = 0 /\ flight_bytes' = 0 /\ options' = None
    BY <1>5 DEF QueryEnd, Held
  <2>2. SumFunctionOnSet(KeySize, {}) = 0
    BY SumEmpty
  <2>3. SumFunction([j \in Held(answers)' |-> KeySize[j] + answers'[j].size]) = 0
    BY <2>1, SumEmpty DEF SumFunction
  <2> QED BY <2>1, <2>2, <2>3, FS_EmptySet, ConstantsAssumption DEF BytesInv, BytesExact
<1>6. ASSUME NEW c \in Claims, SetValue(c) \/ Abandon(c) \/ Orphan(c) \/ AwaitFlight(c) \/ Leave(c) PROVE BytesInv'
  BY <1>6, <1>a, MoveFrame DEF SetValue, Abandon, stateVars
<1>7. ASSUME NEW S \in SUBSET Claims, NEW requests \in 1 .. Cardinality(S), Reserve(S, requests) PROVE BytesInv'
  BY <1>7, <1>a DEF Reserve
<1>8. CASE ClearSession \/ Tick \/ UNCHANGED vars
  BY <1>8, <1>a DEF ClearSession, Tick, vars, stateVars
<1> QED
  BY <1>1, <1>2, <1>3, <1>4, <1>5, <1>6, <1>7, <1>8 DEF Next, ClaimStep, OwnerStep

(***************************************************************************)
(* The answer cache is charged the key and the value of each answer it     *)
(* holds, no more and no less, and the flights' keys are charged once      *)
(* each, whatever inserts, evictions, failures and clears were made        *)
(* (jev_extension.cpp:362-490): no counter drifts and none wraps.          *)
(***************************************************************************)
THEOREM BytesCharged == Spec => []BytesExact
<1>1. Init => RegistryInv
  BY NoneAssumption DEF Init, RegistryInv, RegistryExact
<1>2. Init => IsolationInv
  BY NoneAssumption DEF Init, IsolationInv, SnapshotInv, CachesInv, FlightsInv, Current
<1>3. Init => BytesInv
  <2> SUFFICES ASSUME Init PROVE BytesInv
    OBVIOUS
  <2>1. Held(answers) = {} /\ Held(flights) = {} /\ bytes = 0 /\ flight_bytes = 0 /\ options = None
    BY DEF Init, Held
  <2>2. SumFunctionOnSet(KeySize, {}) = 0
    BY SumEmpty
  <2>3. SumFunction([j \in Held(answers) |-> KeySize[j] + answers[j].size]) = 0
    BY <2>1, SumEmpty DEF SumFunction
  <2> QED BY <2>1, <2>2, <2>3, FS_EmptySet, ConstantsAssumption DEF BytesInv, BytesExact
<1>4. TypeInv /\ RegistryInv /\ IsolationInv /\ [Next]_vars => IsolationInv'
  BY SnapshotNext, CachesNext, FlightsNext DEF IsolationInv
<1>5. IsolationInv => SnapshotInv /\ CachesInv
  BY DEF IsolationInv
<1>6. BytesInv => BytesExact
  BY DEF BytesInv
<1> QED
  BY <1>1, <1>2, <1>3, <1>4, <1>5, <1>6, TypeInvInit, TypeNext, RegistryNext, BytesNext, PTL DEF Spec

-----------------------------------------------------------------------------
(* JevQuery. *)

-----------------------------------------------------------------------------
(* Sequences. *)

LEMMA ToSetType == ASSUME NEW S, NEW s \in Seq(S) PROVE ToSet(s) \in SUBSET S
  BY DEF ToSet

(* A sequence without duplicates is as long as its set is large. *)
LEMMA DistinctLength ==
  ASSUME NEW S, NEW s \in Seq(S), \A i, j \in 1 .. Len(s) : s[i] = s[j] => i = j
  PROVE  IsFiniteSet(ToSet(s)) /\ Cardinality(ToSet(s)) = Len(s)
<1>1. s \in Bijection(1 .. Len(s), ToSet(s))
  BY DEF ToSet, Bijection, Injection, Surjection, IsInjective
<1>2. Len(s) \in Nat
  OBVIOUS
<1>3. IsFiniteSet(1 .. Len(s)) /\ Cardinality(1 .. Len(s)) = Len(s)
  <2> DEFINE n == Len(s)
  <2> HIDE DEF n
  <2>1. IsFiniteSet(1 .. n) /\ Cardinality(1 .. n) = IF 1 > n THEN 0 ELSE n - 1 + 1
    BY <1>2, FS_Interval DEF n
  <2>2. Cardinality(1 .. n) = n
    BY <1>2, <2>1 DEF n
  <2> QED  BY <2>1, <2>2 DEF n
<1> QED  BY <1>1, <1>3, FS_Bijection DEF ExistsBijection

(* Rounding up: n rows in requests of b need at least one, at most n.       *)
LEMMA RoundUp ==
  ASSUME NEW n \in Nat \ {0}, NEW b \in Nat \ {0}
  PROVE  /\ (n + b - 1) \div b \in 1 .. n
         /\ \A i \in 1 .. (n + b - 1) \div b : (i - 1) * b + 1 \in 1 .. n
<1> DEFINE q == (n + b - 1) \div b
<1>1. q \in Int /\ q * b <= n + b - 1 /\ n + b - 1 < (q + 1) * b
  OBVIOUS
<1> HIDE DEF q
<1>2. q >= 1
  <2> SUFFICES ASSUME q <= 0 PROVE FALSE
    BY <1>1
  <2>1. (q + 1) * b <= b  BY <1>1
  <2> QED  BY <1>1, <2>1
<1>3. q <= n
  <2> SUFFICES ASSUME q >= n + 1 PROVE FALSE
    BY <1>1
  <2>1. q * b >= (n + 1) * b  BY <1>1
  <2>2. (n + 1) * b = n * b + b  OBVIOUS
  <2>3. n * b >= n  OBVIOUS
  <2> QED  BY <1>1, <2>1, <2>2, <2>3
<1>4. ASSUME NEW i \in 1 .. q PROVE (i - 1) * b + 1 \in 1 .. n
  <2>1. (i - 1) * b <= (q - 1) * b  BY <1>1
  <2>2. (q - 1) * b = q * b - b  BY <1>1
  <2>3. (i - 1) * b \in Nat  BY <1>1
  <2> QED  BY <1>1, <2>1, <2>2, <2>3
<1> QED  BY <1>1, <1>2, <1>3, <1>4 DEF q

-----------------------------------------------------------------------------
(* The inductive invariant. *)

(* The next row of a job is one of its rows. *)
GoodJob == { j \in [refs : Seq(Claims), state : JobStates, next : Nat \ {0}] :
               j.next <= Len(j.refs) }

JobsInv == jobs \in [Slots -> Seq(GoodJob)]

(* The owned rows a slot is about to send are distinct, and were acquired. *)
Begun == { c \in Claims : pc[c] \notin {"idle", "ready"} }

PacksInv ==
  \A s \in Slots : /\ \A i, j \in 1 .. Len(pack[s]) : pack[s][i] = pack[s][j] => i = j
                   /\ \A i \in 1 .. Len(pack[s]) : pack[s][i] \in Begun

JevInv == JevTypeOK /\ JobsInv /\ PacksInv

(* The phases of a thread that is in a call. *)
InCall(t) == phase[t] \notin {"next", "close", "closing", "closed"}

LEMMA CallType ==
  ASSUME NEW t \in Threads, NEW i \in DOMAIN Calls[t]
  PROVE  Calls[t][i].op \in Ops /\ Calls[t][i].rows \in Seq(Claims)
<1> DEFINE R == [op : Ops, rows : Seq(Claims)]
<1> HIDE DEF R
<1>1. Calls[t] \in Seq(R)
  BY JevAssumption DEF R
<1>2. Calls[t][i] \in R
  BY <1>1
<1> QED  BY <1>2 DEF R

LEMMA CurType ==
  ASSUME JevTypeOK, NEW t \in Threads, InCall(t)
  PROVE  /\ call[t] \in DOMAIN Calls[t]
         /\ Cur(t).op \in Ops /\ Cur(t).rows \in Seq(Claims)
<1>1. call[t] \in DOMAIN Calls[t]
  BY DEF JevTypeOK, InCall
<1> QED  BY <1>1, CallType DEF Cur

LEMMA SlotType == ASSUME NEW t \in Threads PROVE Slot(t) \in Slots /\ StreamOf(t) \in Slots
  BY DEF Slot, StreamOf, Slots

(* What the evaluators ask of their QueryState. *)
Use == \/ \E S \in SUBSET Claims : Snapshot(S)
       \/ \E c \in Claims : ClaimStep(c)
       \/ \E S \in SUBSET Claims : \E requests \in 1 .. Cardinality(S) : Reserve(S, requests)

LEMMA UseIsNext == Use => Next
  BY DEF Use, Next

(* The packs of a chunk: at least one, at most one a row, none empty. *)
LEMMA PacksType ==
  ASSUME JevInv, NEW s \in Slots, pack[s] # <<>>
  PROVE  /\ Len(Packs(s)) \in 1 .. Cardinality(ToSet(pack[s]))
         /\ Packs(s) \in Seq(Seq(Claims) \ {<<>>})
<1> DEFINE n == Len(pack[s])
           q == (n + BatchSize - 1) \div BatchSize
           P(i) == SubSeq(pack[s], (i - 1) * BatchSize + 1,
                          IF i * BatchSize < n THEN i * BatchSize ELSE n)
<1>1. pack[s] \in Seq(Claims)
  BY DEF JevInv, JevTypeOK
<1>2. n \in Nat \ {0} /\ BatchSize \in Nat \ {0}
  BY <1>1, JevAssumption
<1>3. q \in 1 .. n /\ \A i \in 1 .. q : (i - 1) * BatchSize + 1 \in 1 .. n
  <2> HIDE DEF n
  <2> QED  BY <1>2, RoundUp
<1>4. Cardinality(ToSet(pack[s])) = n
  BY <1>1, DistinctLength DEF JevInv, PacksInv
<1>5. Packs(s) = [i \in 1 .. q |-> P(i)]
  BY DEF Packs
<1>6. ASSUME NEW i \in 1 .. q PROVE P(i) \in Seq(Claims) \ {<<>>}
  <2> DEFINE lo == (i - 1) * BatchSize + 1
             hi == IF i * BatchSize < n THEN i * BatchSize ELSE n
  <2>1. lo \in 1 .. n
    BY <1>3
  <2>2. i * BatchSize = (i - 1) * BatchSize + BatchSize
    BY <1>2, <1>3
  <2>3. hi \in 1 .. n /\ lo <= hi
    <3> HIDE DEF n
    <3>1. i * BatchSize \in Int /\ (i - 1) * BatchSize \in Int
      BY <1>2, <1>3
    <3> QED  BY <1>2, <2>1, <2>2, <3>1
  <2> HIDE DEF lo, hi
  <2>4. \A j \in lo .. hi : pack[s][j] \in Claims
    BY <1>1, <2>1, <2>3
  <2>5. SubSeq(pack[s], lo, hi) \in Seq(Claims) /\ Len(SubSeq(pack[s], lo, hi)) = hi - lo + 1
    BY <2>1, <2>3, <2>4, SubSeqProperties
  <2>6. SubSeq(pack[s], lo, hi) # <<>>
    BY <2>1, <2>3, <2>5
  <2> QED  BY <2>5, <2>6 DEF lo, hi
<1> HIDE DEF q, P
<1>7. Packs(s) \in Seq(Seq(Claims) \ {<<>>}) /\ Len(Packs(s)) = q
  BY <1>3, <1>5, <1>6
<1> QED  BY <1>3, <1>4, <1>7

(* Dropping a row is a use by the claim at the head. *)
LEMMA DropRowUse == ASSUME JevTypeOK, NEW s \in Slots, DropRow(s) PROVE Use \/ UNCHANGED vars
<1>1. rows[s] \in Seq(Claims) /\ rows[s] # <<>>
  BY DEF JevTypeOK, DropRow
<1> DEFINE c == Head(rows[s])
<1>2. c \in Claims
  BY <1>1, HeadTailProperties
<1>3. ClaimStep(c) \/ UNCHANGED vars
  <2> HIDE DEF c
  <2>1. Abandon(c) \/ Release(c) \/ Leave(c) \/ Orphan(c) \/ UNCHANGED vars
    BY DEF DropRow, c
  <2> QED  BY <2>1 DEF ClaimStep, OwnerStep
<1> QED  BY <1>2, <1>3 DEF Use

LEMMA CompleteUse == ASSUME NEW c \in Claims, CompleteStep(c) PROVE Use
  BY DEF CompleteStep, Use, ClaimStep, OwnerStep

LEMMA AcquireRowUse ==
  ASSUME JevTypeOK, NEW t \in Threads, InCall(t), pos[t] <= Len(Cur(t).rows), AcquireRow(t)
  PROVE  /\ Cur(t).rows[pos[t]] \in Claims
         /\ Use
<1> DEFINE c == Cur(t).rows[pos[t]]
<1>1. c \in Claims
  <2>1. Cur(t).rows \in Seq(Claims)
    BY CurType
  <2>2. pos[t] \in Nat \ {0}
    BY DEF JevTypeOK
  <2> HIDE DEF c
  <2>3. pos[t] \in DOMAIN Cur(t).rows
    BY <2>1, <2>2
  <2> QED  BY <2>1, <2>3 DEF c
<1>2. RowKey[c] \in Keys
  BY <1>1, JevAssumption
<1>3. Acquire(c, RowKey[c])
  BY DEF AcquireRow
<1> HIDE DEF c
<1>4. ClaimStep(c)
  BY <1>2, <1>3 DEF ClaimStep
<1>5. Use
  BY <1>1, <1>4 DEF Use
<1> QED  BY <1>1, <1>5 DEF c

(***************************************************************************)
(* Every step of an evaluator, of a job or of a worker that drops a row is *)
(* a use of QueryState, or leaves it alone.                                *)
(***************************************************************************)
LEMMA Uses == JevInv /\ [JevNext]_jevVars => Use \/ UNCHANGED vars
<1> SUFFICES ASSUME JevInv, [JevNext]_jevVars PROVE Use \/ UNCHANGED vars
  OBVIOUS
<1> USE DEF JevInv
<1>1. ASSUME NEW t \in Threads, Begin(t) PROVE Use \/ UNCHANGED vars
  <2> DEFINE c == Calls[t][call[t] + 1]
             S == IF c.op = "eval" THEN ToSet(c.rows) ELSE StreamRows(t)
  <2>1. Snapshot(S) \/ UNCHANGED vars
    BY <1>1 DEF Begin
  <2>2. Calls[t] \in Seq([op : Ops, rows : Seq(Claims)])
    BY JevAssumption
  <2>3. ASSUME NEW i \in DOMAIN Calls[t] PROVE ToSet(Calls[t][i].rows) \in SUBSET Claims
    <3>1. Calls[t][i].rows \in Seq(Claims)
      BY CallType
    <3> QED  BY <3>1, ToSetType
  <2>4. call[t] + 1 \in DOMAIN Calls[t]
    BY <1>1, <2>2 DEF Begin, JevTypeOK
  <2>5. S \in SUBSET Claims
    BY <2>3, <2>4 DEF StreamRows
  <2> HIDE DEF S
  <2> QED  BY <2>1, <2>5 DEF Use
<1>2. ASSUME NEW t \in Threads, EvalStep(t) PROVE Use \/ UNCHANGED vars
  <2>1. CASE EvalAcquire(t)
    <3>1. InCall(t) /\ pos[t] <= Len(Cur(t).rows) /\ AcquireRow(t)
      BY <2>1 DEF EvalAcquire, InCall
    <3> QED  BY <3>1, AcquireRowUse
  <2>2. CASE EvalReserve(t)
    <3> DEFINE s == Slot(t)
    <3>1. CASE pack[s] = <<>>
      BY <2>2, <3>1 DEF EvalReserve
    <3>2. CASE pack[s] # <<>>
      <4>1. Reserve(ToSet(pack[s]), Len(Packs(s)))
        BY <2>2, <3>2 DEF EvalReserve
      <4>2. Len(Packs(s)) \in 1 .. Cardinality(ToSet(pack[s]))
        BY <3>2, PacksType, SlotType
      <4>3. ToSet(pack[s]) \in SUBSET Claims
        BY SlotType, ToSetType DEF JevTypeOK
      <4> QED  BY <4>1, <4>2, <4>3 DEF Use
    <3> QED  BY <3>1, <3>2
  <2>3. CASE EvalPublish(t)
    <3>1. CASE pos[t] <= Len(pack[Slot(t)])
      <4>1. pack[Slot(t)] \in Seq(Claims) /\ pos[t] \in Nat \ {0}
        BY SlotType DEF JevTypeOK
      <4>2. pack[Slot(t)][pos[t]] \in Claims
        BY <3>1, <4>1
      <4>3. CompleteStep(pack[Slot(t)][pos[t]])
        BY <2>3, <3>1 DEF EvalPublish
      <4> QED  BY <4>2, <4>3, CompleteUse
    <3>2. CASE ~(pos[t] <= Len(pack[Slot(t)]))
      BY <2>3, <3>2 DEF EvalPublish
    <3> QED  BY <3>1, <3>2
  <2>4. CASE EvalAwait(t)
    <3>1. CASE pos[t] <= Len(rows[Slot(t)])
      <4>1. rows[Slot(t)] \in Seq(Claims) /\ pos[t] \in Nat \ {0}
        BY SlotType DEF JevTypeOK
      <4>2. rows[Slot(t)][pos[t]] \in Claims
        BY <3>1, <4>1
      <4>3. AwaitFlight(rows[Slot(t)][pos[t]]) \/ UNCHANGED vars
        BY <2>4, <3>1 DEF EvalAwait
      <4> QED  BY <4>2, <4>3 DEF Use, ClaimStep
    <3>2. CASE ~(pos[t] <= Len(rows[Slot(t)]))
      BY <2>4, <3>2 DEF EvalAwait
    <3> QED  BY <3>1, <3>2
  <2>5. CASE EvalUnwind(t)
    BY <2>5, DropRowUse, SlotType DEF EvalUnwind
  <2>6. CASE EvalSubmit(t) \/ EvalRefused(t) \/ EvalJoin(t) \/ EvalFails(t)
    BY <2>6 DEF EvalSubmit, EvalRefused, EvalJoin, EvalFails
  <2> QED  BY <1>2, <2>1, <2>2, <2>3, <2>4, <2>5, <2>6 DEF EvalStep
<1>3. ASSUME NEW t \in Threads, StreamStep(t) PROVE Use \/ UNCHANGED vars
  <2>0. Slot(t) \in Slots
    BY SlotType
  <2>1. CASE StreamAdd(t)
    <3>1. InCall(t) /\ pos[t] <= Len(Cur(t).rows) /\ AcquireRow(t)
      BY <2>1 DEF StreamAdd, InCall
    <3> QED  BY <3>1, AcquireRowUse
  <2>2. ASSUME pack[Slot(t)] # <<>>, Reserve(ToSet(pack[Slot(t)]), 1) PROVE Use
    <3>1. pack[Slot(t)] \in Seq(Claims)
      BY <2>0 DEF JevTypeOK
    <3>2. ToSet(pack[Slot(t)]) \in SUBSET Claims
      BY <3>1, ToSetType
    <3>3. Cardinality(ToSet(pack[Slot(t)])) = Len(pack[Slot(t)])
      BY <2>0, <3>1, DistinctLength DEF PacksInv
    <3>4. 1 \in 1 .. Cardinality(ToSet(pack[Slot(t)]))
      BY <2>2, <3>1, <3>3
    <3> QED  BY <2>2, <3>2, <3>4 DEF Use
  <2>3. CASE StreamFlush(t)
    BY <2>2, <2>3 DEF StreamFlush
  <2>4. CASE EmitRow(t)
    <3>1. rows[Slot(t)] \in Seq(Claims) /\ rows[Slot(t)] # <<>>
      BY <2>0, <2>4 DEF JevTypeOK, EmitRow
    <3>2. Head(rows[Slot(t)]) \in Claims
      BY <3>1, HeadTailProperties
    <3>3. AwaitFlight(Head(rows[Slot(t)])) \/ UNCHANGED vars
      BY <2>4 DEF EmitRow
    <3> QED  BY <3>2, <3>3 DEF Use, ClaimStep
  <2>5. CASE StreamFails(t)
    BY <2>2, <2>5 DEF StreamFails
  <2>6. CASE StreamEmit(t) \/ EmitEnd(t) \/ Resume(t)
    BY <2>6 DEF StreamEmit, EmitEnd, Resume
  <2> QED  BY <1>3, <2>1, <2>3, <2>4, <2>5, <2>6 DEF StreamStep
<1>4. ASSUME NEW t \in Threads, Close(t) \/ Clear(t) PROVE Use \/ UNCHANGED vars
  BY <1>4, DropRowUse, SlotType DEF Close, Clear
<1>5. ASSUME NEW s \in Slots, NEW i \in DOMAIN jobs[s], JobStep(s, i) PROVE Use \/ UNCHANGED vars
  <2>1. CASE JobComplete(s, i)
    <3>1. jobs[s] \in Seq(GoodJob)
      BY DEF JobsInv
    <3>2. jobs[s][i] \in GoodJob
      BY <3>1
    <3>3. jobs[s][i].refs[jobs[s][i].next] \in Claims
      BY <3>2 DEF GoodJob
    <3>4. CompleteStep(jobs[s][i].refs[jobs[s][i].next])
      BY <2>1 DEF JobComplete
    <3> QED  BY <3>3, <3>4, CompleteUse
  <2>2. CASE JobStart(s, i) \/ JobAnswered(s, i) \/ JobFails(s, i) \/ JobError(s, i)
    BY <2>2 DEF JobStart, JobAnswered, JobFails, JobError
  <2> QED  BY <1>5, <2>1, <2>2 DEF JobStep
<1>6. ASSUME NEW c \in Claims, LateDrop(c) PROVE Use \/ UNCHANGED vars
  BY <1>6 DEF LateDrop, Use, ClaimStep, OwnerStep
<1>7. CASE Interrupt \/ Over \/ UNCHANGED jevVars
  BY <1>7 DEF Interrupt, Over, jevVars
<1> QED  BY <1>1, <1>2, <1>3, <1>4, <1>5, <1>6, <1>7 DEF JevNext, ThreadStep

-----------------------------------------------------------------------------
(* The type invariant, in four parts. *)
ControlOK ==
  /\ call \in [Threads -> Nat]
  /\ \A t \in Threads : phase[t] \notin {"next", "close", "closing", "closed"} =>
                             call[t] \in DOMAIN Calls[t]
  /\ phase \in [Threads -> Phases]
  /\ pos \in [Threads -> Nat \ {0}] /\ count \in [Threads -> 0 .. VectorSize]

RowsOK == rows \in [Slots -> Seq(Claims)] /\ pack \in [Slots -> Seq(Claims)]

FactsOK ==
  /\ stopped \in [Slots -> BOOLEAN] /\ error \in [Slots -> BOOLEAN]
  /\ owners \subseteq Claims /\ answered \subseteq Claims
  /\ interrupted \in BOOLEAN /\ faults \in 0 .. MaxFaults

LEMMA GoodJobs ==
  ASSUME NEW f \in [Slots -> Seq(GoodJob)]
  PROVE  f \in [Slots -> Seq([refs : Seq(Claims), state : JobStates, next : Nat \ {0}])]
<1> DEFINE Job == [refs : Seq(Claims), state : JobStates, next : Nat \ {0}]
<1>1. GoodJob \subseteq Job
  BY DEF GoodJob
<1> HIDE DEF Job
<1>2. Seq(GoodJob) \subseteq Seq(Job)
  BY <1>1, SeqMonotonic
<1>3. f \in [Slots -> Seq(Job)]
  BY <1>2
<1> QED  BY <1>3 DEF Job

LEMMA TypeParts == JevTypeOK /\ JobsInv <=> ControlOK /\ RowsOK /\ JobsInv /\ FactsOK
  BY GoodJobs DEF JevTypeOK, ControlOK, RowsOK, FactsOK, JobsInv

(* A thread moves within its call, or to its end. *)
LEMMA Move ==
  ASSUME ControlOK, NEW t \in Threads, NEW p \in Phases, Go(t, p), call' = call,
         InCall(t) \/ p \in {"next", "close", "closing", "closed"},
         pos' = pos \/ NextRow(t) \/ Restart(t),
         count' \in [Threads -> 0 .. VectorSize]
  PROVE  ControlOK'
<1>1. pos' \in [Threads -> Nat \ {0}]
  BY DEF ControlOK, NextRow, Restart
<1>2. phase' \in [Threads -> Phases]
  BY DEF ControlOK, Go
<1>3. ASSUME NEW u \in Threads, phase'[u] \notin {"next", "close", "closing", "closed"}
      PROVE  call'[u] \in DOMAIN Calls[u]
  BY <1>3 DEF ControlOK, Go, InCall
<1> QED  BY <1>1, <1>2, <1>3 DEF ControlOK

(* ... or stays where it is. *)
LEMMA Stay ==
  ASSUME ControlOK, NEW t \in Threads, phase' = phase, call' = call,
         pos' = pos \/ NextRow(t) \/ Restart(t),
         count' \in [Threads -> 0 .. VectorSize]
  PROVE  ControlOK'
<1>1. pos' \in [Threads -> Nat \ {0}]
  BY DEF ControlOK, NextRow, Restart
<1> QED  BY <1>1 DEF ControlOK

LEMMA ControlNext == JevInv /\ [JevNext]_jevVars => ControlOK'
<1> SUFFICES ASSUME JevInv, [JevNext]_jevVars PROVE ControlOK'
  OBVIOUS
<1> ControlOK
  BY TypeParts DEF JevInv
<1>0. count \in [Threads -> 0 .. VectorSize] /\ VectorSize \in Nat
  BY JevAssumption DEF ControlOK
<1>1. ASSUME NEW t \in Threads, Begin(t) PROVE ControlOK'
  <2>1. call[t] + 1 \in DOMAIN Calls[t]
    BY <1>1, JevAssumption DEF Begin, ControlOK
  <2>2. Calls[t][call[t] + 1].op \in Ops
    BY <2>1, CallType
  <2>3. FirstPhase(Calls[t][call[t] + 1].op) \in Phases
    BY <2>2 DEF FirstPhase, Ops, Phases, BeforeEmit
  <2>4. /\ call' = [call EXCEPT ![t] = @ + 1] /\ Go(t, FirstPhase(Calls[t][call[t] + 1].op))
        /\ Restart(t) /\ count' = count
    BY <1>1 DEF Begin
  <2> QED  BY <2>1, <2>3, <2>4 DEF ControlOK, Go, Restart
<1>2. ASSUME NEW t \in Threads, EvalStep(t) PROVE ControlOK'
  <2>1. CASE EvalAcquire(t)
    BY <2>1, <1>0, Stay DEF EvalAcquire
  <2>2. CASE EvalReserve(t)
    BY <2>2, <1>0, Move DEF EvalReserve, InCall, Phases
  <2>3. CASE EvalSubmit(t)
    BY <2>3, <1>0, Move, Stay DEF EvalSubmit, InCall, Phases
  <2>4. CASE EvalRefused(t)
    BY <2>4, <1>0, Move DEF EvalRefused, InCall, Phases
  <2>5. CASE EvalJoin(t)
    BY <2>5, <1>0, Move DEF EvalJoin, InCall, Phases, After
  <2>6. CASE EvalPublish(t)
    BY <2>6, <1>0, Move, Stay DEF EvalPublish, InCall, Phases, After
  <2>7. CASE EvalAwait(t)
    BY <2>7, <1>0, Move, Stay DEF EvalAwait, InCall, Phases, After
  <2>8. CASE EvalFails(t)
    BY <2>8, <1>0, Move DEF EvalFails, InCall, Phases
  <2>9. CASE EvalUnwind(t)
    BY <2>9, <1>0, Move, Stay DEF EvalUnwind, InCall, Phases
  <2> QED  BY <1>2, <2>1, <2>2, <2>3, <2>4, <2>5, <2>6, <2>7, <2>8, <2>9 DEF EvalStep
<1>3. ASSUME NEW t \in Threads, StreamStep(t) PROVE ControlOK'
  <2>1. CASE StreamAdd(t)
    BY <2>1, <1>0, Move DEF StreamAdd, InCall, Phases
  <2>2. CASE StreamEmit(t)
    BY <2>2, <1>0, Move DEF StreamEmit, InCall, Phases, BeforeEmit
  <2>3. CASE StreamFlush(t)
    BY <2>3, <1>0, Move DEF StreamFlush, AfterFlush, InCall, Phases
  <2>4. CASE EmitRow(t)
    <3>1. count' \in [Threads -> 0 .. VectorSize]
      BY <2>4, <1>0 DEF EmitRow
    <3> QED  BY <2>4, <3>1, Stay DEF EmitRow
  <2>5. CASE EmitEnd(t)
    <3>1. count' \in [Threads -> 0 .. VectorSize]
      BY <2>5, <1>0 DEF EmitEnd
    <3>2. InCall(t)
      BY <2>5 DEF EmitEnd, InCall
    <3> QED  BY <2>5, <3>1, <3>2, Move DEF EmitEnd, Phases
  <2>6. CASE Resume(t)
    <3>1. InCall(t) /\ Cur(t).op \in Ops
      BY <2>6, CurType DEF Resume, InCall, JevInv
    <3>2. FirstPhase(Cur(t).op) \in Phases
      BY <3>1 DEF FirstPhase, Ops, Phases, BeforeEmit
    <3> QED  BY <2>6, <1>0, <3>1, <3>2, Move DEF Resume
  <2>7. CASE StreamFails(t)
    BY <2>7, <1>0, Move DEF StreamFails, Phases
  <2> QED  BY <1>3, <2>1, <2>2, <2>3, <2>4, <2>5, <2>6, <2>7 DEF StreamStep
<1>4. ASSUME NEW t \in Threads, Close(t) \/ Clear(t) PROVE ControlOK'
  BY <1>4, <1>0, Move, Stay DEF Close, Clear, Phases
<1>5. CASE UNCHANGED control
  BY <1>5 DEF control, ControlOK
<1>6. ASSUME NEW s \in Slots, NEW i \in DOMAIN jobs[s], JobStep(s, i) PROVE UNCHANGED control
  BY <1>6 DEF JobStep, JobStart, JobAnswered, JobComplete, JobFails, JobError
<1>7. ASSUME NEW c \in Claims, LateDrop(c) PROVE UNCHANGED control
  BY <1>7 DEF LateDrop, evalVars
<1>8. CASE Interrupt \/ Over \/ UNCHANGED jevVars
  BY <1>5, <1>8 DEF Interrupt, Over, jevVars, evalVars
<1> QED  BY <1>1, <1>2, <1>3, <1>4, <1>5, <1>6, <1>7, <1>8 DEF JevNext, ThreadStep

-----------------------------------------------------------------------------
(* Rows and packs. *)
LEMMA DropRowRows ==
  ASSUME RowsOK, NEW s \in Slots, DropRow(s)
  PROVE  rows' \in [Slots -> Seq(Claims)]
<1>1. rows[s] # <<>> /\ (rows' = rows \/ rows' = [rows EXCEPT ![s] = Tail(@)])
  BY DEF DropRow
<1>2. Tail(rows[s]) \in Seq(Claims)
  BY <1>1, HeadTailProperties DEF RowsOK
<1> QED  BY <1>1, <1>2 DEF RowsOK

LEMMA AcquireRowRows ==
  ASSUME JevInv, NEW t \in Threads, InCall(t), pos[t] <= Len(Cur(t).rows), AcquireRow(t)
  PROVE  RowsOK' /\ owners' \subseteq Claims
<1> DEFINE c == Cur(t).rows[pos[t]]
<1>1. c \in Claims /\ Slot(t) \in Slots
  BY AcquireRowUse, SlotType DEF JevInv
<1>2. rows' = [rows EXCEPT ![Slot(t)] = Append(@, c)]
  BY DEF AcquireRow
<1>3. \/ pack' = [pack EXCEPT ![Slot(t)] = Append(@, c)] /\ owners' = owners \cup {c}
      \/ pack' = pack /\ owners' = owners
  BY DEF AcquireRow
<1> HIDE DEF c
<1>4. /\ rows \in [Slots -> Seq(Claims)] /\ pack \in [Slots -> Seq(Claims)]
      /\ owners \subseteq Claims
  BY DEF JevInv, JevTypeOK
<1>5. Append(rows[Slot(t)], c) \in Seq(Claims) /\ Append(pack[Slot(t)], c) \in Seq(Claims)
  BY <1>1, <1>4, AppendProperties
<1> QED  BY <1>1, <1>2, <1>3, <1>4, <1>5 DEF RowsOK

LEMMA RowsNext == JevInv /\ [JevNext]_jevVars => RowsOK'
<1> SUFFICES ASSUME JevInv, [JevNext]_jevVars PROVE RowsOK'
  OBVIOUS
<1> RowsOK
  BY TypeParts DEF JevInv
<1>9. <<>> \in Seq(Claims)
  BY EmptySeq
<1>0. CASE UNCHANGED <<rows, pack>>
  BY <1>0 DEF RowsOK
<1>1. ASSUME NEW t \in Threads, Begin(t) PROVE RowsOK'
  <2>1. \/ rows' = rows /\ pack' = pack
        \/ /\ rows' = [rows EXCEPT ![<<t, "eval">>] = <<>>]
           /\ pack' = [pack EXCEPT ![<<t, "eval">>] = <<>>]
    BY <1>1 DEF Begin
  <2>2. <<t, "eval">> \in Slots
    BY DEF Slots
  <2> QED  BY <1>9, <2>1, <2>2 DEF RowsOK
<1>2. ASSUME NEW t \in Threads, EvalStep(t) PROVE RowsOK'
  <2>1. CASE EvalAcquire(t)
    <3>1. InCall(t) /\ pos[t] <= Len(Cur(t).rows) /\ AcquireRow(t)
      BY <2>1 DEF EvalAcquire, InCall
    <3> QED  BY <3>1, AcquireRowRows
  <2>2. CASE EvalUnwind(t)
    <3>1. pack' = pack /\ (rows' = rows \/ DropRow(Slot(t)))
      BY <2>2 DEF EvalUnwind
    <3> QED  BY <3>1, DropRowRows, SlotType DEF RowsOK
  <2>3. CASE \/ EvalReserve(t) \/ EvalSubmit(t) \/ EvalRefused(t) \/ EvalJoin(t)
             \/ EvalPublish(t) \/ EvalAwait(t) \/ EvalFails(t)
    BY <1>0, <2>3 DEF EvalReserve, EvalSubmit, EvalRefused, EvalJoin, EvalPublish, EvalAwait,
                      EvalFails
  <2> QED  BY <1>2, <2>1, <2>2, <2>3 DEF EvalStep
<1>3. ASSUME NEW t \in Threads, StreamStep(t) PROVE RowsOK'
  <2>1. CASE StreamAdd(t)
    <3>1. InCall(t) /\ pos[t] <= Len(Cur(t).rows) /\ AcquireRow(t)
      BY <2>1 DEF StreamAdd, InCall
    <3> QED  BY <3>1, AcquireRowRows
  <2>2. CASE StreamFlush(t) \/ StreamFails(t)
    <3>1. rows' = rows /\ (pack' = pack \/ pack' = [pack EXCEPT ![Slot(t)] = <<>>])
      BY <2>2 DEF StreamFlush, StreamFails
    <3> QED  BY <1>9, <3>1, SlotType DEF RowsOK
  <2>3. CASE EmitRow(t)
    <3>1. pack' = pack /\ rows[Slot(t)] # <<>> /\ rows' = [rows EXCEPT ![Slot(t)] = Tail(@)]
      BY <2>3 DEF EmitRow
    <3>2. Tail(rows[Slot(t)]) \in Seq(Claims)
      BY <3>1, HeadTailProperties, SlotType DEF RowsOK
    <3> QED  BY <3>1, <3>2, SlotType DEF RowsOK
  <2>4. CASE StreamEmit(t) \/ EmitEnd(t) \/ Resume(t)
    BY <1>0, <2>4 DEF StreamEmit, EmitEnd, Resume
  <2> QED  BY <1>3, <2>1, <2>2, <2>3, <2>4 DEF StreamStep
<1>4. ASSUME NEW t \in Threads, Close(t) PROVE RowsOK'
  BY <1>0, <1>4 DEF Close
<1>5. ASSUME NEW t \in Threads, Clear(t) PROVE RowsOK'
  <2>1. pack' = [pack EXCEPT ![StreamOf(t)] = <<>>] /\ (rows' = rows \/ DropRow(StreamOf(t)))
    BY <1>5 DEF Clear
  <2> QED  BY <1>9, <2>1, DropRowRows, SlotType DEF RowsOK
<1>6. ASSUME NEW s \in Slots, NEW i \in DOMAIN jobs[s], JobStep(s, i) PROVE RowsOK'
  BY <1>0, <1>6 DEF JobStep, JobStart, JobAnswered, JobComplete, JobFails, JobError
<1>7. ASSUME NEW c \in Claims, LateDrop(c) PROVE RowsOK'
  BY <1>0, <1>7 DEF LateDrop, evalVars
<1>8. CASE Interrupt \/ Over \/ UNCHANGED jevVars
  BY <1>0, <1>8 DEF Interrupt, Over, jevVars, evalVars
<1> QED  BY <1>1, <1>2, <1>3, <1>4, <1>5, <1>6, <1>7, <1>8 DEF JevNext, ThreadStep

(***************************************************************************)
(* Jobs.                                                                   *)
(***************************************************************************)
LEMMA NoPacks == ASSUME NEW s \in Slots, pack[s] = <<>> PROVE Len(Packs(s)) = 0
<1>1. BatchSize \in Nat \ {0}
  BY JevAssumption
<1>2. (0 + BatchSize - 1) \div BatchSize = 0
  BY <1>1
<1>3. Len(pack[s]) = 0
  OBVIOUS
<1> DEFINE P(i) == SubSeq(pack[s], (i - 1) * BatchSize + 1,
                          IF i * BatchSize < 0 THEN i * BatchSize ELSE 0)
<1>4. Packs(s) = [i \in 1 .. 0 |-> P(i)]
  BY <1>2, <1>3 DEF Packs
<1> HIDE DEF P
<1>5. Len([i \in 1 .. 0 |-> P(i)]) = 0
  OBVIOUS
<1> QED  BY <1>4, <1>5

LEMMA NewJobType == ASSUME NEW refs \in Seq(Claims) \ {<<>>} PROVE NewJob(refs) \in GoodJob
<1>1. 1 <= Len(refs)
  OBVIOUS
<1> QED  BY <1>1 DEF NewJob, GoodJob, JobStates

LEMMA PutJobType ==
  ASSUME JobsInv, NEW s \in Slots, NEW i \in DOMAIN jobs[s], NEW job \in GoodJob,
         PutJob(s, i, job)
  PROVE  JobsInv'
<1>1. jobs[s] \in Seq(GoodJob) /\ i \in 1 .. Len(jobs[s])
  BY DEF JobsInv
<1>2. ReplaceAt(jobs[s], i, job) \in Seq(GoodJob)
  BY <1>1, ExceptSeq DEF ReplaceAt
<1> QED  BY <1>2 DEF PutJob, JobsInv

LEMMA SetJobType ==
  ASSUME JobsInv, NEW s \in Slots, NEW i \in DOMAIN jobs[s], NEW state \in JobStates,
         SetJob(s, i, state)
  PROVE  JobsInv'
<1>1. jobs[s] \in Seq(GoodJob) /\ i \in 1 .. Len(jobs[s])
  BY DEF JobsInv
<1>2. jobs[s][i] \in GoodJob
  BY <1>1
<1> DEFINE job == [jobs[s][i] EXCEPT !.state = state]
<1>3. job \in GoodJob
  BY <1>2 DEF GoodJob
<1>4. PutJob(s, i, job)
  BY DEF SetJob
<1> HIDE DEF job
<1> QED  BY <1>3, <1>4, PutJobType

LEMMA ReapedType ==
  ASSUME JobsInv, NEW s \in Slots PROVE Reaped(s) \in Seq(GoodJob)
<1>1. jobs[s] \in Seq(GoodJob)
  BY DEF JobsInv
<1> DEFINE ready == { n \in DOMAIN jobs[s] : \A i \in 1 .. n : jobs[s][i].state = "done" }
<1>2. ready \in SUBSET (1 .. Len(jobs[s])) /\ Len(jobs[s]) \in Nat
  BY <1>1
<1>4. Cardinality(ready) \in Nat
  <2> DEFINE m == Len(jobs[s])
  <2> HIDE DEF ready, m
  <2>1. m \in Nat /\ ready \in SUBSET (1 .. m)
    BY <1>2 DEF m
  <2>2. IsFiniteSet(1 .. m)
    BY <2>1, FS_Interval
  <2> QED  BY <2>1, <2>2, FS_Subset, FS_CardinalityType
<1> DEFINE n == Cardinality(ready)
<1>5. Reaped(s) = SubSeq(jobs[s], n + 1, Len(jobs[s]))
  BY DEF Reaped
<1> HIDE DEF n
<1>6. n \in Nat
  BY <1>4 DEF n
<1>7. \A i \in n + 1 .. Len(jobs[s]) : jobs[s][i] \in GoodJob
  BY <1>1, <1>6
<1>8. SubSeq(jobs[s], n + 1, Len(jobs[s])) \in Seq(GoodJob)
  BY <1>1, <1>6, <1>7, SubSeqProperties
<1> QED  BY <1>5, <1>8

LEMMA AppendJob ==
  ASSUME JobsInv, NEW s \in Slots, NEW q \in Seq(GoodJob), NEW refs \in Seq(Claims) \ {<<>>},
         jobs' = [jobs EXCEPT ![s] = Append(q, NewJob(refs))]
  PROVE  JobsInv'
<1>1. Append(q, NewJob(refs)) \in Seq(GoodJob)
  BY NewJobType, AppendProperties
<1> QED  BY <1>1 DEF JobsInv

LEMMA JobsNext == JevInv /\ [JevNext]_jevVars => JobsInv'
<1> SUFFICES ASSUME JevInv, [JevNext]_jevVars PROVE JobsInv'
  OBVIOUS
<1> JobsInv
  BY DEF JevInv
<1>0. CASE UNCHANGED jobs
  BY <1>0 DEF JobsInv
<1>1. ASSUME NEW t \in Threads, Begin(t) PROVE JobsInv'
  <2>1. jobs' = jobs \/ jobs' = [jobs EXCEPT ![<<t, "eval">>] = <<>>]
    BY <1>1 DEF Begin, jobVars
  <2>2. <<>> \in Seq(GoodJob)
    BY EmptySeq
  <2> QED  BY <2>1, <2>2 DEF JobsInv, Slots
<1>2. ASSUME NEW t \in Threads, EvalSubmit(t) PROVE JobsInv'
  <2> DEFINE s == Slot(t)
  <2>1. CASE jobs' = jobs
    BY <1>0, <2>1
  <2>2. CASE /\ pos[t] <= Len(Packs(s))
             /\ jobs' = [jobs EXCEPT ![s] = Append(@, NewJob(Packs(s)[pos[t]]))]
    <3>1. s \in Slots /\ pos[t] \in Nat \ {0} /\ jobs[s] \in Seq(GoodJob)
      BY SlotType DEF JevInv, JevTypeOK, JobsInv
    <3>2. CASE pack[s] # <<>>
      <4>1. Packs(s) \in Seq(Seq(Claims) \ {<<>>})
        BY <3>1, <3>2, PacksType
      <4>2. Packs(s)[pos[t]] \in Seq(Claims) \ {<<>>}
        <5> DEFINE R == Seq(Claims) \ {<<>>}
        <5> HIDE DEF R, s
        <5>1. Packs(s) \in Seq(R)
          BY <4>1 DEF R
        <5>2. Packs(s)[pos[t]] \in R
          BY <2>2, <3>1, <5>1
        <5> QED  BY <5>2 DEF R
      <4> QED  BY <2>2, <3>1, <4>2, AppendJob
    <3>3. CASE pack[s] = <<>>
      <4>1. Len(Packs(s)) = 0
        BY <3>1, <3>3, NoPacks
      <4> QED  BY <2>2, <3>1, <4>1
    <3> QED  BY <3>2, <3>3
  <2> QED  BY <1>2, <2>1, <2>2 DEF EvalSubmit
<1>3. ASSUME NEW t \in Threads, StreamFlush(t) PROVE JobsInv'
  <2>1. CASE pack[Slot(t)] = <<>>
    BY <1>0, <1>3, <2>1 DEF StreamFlush
  <2>2. CASE pack[Slot(t)] # <<>>
    <3>1. Slot(t) \in Slots /\ pack[Slot(t)] \in Seq(Claims)
      BY SlotType DEF JevInv, JevTypeOK
    <3>2. jobs' = [jobs EXCEPT ![Slot(t)] = Append(Reaped(Slot(t)), NewJob(pack[Slot(t)]))]
      BY <1>3, <2>2 DEF StreamFlush
    <3> QED  BY <2>2, <3>1, <3>2, ReapedType, AppendJob
  <2> QED  BY <2>1, <2>2
<1>4. ASSUME NEW t \in Threads, EmitEnd(t) PROVE JobsInv'
  <2>1. jobs' = [jobs EXCEPT ![Slot(t)] = Reaped(Slot(t))]
    BY <1>4 DEF EmitEnd
  <2> QED  BY <2>1, ReapedType, SlotType DEF JobsInv
<1>5. ASSUME NEW s \in Slots, NEW i \in DOMAIN jobs[s], JobStep(s, i) PROVE JobsInv'
  <2>1. CASE \E state \in JobStates : SetJob(s, i, state)
    BY <2>1, SetJobType
  <2>2. CASE JobStart(s, i) \/ JobAnswered(s, i) \/ JobFails(s, i) \/ JobError(s, i)
    BY <2>1, <2>2 DEF JobStart, JobAnswered, JobFails, JobError, JobStates
  <2>3. CASE JobComplete(s, i)
    <3>1. jobs[s] \in Seq(GoodJob) /\ i \in 1 .. Len(jobs[s])
      BY DEF JobsInv
    <3>2. jobs[s][i] \in GoodJob
      BY <3>1
    <3> DEFINE job == jobs[s][i]
               later == [job EXCEPT !.next = @ + 1]
    <3>3. \/ jobs' = jobs
          \/ SetJob(s, i, "done")
          \/ job.next # Len(job.refs) /\ PutJob(s, i, later)
      BY <2>3 DEF JobComplete
    <3>4. CASE job.next # Len(job.refs) /\ PutJob(s, i, later)
      <4>1. later \in GoodJob
        BY <3>2, <3>4 DEF GoodJob
      <4> HIDE DEF later
      <4> QED  BY <3>4, <4>1, PutJobType
    <3> QED  BY <1>0, <2>1, <3>3, <3>4 DEF JobStates
  <2> QED  BY <1>5, <2>2, <2>3 DEF JobStep
<1>6. ASSUME NEW t \in Threads, ThreadStep(t), ~Begin(t), ~EvalSubmit(t), ~StreamFlush(t), ~EmitEnd(t)
      PROVE  UNCHANGED jobs
  <2>1. CASE EvalStep(t)
    BY <1>6, <2>1 DEF EvalStep, EvalAcquire, EvalReserve, EvalRefused, EvalJoin, EvalPublish,
                      EvalAwait, EvalFails, EvalUnwind, jobVars
  <2>2. CASE StreamStep(t)
    BY <1>6, <2>2 DEF StreamStep, StreamAdd, StreamEmit, EmitRow, Resume, StreamFails, jobVars
  <2>3. CASE Close(t) \/ Clear(t)
    BY <2>3 DEF Close, Clear, jobVars
  <2> QED  BY <1>6, <2>1, <2>2, <2>3 DEF ThreadStep
<1>7. ASSUME NEW c \in Claims, LateDrop(c) PROVE UNCHANGED jobs
  BY <1>7 DEF LateDrop, evalVars, jobVars
<1>8. CASE Interrupt \/ Over \/ UNCHANGED jevVars
  BY <1>0, <1>8 DEF Interrupt, Over, jevVars, evalVars, jobVars
<1> QED  BY <1>0, <1>1, <1>2, <1>3, <1>4, <1>5, <1>6, <1>7, <1>8 DEF JevNext

(***************************************************************************)
(* Flags and history.                                                      *)
(***************************************************************************)
LEMMA FactsNext == JevInv /\ [JevNext]_jevVars => FactsOK'
<1> SUFFICES ASSUME JevInv, [JevNext]_jevVars PROVE FactsOK'
  OBVIOUS
<1> FactsOK
  BY TypeParts DEF JevInv
<1> USE DEF FactsOK, facts, flags, jobVars
<1>0. MaxFaults \in Nat /\ (Fault => faults' \in 0 .. MaxFaults)
  BY JevAssumption DEF Fault
<1>1. ASSUME NEW t \in Threads, ThreadStep(t) PROVE FactsOK'
  <2>0. Slot(t) \in Slots /\ StreamOf(t) \in Slots /\ <<t, "eval">> \in Slots
    BY SlotType DEF Slots
  <2>1. CASE Begin(t)
    BY <2>0, <2>1 DEF Begin
  <2>2. CASE EvalAcquire(t) \/ StreamAdd(t)
    <3>1. InCall(t) /\ pos[t] <= Len(Cur(t).rows) /\ AcquireRow(t)
      BY <2>2 DEF EvalAcquire, StreamAdd, InCall
    <3>2. owners' \subseteq Claims
      BY <3>1, AcquireRowRows
    <3> QED  BY <2>2, <3>2 DEF EvalAcquire, StreamAdd
  <2>3. CASE EvalFails(t)
    BY <1>0, <2>3 DEF EvalFails
  <2>4. CASE StreamFails(t)
    BY <1>0, <2>4 DEF StreamFails
  <2>5. CASE EvalRefused(t)
    BY <2>0, <2>5 DEF EvalRefused
  <2>6. CASE \/ EvalReserve(t) \/ EvalSubmit(t) \/ EvalJoin(t) \/ EvalPublish(t)
             \/ EvalAwait(t) \/ EvalUnwind(t)
    BY <2>6 DEF EvalReserve, EvalSubmit, EvalJoin, EvalPublish, EvalAwait, EvalUnwind
  <2>7. CASE StreamEmit(t) \/ StreamFlush(t) \/ EmitRow(t) \/ EmitEnd(t) \/ Resume(t)
    BY <2>7 DEF StreamEmit, StreamFlush, EmitRow, EmitEnd, Resume
  <2>8. CASE Close(t) \/ Clear(t)
    BY <2>0, <2>8 DEF Close, Clear
  <2> QED  BY <1>1, <2>1, <2>2, <2>3, <2>4, <2>5, <2>6, <2>7, <2>8
           DEF ThreadStep, EvalStep, StreamStep
<1>2. ASSUME NEW s \in Slots, NEW i \in DOMAIN jobs[s], JobStep(s, i) PROVE FactsOK'
  <2>1. CASE JobStart(s, i) \/ JobComplete(s, i)
    BY <2>1 DEF JobStart, JobComplete
  <2>2. CASE JobAnswered(s, i)
    <3>1. jobs[s] \in Seq(GoodJob)
      BY DEF JevInv, JobsInv
    <3>2. jobs[s][i] \in GoodJob
      BY <3>1
    <3>3. jobs[s][i].refs \in Seq(Claims)
      BY <3>2 DEF GoodJob
    <3>4. ToSet(jobs[s][i].refs) \in SUBSET Claims
      BY <3>3, ToSetType
    <3> QED  BY <2>2, <3>4 DEF JobAnswered
  <2>3. CASE JobFails(s, i)
    BY <1>0, <2>3 DEF JobFails
  <2>4. CASE JobError(s, i)
    BY <2>4 DEF JobError
  <2> QED  BY <1>2, <2>1, <2>2, <2>3, <2>4 DEF JobStep
<1>3. CASE Interrupt
  BY <1>3 DEF Interrupt
<1>4. ASSUME NEW c \in Claims, LateDrop(c) PROVE FactsOK'
  BY <1>4 DEF LateDrop, evalVars
<1>5. CASE Over \/ UNCHANGED jevVars
  BY <1>5 DEF Over, jevVars, evalVars
<1> QED  BY <1>1, <1>2, <1>3, <1>4, <1>5 DEF JevNext

(***************************************************************************)
(* Packs: an acquired claim is never acquired again, so that what is       *)
(* appended to a pack is not in it yet.                                    *)
(***************************************************************************)
LEMMA BegunStays ==
  ASSUME TypeInv, Use \/ UNCHANGED vars, NEW c \in Claims, c \in Begun
  PROVE  c \in Begun'
<1> USE DEF Begun
<1>0. pc \in [Claims -> ClaimPc]
  BY DEF TypeInv, TypeOK
<1>1. CASE UNCHANGED vars
  BY <1>1 DEF vars
<1>2. ASSUME NEW S \in SUBSET Claims, Snapshot(S) PROVE c \in Begun'
  BY <1>2 DEF Snapshot
<1>3. ASSUME NEW d \in Claims, ClaimStep(d) PROVE c \in Begun'
  <2>1. CASE \E k \in Keys : Acquire(d, k)
    BY <1>0, <2>1 DEF Acquire, HitAnswer, HitSession, Join, Own, HoldReady
  <2>2. CASE OwnerStep(d)
    BY <1>0, <2>2 DEF OwnerStep, Store, SetValue, Abandon, Release
  <2>3. CASE Orphan(d) \/ AwaitFlight(d) \/ Leave(d)
    BY <1>0, <2>3 DEF Orphan, AwaitFlight, Leave
  <2> QED  BY <1>3, <2>1, <2>2, <2>3 DEF ClaimStep
<1>4. ASSUME NEW S \in SUBSET Claims, NEW n \in 1 .. Cardinality(S), Reserve(S, n) PROVE c \in Begun'
  BY <1>4 DEF Reserve
<1> QED  BY <1>1, <1>2, <1>3, <1>4 DEF Use

(* What a step does to a pack. *)
PackStep(s) ==
  \/ pack'[s] = pack[s]
  \/ pack'[s] = <<>>
  \/ \E c \in Claims : pc[c] = "ready" /\ c \in Begun' /\ pack'[s] = Append(pack[s], c)

LEMMA PackShape ==
  ASSUME JevInv, TypeInv, [JevNext]_jevVars, NEW s \in Slots
  PROVE  PackStep(s)
<1> USE DEF JevInv
<1>0. pack \in [Slots -> Seq(Claims)] /\ pc \in [Claims -> ClaimPc]
  BY DEF JevTypeOK, TypeInv, TypeOK
<1>1. ASSUME NEW t \in Threads, InCall(t), pos[t] <= Len(Cur(t).rows), AcquireRow(t)
      PROVE  PackStep(s)
  <2> DEFINE c == Cur(t).rows[pos[t]]
  <2>1. c \in Claims
    BY <1>1, AcquireRowUse
  <2>2. Acquire(c, RowKey[c]) /\ (pack' = pack \/ pack' = [pack EXCEPT ![Slot(t)] = Append(@, c)])
    BY <1>1 DEF AcquireRow
  <2> HIDE DEF c
  <2>3. pc[c] = "ready" /\ c \in Begun'
    BY <1>0, <2>1, <2>2 DEF Acquire, HitAnswer, HitSession, Join, Own, HoldReady, Begun
  <2>4. pack'[s] = pack[s] \/ pack'[s] = Append(pack[s], c)
    BY <1>0, <2>2
  <2> QED  BY <2>1, <2>3, <2>4 DEF PackStep
<1>2. ASSUME NEW t \in Threads, ThreadStep(t) PROVE PackStep(s)
  <2>1. CASE EvalAcquire(t) \/ StreamAdd(t)
    <3>1. InCall(t) /\ pos[t] <= Len(Cur(t).rows) /\ AcquireRow(t)
      BY <2>1 DEF EvalAcquire, StreamAdd, InCall
    <3> QED  BY <1>1, <3>1
  <2>2. CASE Begin(t)
    BY <1>0, <2>2 DEF Begin, PackStep
  <2>3. CASE StreamFlush(t) \/ StreamFails(t) \/ Clear(t)
    BY <1>0, <2>3 DEF StreamFlush, StreamFails, Clear, PackStep
  <2>4. CASE EvalStep(t) /\ ~EvalAcquire(t)
    BY <2>4 DEF EvalStep, EvalReserve, EvalSubmit, EvalRefused, EvalJoin, EvalPublish,
                EvalAwait, EvalFails, EvalUnwind, PackStep
  <2>5. CASE StreamEmit(t) \/ EmitRow(t) \/ EmitEnd(t) \/ Resume(t) \/ Close(t)
    BY <2>5 DEF StreamEmit, EmitRow, EmitEnd, Resume, Close, PackStep
  <2> QED  BY <1>2, <2>1, <2>2, <2>3, <2>4, <2>5 DEF ThreadStep, StreamStep
<1>3. ASSUME NEW q \in Slots, NEW i \in DOMAIN jobs[q], JobStep(q, i) PROVE PackStep(s)
  BY <1>3 DEF JobStep, JobStart, JobAnswered, JobComplete, JobFails, JobError, PackStep
<1>4. ASSUME NEW c \in Claims, LateDrop(c) PROVE PackStep(s)
  BY <1>4 DEF LateDrop, evalVars, PackStep
<1>5. CASE Interrupt \/ Over \/ UNCHANGED jevVars
  BY <1>5 DEF Interrupt, Over, jevVars, evalVars, PackStep
<1> QED  BY <1>2, <1>3, <1>4, <1>5 DEF JevNext

LEMMA PacksNext == JevInv /\ TypeInv /\ [JevNext]_jevVars => PacksInv'
<1> SUFFICES ASSUME JevInv, TypeInv, [JevNext]_jevVars, NEW s \in Slots
             PROVE  /\ \A i, j \in 1 .. Len(pack'[s]) : pack'[s][i] = pack'[s][j] => i = j
                    /\ \A i \in 1 .. Len(pack'[s]) : pack'[s][i] \in Begun'
  BY DEF PacksInv
<1>1. pack[s] \in Seq(Claims)
  BY DEF JevInv, JevTypeOK
<1>2. /\ \A i, j \in 1 .. Len(pack[s]) : pack[s][i] = pack[s][j] => i = j
      /\ \A i \in 1 .. Len(pack[s]) : pack[s][i] \in Begun
  BY DEF JevInv, PacksInv
<1>3. Use \/ UNCHANGED vars
  BY Uses
<1>4. \A i \in 1 .. Len(pack[s]) : pack[s][i] \in Begun'
  BY <1>1, <1>2, <1>3, BegunStays
<1>5. CASE pack'[s] = pack[s]
  BY <1>2, <1>4, <1>5
<1>6. CASE pack'[s] = <<>>
  BY <1>6
<1>7. ASSUME NEW c \in Claims, pc[c] = "ready", c \in Begun', pack'[s] = Append(pack[s], c)
      PROVE  /\ \A i, j \in 1 .. Len(pack'[s]) : pack'[s][i] = pack'[s][j] => i = j
             /\ \A i \in 1 .. Len(pack'[s]) : pack'[s][i] \in Begun'
  <2> DEFINE n == Len(pack[s])
  <2>1. /\ Len(pack'[s]) = n + 1 /\ n \in Nat
        /\ \A i \in 1 .. n : pack'[s][i] = pack[s][i]
        /\ pack'[s][n + 1] = c
    BY <1>1, <1>7, AppendProperties
  <2>2. \A i \in 1 .. n : pack[s][i] # c
    BY <1>2, <1>7 DEF Begun
  <2>3. \A i \in 1 .. n + 1 : i \in 1 .. n \/ i = n + 1
    BY <2>1
  <2> HIDE DEF n
  <2>4. \A i, j \in 1 .. n + 1 : pack'[s][i] = pack'[s][j] => i = j
    BY <1>2, <2>1, <2>2, <2>3 DEF n
  <2>5. \A i \in 1 .. n + 1 : pack'[s][i] \in Begun'
    BY <1>4, <1>7, <2>1, <2>3 DEF n
  <2> QED  BY <2>1, <2>4, <2>5
<1> QED  BY <1>5, <1>6, <1>7, PackShape DEF PackStep

-----------------------------------------------------------------------------
LEMMA JevInvInit == JevInit => JevInv
<1> SUFFICES ASSUME JevInit PROVE JevInv
  OBVIOUS
<1>1. <<>> \in Seq(Claims) /\ <<>> \in Seq(GoodJob) /\ Len(<<>>) = 0
  BY EmptySeq
<1>2. VectorSize \in Nat /\ MaxFaults \in Nat
  BY JevAssumption
<1>3. ControlOK
  BY <1>2 DEF JevInit, ControlOK, Phases
<1>4. RowsOK /\ JobsInv
  BY <1>1 DEF JevInit, RowsOK, JobsInv
<1>5. FactsOK
  <2>1. faults \in 0 .. MaxFaults
    BY <1>2 DEF JevInit
  <2>2. /\ stopped \in [Slots -> BOOLEAN] /\ error \in [Slots -> BOOLEAN]
        /\ interrupted \in BOOLEAN
    BY DEF JevInit
  <2> QED  BY <2>1, <2>2 DEF JevInit, FactsOK
<1>6. PacksInv
  <2>1. \A s \in Slots : pack[s] = <<>>
    BY DEF JevInit
  <2>2. \A s \in Slots : Len(pack[s]) = 0
    BY <2>1, <1>1
  <2> QED  BY <2>2 DEF PacksInv
<1> QED  BY <1>3, <1>4, <1>5, <1>6, TypeParts DEF JevInv

LEMMA JevInvNext == JevInv /\ TypeInv /\ [JevNext]_jevVars => (JevInv /\ TypeInv)'
<1> SUFFICES ASSUME JevInv, TypeInv, [JevNext]_jevVars PROVE (JevInv /\ TypeInv)'
  OBVIOUS
<1>1. (ControlOK /\ RowsOK /\ JobsInv /\ FactsOK)'
  BY ControlNext, RowsNext, JobsNext, FactsNext
<1>2. (JevTypeOK /\ JobsInv)'
  BY <1>1, GoodJobs DEF JevTypeOK, ControlOK, RowsOK, FactsOK, JobsInv
<1>3. PacksInv'
  BY PacksNext
<1>4. TypeInv'
  BY Uses, UseIsNext, TypeNext
<1> QED  BY <1>2, <1>3, <1>4 DEF JevInv

LEMMA JevInvariant == JevSpec => [](JevInv /\ TypeInv)
<1>1. JevInit => JevInv /\ TypeInv
  BY JevInvInit, TypeInvInit DEF JevInit
<1> QED  BY <1>1, JevInvNext, PTL DEF JevSpec

(* The type invariant of the evaluators' state. *)
THEOREM JevTypeCorrect == JevSpec => []JevTypeOK
<1>1. JevInv => JevTypeOK
  BY DEF JevInv
<1> QED  BY <1>1, JevInvariant, PTL

(***************************************************************************)
(* The evaluators of a query use their QueryState as QueryState specifies  *)
(* (FlightGuard, ~StreamRow, Complete's and Abandon's order): every query  *)
(* is a behaviour of QueryState, which therefore keeps what is proved of   *)
(* it, whatever the threads, chunks, batch sizes and failures.             *)
(***************************************************************************)
THEOREM JevImplementsQueryState == JevSpec => ImplementsQueryState
<1>1. JevInit => Init
  BY DEF JevInit
<1>2. JevInv /\ TypeInv /\ [JevNext]_jevVars => [Next]_vars
  BY Uses, UseIsNext
<1> QED  BY <1>1, <1>2, JevInvariant, PTL DEF JevSpec, ImplementsQueryState, Spec

(***************************************************************************)
(* The composition: scalar functions and jev_stream together ask no        *)
(* question twice while there is room, serve each row the answer to its    *)
(* own question and scope, and never one that had expired.                 *)
(***************************************************************************)
THEOREM QueriesShareAnswers == JevSpec => [](AskedOnce /\ ServedRight /\ NoExpiredAnswer)
  BY JevImplementsQueryState, OneRequestPerKey, Isolation, Freshness, PTL
     DEF ImplementsQueryState

-----------------------------------------------------------------------------
(***************************************************************************)
(* Only what was answered is published.                                    *)
(***************************************************************************)
EvalPhases   == {"acquire", "submit", "join", "publish", "await", "unwindjoin", "unwind"}
StreamPhases == {"add", "flushadd", "flushemit", "emit", "drain", "more"}

(* A thread in a phase of Evaluate is in a scalar call; the others stream. *)
OpInv == \A t \in Threads : /\ phase[t] \in EvalPhases => Cur(t).op = "eval"
                            /\ phase[t] \in StreamPhases => Cur(t).op # "eval"

EvalOf(t) == <<t, "eval">>

(* A chunk's jobs are its packs, in order; when they are joined without an   *)
(* error, every pack has one; what is published next has been answered.      *)
ChunkAt(t) ==
  LET s == EvalOf(t)
  IN  /\ phase[t] = "acquire" => Len(jobs[s]) = 0
      /\ phase[t] = "submit" => Len(jobs[s]) = pos[t] - 1
      /\ phase[t] = "join" => stopped[s] \/ Len(jobs[s]) >= Len(Packs(s))
      /\ phase[t] \in {"submit", "join"} =>
           \A i \in 1 .. Len(jobs[s]) : jobs[s][i].refs = Packs(s)[i]
      /\ phase[t] \in {"acquire", "submit", "join"} /\ stopped[s] =>
           error[s] \/ \E i \in 1 .. Len(jobs[s]) : jobs[s][i].state = "failing"
      /\ phase[t] = "publish" => ToSet(pack[s]) \subseteq answered

ChunkInv == \A t \in Threads : ChunkAt(t)

(* What the state of a job tells of its questions, when those in A have been *)
(* answered, the query is cancelled (cut) or not, and the slot stopped (off). *)
Says(s, job, A, cut, off) ==
  /\ job.state = "completing" => s[2] = "stream" /\ ToSet(job.refs) \subseteq A
  /\ s[2] = "eval" /\ job.state = "failing" => off
  /\ s[2] = "eval" /\ job.state = "done" => ToSet(job.refs) \subseteq A \/ cut \/ off

JobSaid(s, job) == Says(s, job, answered, interrupted, stopped[s])
WillSay(s, job) == Says(s, job, answered', interrupted', stopped'[s])

SaidInv == \A s \in Slots : \A i \in 1 .. Len(jobs[s]) : JobSaid(s, jobs[s][i])

(* A claim whose answer is on its way out. *)
Told(c) == pc[c] \in {"stored", "set"} \/ promise[c] \in Answer

ToldInv == owners \subseteq Begun /\ \A c \in owners : Told(c) => c \in answered

AnsweredInv == OpInv /\ ChunkInv /\ SaidInv /\ ToldInv

LEMMA EvalSlot ==
  ASSUME OpInv, NEW t \in Threads, phase[t] \in EvalPhases
  PROVE  Slot(t) = EvalOf(t) /\ EvalOf(t) \in Slots
  BY DEF OpInv, Slot, EvalOf, Slots

LEMMA StreamSlot ==
  ASSUME OpInv, NEW t \in Threads, phase[t] \in StreamPhases
  PROVE  Slot(t) = StreamOf(t) /\ StreamOf(t) \in Slots
  BY DEF OpInv, Slot, StreamOf, Slots

LEMMA OpMove ==
  ASSUME OpInv, ControlOK, NEW t \in Threads, NEW p, phase' = phase \/ Go(t, p), call' = call,
         p \in EvalPhases => phase[t] \in EvalPhases,
         p \in StreamPhases => phase[t] \in StreamPhases
  PROVE  OpInv'
  BY DEF OpInv, ControlOK, Go, Cur

LEMMA OpNext == JevInv /\ OpInv /\ [JevNext]_jevVars => OpInv'
<1> SUFFICES ASSUME JevInv, OpInv, [JevNext]_jevVars PROVE OpInv'
  OBVIOUS
<1> USE DEF EvalPhases, StreamPhases
<1>0. ControlOK
  BY TypeParts DEF JevInv
<1>1. ASSUME NEW t \in Threads, Begin(t) PROVE OpInv'
  <2> DEFINE op == Calls[t][call[t] + 1].op
  <2>1. /\ call' = [call EXCEPT ![t] = @ + 1] /\ Go(t, FirstPhase(op))
    BY <1>1 DEF Begin
  <2>2. call[t] + 1 \in DOMAIN Calls[t]
    BY <1>0, <1>1, JevAssumption DEF Begin, ControlOK
  <2>3. op \in Ops
    BY <2>2, CallType
  <2>4. Cur(t)'.op = op
    BY <1>0, <2>1 DEF Cur, ControlOK
  <2>5. ASSUME NEW u \in Threads, u # t PROVE Cur(u)' = Cur(u) /\ phase'[u] = phase[u]
    BY <1>0, <2>1, <2>5 DEF Cur, Go, ControlOK
  <2> HIDE DEF op
  <2>6. /\ phase'[t] \in EvalPhases => op = "eval"
        /\ phase'[t] \in StreamPhases => op # "eval"
    BY <1>0, <2>1, <2>3 DEF Go, FirstPhase, BeforeEmit, Ops, ControlOK
  <2> QED  BY <2>4, <2>5, <2>6 DEF OpInv
<1>2. ASSUME NEW t \in Threads, EvalStep(t) PROVE OpInv'
  BY <1>0, <1>2, OpMove
     DEF EvalStep, EvalAcquire, EvalReserve, EvalSubmit, EvalRefused, EvalJoin, EvalPublish,
         EvalAwait, EvalFails, EvalUnwind, After
<1>3. ASSUME NEW t \in Threads, StreamStep(t) PROVE OpInv'
  <2>1. CASE Resume(t)
    <3>1. Cur(t).op # "eval" /\ Cur(t).op \in Ops
      BY <1>0, <2>1, CurType DEF OpInv, Resume, JevInv, InCall
    <3>2. FirstPhase(Cur(t).op) \in StreamPhases
      BY <3>1 DEF FirstPhase, BeforeEmit, Ops
    <3> QED  BY <1>0, <2>1, <3>2, OpMove DEF Resume
  <2>2. CASE ~Resume(t)
    BY <1>0, <1>3, <2>2, OpMove
       DEF StreamStep, StreamAdd, StreamEmit, StreamFlush, AfterFlush, EmitRow, EmitEnd, StreamFails,
           BeforeEmit
  <2> QED  BY <2>1, <2>2
<1>4. ASSUME NEW t \in Threads, Close(t) \/ Clear(t) PROVE OpInv'
  BY <1>0, <1>4, OpMove DEF Close, Clear
<1>5. ASSUME UNCHANGED <<phase, call>> PROVE OpInv'
  BY <1>5 DEF OpInv, Cur
<1>6. ASSUME NEW s \in Slots, NEW i \in DOMAIN jobs[s], JobStep(s, i) PROVE OpInv'
  BY <1>5, <1>6
     DEF JobStep, JobStart, JobAnswered, JobComplete, JobFails, JobError, control
<1>7. ASSUME NEW c \in Claims, LateDrop(c) PROVE OpInv'
  BY <1>5, <1>7 DEF LateDrop, evalVars, control
<1>8. CASE Interrupt \/ Over \/ UNCHANGED jevVars
  BY <1>5, <1>8 DEF Interrupt, Over, jevVars, evalVars, control
<1> QED  BY <1>1, <1>2, <1>3, <1>4, <1>6, <1>7, <1>8 DEF JevNext, ThreadStep

(***************************************************************************)
(* Publishing.                                                             *)
(***************************************************************************)
(* Nothing but Store begins to publish, and it does so in Complete only.   *)
Storing(c) == pc[c] = "sent" /\ pc'[c] = "stored"

LEMMA ToldStep ==
  ASSUME TypeInv, Use \/ UNCHANGED vars, NEW c \in Claims, c \in Begun, Told(c)', ~Storing(c)
  PROVE  Told(c)
<1>0. /\ pc \in [Claims -> ClaimPc] /\ promise \in [Claims -> Answer \cup {None, Open, Broken}]
      /\ Open \notin Answer /\ Broken \notin Answer
  BY NoneAssumption DEF TypeInv, TypeOK
<1> USE DEF Told
<1>1. CASE UNCHANGED vars
  BY <1>1 DEF vars, claimVars
<1>2. ASSUME NEW S \in SUBSET Claims, Snapshot(S) PROVE Told(c)
  BY <1>0, <1>2 DEF Snapshot
<1>3. ASSUME NEW S \in SUBSET Claims, NEW n \in 1 .. Cardinality(S), Reserve(S, n) PROVE Told(c)
  BY <1>0, <1>3 DEF Reserve, claimVars
<1>4. ASSUME NEW d \in Claims, ClaimStep(d) PROVE Told(c)
  <2>1. CASE \E k \in Keys : Acquire(d, k)
    <3>1. d # c
      BY <2>1 DEF Acquire, Begun
    <3> QED  BY <1>0, <2>1, <3>1 DEF Acquire, HitAnswer, HitSession, Join, Own, HoldReady
  <2>2. CASE Store(d)
    BY <1>0, <2>2 DEF Store, Storing
  <2>3. CASE SetValue(d)
    BY <1>0, <2>3 DEF SetValue
  <2>4. CASE Abandon(d)
    BY <1>0, <2>4 DEF Abandon, BreakPromise
  <2>5. CASE Release(d)
    BY <1>0, <2>5 DEF Release, claimVars
  <2>6. CASE Orphan(d) \/ AwaitFlight(d) \/ Leave(d)
    BY <1>0, <2>6 DEF Orphan, AwaitFlight, Leave, claimVars
  <2> QED  BY <1>4, <2>1, <2>2, <2>3, <2>4, <2>5, <2>6 DEF ClaimStep, OwnerStep
<1> QED  BY <1>1, <1>2, <1>3, <1>4 DEF Use

LEMMA QuietDrop ==
  ASSUME TypeInv, JevTypeOK, NEW s \in Slots, DropRow(s), NEW c \in Claims PROVE ~Storing(c)
<1>1. pc \in [Claims -> ClaimPc] /\ Head(rows[s]) \in Claims
  BY HeadTailProperties DEF TypeInv, TypeOK, JevTypeOK, DropRow
<1> QED
  BY <1>1 DEF DropRow, Abandon, Release, Leave, Orphan, Storing, vars

LEMMA QuietAcquire ==
  ASSUME TypeInv, JevTypeOK, NEW t \in Threads, AcquireRow(t), NEW c \in Claims PROVE ~Storing(c)
  BY DEF AcquireRow, Acquire, HitAnswer, HitSession, Join, Own, HoldReady, Storing, TypeInv, TypeOK

LEMMA StoringIsCompleting ==
  ASSUME JevInv, TypeInv, [JevNext]_jevVars, NEW c \in Claims, Storing(c)
  PROVE  \/ \E t \in Threads : /\ EvalPublish(t) /\ pos[t] <= Len(pack[Slot(t)])
                               /\ c = pack[Slot(t)][pos[t]]
         \/ \E s \in Slots : \E i \in DOMAIN jobs[s] :
              JobComplete(s, i) /\ c = jobs[s][i].refs[jobs[s][i].next]
<1>0. pc \in [Claims -> ClaimPc] /\ JevTypeOK
  BY DEF TypeInv, TypeOK, JevInv
<1> USE DEF Storing
<1>1. pc' # pc /\ ~UNCHANGED vars
  BY DEF vars
<1>2. ASSUME NEW d, CompleteStep(d) PROVE c = d
  BY <1>0, <1>2 DEF CompleteStep, Store, SetValue, Release
<1>3. ASSUME NEW t \in Threads, ThreadStep(t)
      PROVE  EvalPublish(t) /\ pos[t] <= Len(pack[Slot(t)]) /\ c = pack[Slot(t)][pos[t]]
  <2>1. ~Begin(t)
    BY <1>0, <1>1 DEF Begin, Snapshot
  <2>2. ~EvalAcquire(t) /\ ~StreamAdd(t)
    BY <1>0, QuietAcquire DEF EvalAcquire, StreamAdd
  <2>3. ~EvalUnwind(t) /\ ~Clear(t)
    BY <1>0, <1>1, QuietDrop, SlotType DEF EvalUnwind, Clear
  <2>4. ~EvalReserve(t) /\ ~StreamFlush(t) /\ ~StreamFails(t)
    BY <1>0, <1>1 DEF EvalReserve, StreamFlush, StreamFails, Reserve
  <2>5. ~EvalAwait(t) /\ ~EmitRow(t)
    BY <1>0, <1>1 DEF EvalAwait, EmitRow, AwaitFlight
  <2>6. ~EvalSubmit(t) /\ ~EvalRefused(t) /\ ~EvalJoin(t) /\ ~EvalFails(t)
    BY <1>1 DEF EvalSubmit, EvalRefused, EvalJoin, EvalFails
  <2>7. ~StreamEmit(t) /\ ~EmitEnd(t) /\ ~Resume(t) /\ ~Close(t)
    BY <1>1 DEF StreamEmit, EmitEnd, Resume, Close
  <2>8. EvalPublish(t)
    BY <1>3, <2>1, <2>2, <2>3, <2>4, <2>5, <2>6, <2>7 DEF ThreadStep, EvalStep, StreamStep
  <2> QED  BY <1>1, <1>2, <2>8 DEF EvalPublish
<1>4. ASSUME NEW s \in Slots, NEW i \in DOMAIN jobs[s], JobStep(s, i)
      PROVE  JobComplete(s, i) /\ c = jobs[s][i].refs[jobs[s][i].next]
  <2>1. ~JobStart(s, i) /\ ~JobAnswered(s, i) /\ ~JobFails(s, i) /\ ~JobError(s, i)
    BY <1>1 DEF JobStart, JobAnswered, JobFails, JobError
  <2>2. JobComplete(s, i)
    BY <1>4, <2>1 DEF JobStep
  <2> QED  BY <1>2, <2>2 DEF JobComplete
<1>5. ASSUME NEW d \in Claims, LateDrop(d) PROVE FALSE
  BY <1>0, <1>5 DEF LateDrop, Abandon, Release
<1>6. ~Interrupt /\ ~Over /\ ~UNCHANGED jevVars
  BY <1>1 DEF Interrupt, Over, jevVars
<1> QED  BY <1>3, <1>4, <1>5, <1>6 DEF JevNext

(* History only grows, and an owner has acquired its row. *)
LEMMA HistoryGrows ==
  ASSUME JevInv, TypeInv, [JevNext]_jevVars
  PROVE  /\ answered \subseteq answered' /\ (interrupted => interrupted')
         /\ \A c \in owners' \ owners : c \in Begun' /\ ~Told(c)'
<1>0. pc \in [Claims -> ClaimPc] /\ promise \in [Claims -> Answer \cup {None, Open, Broken}]
      /\ Open \notin Answer /\ JevTypeOK
  BY NoneAssumption DEF TypeInv, TypeOK, JevInv
<1> DEFINE Goal == /\ answered \subseteq answered' /\ (interrupted => interrupted')
                   /\ \A c \in owners' \ owners : c \in Begun' /\ ~Told(c)'
<1>1. ASSUME answered \subseteq answered', interrupted => interrupted', owners' = owners PROVE Goal
  BY <1>1
<1>2. ASSUME NEW t \in Threads, ThreadStep(t) PROVE Goal
  <2>1. CASE EvalAcquire(t) \/ StreamAdd(t)
    <3>1. InCall(t) /\ pos[t] <= Len(Cur(t).rows) /\ AcquireRow(t) /\ UNCHANGED <<answered, interrupted>>
      BY <2>1 DEF EvalAcquire, StreamAdd, InCall
    <3> DEFINE c == Cur(t).rows[pos[t]]
    <3>2. c \in Claims
      BY <1>0, <3>1, AcquireRowUse
    <3>3. /\ Acquire(c, RowKey[c])
          /\ owners' = owners \/ (promise'[c] = Open /\ owners' = owners \cup {c})
      BY <3>1 DEF AcquireRow
    <3> HIDE DEF c
    <3>4. pc'[c] \in {"waiting", "owner"}
      BY <1>0, <3>2, <3>3 DEF Acquire, HitAnswer, HitSession, Join, Own, HoldReady
    <3> QED  BY <1>0, <3>1, <3>2, <3>3, <3>4 DEF Told, Begun
  <2>2. CASE Begin(t)
    BY <2>2 DEF Begin, facts
  <2>3. CASE EvalStep(t) /\ ~EvalAcquire(t)
    BY <2>3 DEF EvalStep, EvalReserve, EvalSubmit, EvalRefused, EvalJoin, EvalPublish,
                EvalAwait, EvalFails, EvalUnwind, facts
  <2>4. CASE StreamStep(t) /\ ~StreamAdd(t)
    BY <2>4 DEF StreamStep, StreamEmit, StreamFlush, EmitRow, EmitEnd, Resume, StreamFails, facts
  <2>5. CASE Close(t) \/ Clear(t)
    BY <2>5 DEF Close, Clear, facts
  <2> QED  BY <1>2, <2>1, <2>2, <2>3, <2>4, <2>5 DEF ThreadStep
<1>3. ASSUME NEW s \in Slots, NEW i \in DOMAIN jobs[s], JobStep(s, i) PROVE Goal
  BY <1>3 DEF JobStep, JobStart, JobAnswered, JobComplete, JobFails, JobError, facts
<1>4. ASSUME NEW c \in Claims, LateDrop(c) PROVE Goal
  BY <1>4 DEF LateDrop, evalVars, facts
<1>5. CASE Interrupt \/ Over \/ UNCHANGED jevVars
  BY <1>5 DEF Interrupt, Over, jevVars, evalVars, facts
<1> QED  BY <1>2, <1>3, <1>4, <1>5 DEF JevNext

LEMMA ToldNext == JevInv /\ TypeInv /\ AnsweredInv /\ [JevNext]_jevVars => ToldInv'
<1> SUFFICES ASSUME JevInv, TypeInv, AnsweredInv, [JevNext]_jevVars PROVE ToldInv'
  OBVIOUS
<1>1. owners \subseteq Claims /\ owners \subseteq Begun /\ \A c \in owners : Told(c) => c \in answered
  BY DEF JevInv, JevTypeOK, AnsweredInv, ToldInv
<1>2. Use \/ UNCHANGED vars
  BY Uses
<1>3. \A c \in owners : c \in Begun'
  BY <1>1, <1>2, BegunStays
<1>4. ASSUME NEW c \in Claims, Storing(c) PROVE c \in answered
  <2>1. ASSUME NEW t \in Threads, EvalPublish(t), pos[t] <= Len(pack[Slot(t)]),
               c = pack[Slot(t)][pos[t]]
        PROVE  c \in answered
    <3>1. phase[t] = "publish" /\ phase[t] \in EvalPhases
      BY <2>1 DEF EvalPublish, EvalPhases
    <3>2. Slot(t) = EvalOf(t) /\ EvalOf(t) \in Slots
      BY <3>1, EvalSlot DEF AnsweredInv
    <3>3. ToSet(pack[EvalOf(t)]) \subseteq answered
      BY <3>1 DEF AnsweredInv, ChunkInv, ChunkAt
    <3>4. pos[t] \in Nat \ {0} /\ pack[EvalOf(t)] \in Seq(Claims)
      BY <3>2 DEF JevInv, JevTypeOK
    <3> QED  BY <2>1, <3>2, <3>3, <3>4 DEF ToSet
  <2>2. ASSUME NEW s \in Slots, NEW i \in DOMAIN jobs[s], JobComplete(s, i),
               c = jobs[s][i].refs[jobs[s][i].next]
        PROVE  c \in answered
    <3>1. jobs[s] \in Seq(GoodJob)
      BY DEF JevInv, JobsInv
    <3>2. jobs[s][i] \in GoodJob /\ i \in 1 .. Len(jobs[s])
      BY <3>1
    <3>3. ToSet(jobs[s][i].refs) \subseteq answered
      BY <2>2, <3>2 DEF AnsweredInv, SaidInv, JobSaid, Says, JobComplete
    <3>4. jobs[s][i].next \in DOMAIN jobs[s][i].refs
      BY <3>2 DEF GoodJob
    <3> QED  BY <2>2, <3>3, <3>4 DEF ToSet
  <2> QED  BY <1>4, <2>1, <2>2, StoringIsCompleting
<1>5. ASSUME NEW c \in owners, Told(c)' PROVE c \in answered'
  <2>1. Told(c) \/ Storing(c)
    BY <1>1, <1>2, <1>5, ToldStep
  <2>2. c \in answered
    BY <1>1, <1>4, <2>1
  <2> QED  BY <2>2, HistoryGrows
<1> QED  BY <1>3, <1>5, HistoryGrows DEF ToldInv

(***************************************************************************)
(* Jobs.                                                                   *)
(***************************************************************************)
(* A step that changes one job only. *)
OneJob(s, i, job) ==
  /\ \A q \in Slots : Len(jobs'[q]) = Len(jobs[q])
  /\ \A q \in Slots : \A k \in 1 .. Len(jobs[q]) :
       IF q = s /\ k = i THEN jobs'[q][k] = job ELSE jobs'[q][k] = jobs[q][k]

LEMMA PutIsOne ==
  ASSUME JobsInv, NEW s \in Slots, NEW i \in DOMAIN jobs[s], NEW job, PutJob(s, i, job)
  PROVE  OneJob(s, i, job)
<1>1. jobs[s] \in Seq(GoodJob) /\ i \in 1 .. Len(jobs[s])
  BY DEF JobsInv
<1>2. jobs' = [jobs EXCEPT ![s] = [jobs[s] EXCEPT ![i] = job]]
  BY DEF PutJob, ReplaceAt
<1>3. Len(jobs'[s]) = Len(jobs[s]) /\ \A k \in 1 .. Len(jobs[s]) :
        jobs'[s][k] = IF k = i THEN job ELSE jobs[s][k]
  BY <1>1, <1>2 DEF JobsInv
<1>4. \A q \in Slots : q # s => jobs'[q] = jobs[q]
  BY <1>2 DEF JobsInv
<1> QED  BY <1>3, <1>4 DEF OneJob

LEMMA SetIsOne ==
  ASSUME JobsInv, NEW s \in Slots, NEW i \in DOMAIN jobs[s], NEW state, SetJob(s, i, state)
  PROVE  OneJob(s, i, [jobs[s][i] EXCEPT !.state = state])
  BY PutIsOne DEF SetJob

(* What is said of a job stays true. *)
LEMMA SaidStays ==
  ASSUME NEW s \in Slots, NEW job, JobSaid(s, job), answered \subseteq answered',
         interrupted => interrupted', stopped[s] => stopped'[s]
  PROVE  WillSay(s, job)
  BY DEF JobSaid, WillSay, Says

LEMMA SaidOfJobs ==
  ASSUME SaidInv, JobsInv, answered \subseteq answered', interrupted => interrupted',
         \A s \in Slots : stopped[s] => stopped'[s] \/ Len(jobs'[s]) = 0,
         \A s \in Slots : \A k \in 1 .. Len(jobs'[s]) :
            \/ jobs'[s][k].state = "queued"
            \/ \E n \in 1 .. Len(jobs[s]) : jobs'[s][k] = jobs[s][n]
  PROVE  SaidInv'
<1> SUFFICES ASSUME NEW s \in Slots, NEW k \in 1 .. Len(jobs'[s]) PROVE WillSay(s, jobs'[s][k])
  BY DEF SaidInv, JobSaid, WillSay
<1>1. CASE jobs'[s][k].state = "queued"
  BY <1>1 DEF WillSay, Says
<1>2. ASSUME NEW n \in 1 .. Len(jobs[s]), jobs'[s][k] = jobs[s][n] PROVE WillSay(s, jobs'[s][k])
  <2>1. stopped[s] => stopped'[s]
    OBVIOUS
  <2>2. JobSaid(s, jobs[s][n])
    BY DEF SaidInv
  <2> QED  BY <1>2, <2>1, <2>2, SaidStays
<1> QED  BY <1>1, <1>2

(* Reap keeps the jobs after the first ones. *)
LEMMA ReapedFrom ==
  ASSUME JobsInv, NEW s \in Slots
  PROVE  /\ Reaped(s) \in Seq(GoodJob)
         /\ \A k \in 1 .. Len(Reaped(s)) : \E n \in 1 .. Len(jobs[s]) : Reaped(s)[k] = jobs[s][n]
<1>1. jobs[s] \in Seq(GoodJob)
  BY DEF JobsInv
<1> DEFINE ready == { n \in DOMAIN jobs[s] : \A i \in 1 .. n : jobs[s][i].state = "done" }
           m == Len(jobs[s])
           n == Cardinality(ready)
<1>2. m \in Nat /\ ready \in SUBSET (1 .. m)
  BY <1>1
<1>3. n \in Nat
  <2> HIDE DEF ready, m
  <2>1. IsFiniteSet(1 .. m)
    BY <1>2, FS_Interval
  <2> QED  BY <1>2, <2>1, FS_Subset, FS_CardinalityType
<1>4. Reaped(s) = SubSeq(jobs[s], n + 1, m)
  BY DEF Reaped
<1> HIDE DEF n, m
<1>5. \A i \in n + 1 .. m : jobs[s][i] \in GoodJob
  BY <1>1, <1>3 DEF m
<1>6. /\ SubSeq(jobs[s], n + 1, m) \in Seq(GoodJob)
      /\ \A k \in 1 .. Len(SubSeq(jobs[s], n + 1, m)) :
           n + k \in 1 .. m /\ SubSeq(jobs[s], n + 1, m)[k] = jobs[s][n + k]
  BY <1>2, <1>3, <1>5, SubSeqProperties
<1> QED  BY <1>4, <1>6 DEF m

LEMMA SaidNext == JevInv /\ TypeInv /\ AnsweredInv /\ [JevNext]_jevVars => SaidInv'
<1> SUFFICES ASSUME JevInv, TypeInv, AnsweredInv, [JevNext]_jevVars PROVE SaidInv'
  OBVIOUS
<1>0. /\ JobsInv /\ SaidInv /\ stopped \in [Slots -> BOOLEAN]
      /\ answered \subseteq answered' /\ (interrupted => interrupted')
  BY HistoryGrows DEF JevInv, JevTypeOK, AnsweredInv
<1>1. \A s \in Slots : jobs[s] \in Seq(GoodJob)
  BY <1>0 DEF JobsInv
<1>2. ASSUME UNCHANGED jobs, \A s \in Slots : stopped[s] => stopped'[s] PROVE SaidInv'
  <2>1. \A s \in Slots : \A k \in 1 .. Len(jobs'[s]) :
            \E n \in 1 .. Len(jobs[s]) : jobs'[s][k] = jobs[s][n]
    BY <1>2
  <2> QED  BY <1>0, <1>2, <2>1, SaidOfJobs
<1>3. ASSUME NEW s \in Slots, NEW q \in Seq(GoodJob), jobs' = [jobs EXCEPT ![s] = q],
             \A p \in Slots : stopped[p] => stopped'[p] \/ Len(jobs'[p]) = 0,
             \A k \in 1 .. Len(q) : \/ q[k].state = "queued"
                                    \/ \E n \in 1 .. Len(jobs[s]) : q[k] = jobs[s][n]
      PROVE  SaidInv'
  <2>1. \A p \in Slots : \A k \in 1 .. Len(jobs'[p]) :
            \/ jobs'[p][k].state = "queued"
            \/ \E n \in 1 .. Len(jobs[p]) : jobs'[p][k] = jobs[p][n]
    BY <1>0, <1>3 DEF JobsInv
  <2> QED  BY <1>0, <1>3, <2>1, SaidOfJobs
<1>4. ASSUME NEW s \in Slots, NEW q \in Seq(GoodJob), NEW refs \in Seq(Claims) \ {<<>>},
             jobs' = [jobs EXCEPT ![s] = Append(q, NewJob(refs))], UNCHANGED stopped,
             \A k \in 1 .. Len(q) : \E n \in 1 .. Len(jobs[s]) : q[k] = jobs[s][n]
      PROVE  SaidInv'
  <2> DEFINE r == Append(q, NewJob(refs))
  <2>1. /\ r \in Seq(GoodJob) /\ Len(r) = Len(q) + 1 /\ Len(q) \in Nat
        /\ \A k \in 1 .. Len(q) : r[k] = q[k]
        /\ r[Len(q) + 1] = NewJob(refs)
    BY <1>4, NewJobType, AppendProperties
  <2>2. NewJob(refs).state = "queued"
    BY DEF NewJob
  <2>3. jobs' = [jobs EXCEPT ![s] = r]
    BY <1>4
  <2> HIDE DEF r
  <2>4. ASSUME NEW k \in 1 .. Len(r)
        PROVE  r[k].state = "queued" \/ \E n \in 1 .. Len(jobs[s]) : r[k] = jobs[s][n]
    <3>1. k \in 1 .. Len(q) \/ k = Len(q) + 1
      BY <2>1
    <3> QED  BY <1>4, <2>1, <2>2, <3>1
  <2> QED  BY <1>3, <1>4, <2>1, <2>3, <2>4
<1>5. ASSUME NEW t \in Threads, Begin(t) PROVE SaidInv'
  <2> DEFINE s == EvalOf(t)
  <2>1. \/ UNCHANGED <<jobs, stopped>>
        \/ jobs' = [jobs EXCEPT ![s] = <<>>] /\ stopped' = [stopped EXCEPT ![s] = FALSE]
    BY <1>5 DEF Begin, jobVars, flags, EvalOf
  <2>2. s \in Slots /\ <<>> \in Seq(GoodJob) /\ Len(<<>>) = 0
    BY EmptySeq DEF EvalOf, Slots
  <2> HIDE DEF s
  <2>3. CASE jobs' = [jobs EXCEPT ![s] = <<>>] /\ stopped' = [stopped EXCEPT ![s] = FALSE]
    <3>1. \A p \in Slots : stopped[p] => stopped'[p] \/ Len(jobs'[p]) = 0
      BY <1>0, <2>2, <2>3 DEF JobsInv
    <3>2. \A k \in 1 .. Len(<<>>) : FALSE
      BY <2>2
    <3> QED  BY <1>3, <2>2, <2>3, <3>1, <3>2
  <2> QED  BY <1>2, <2>1, <2>3
<1>6. ASSUME NEW t \in Threads, EvalSubmit(t) PROVE SaidInv'
  <2> DEFINE s == Slot(t)
  <2>0. s \in Slots /\ pos[t] \in Nat \ {0} /\ stopped' = stopped
    BY <1>6, SlotType DEF JevInv, JevTypeOK, EvalSubmit, flags
  <2>1. CASE jobs' = jobs
    BY <1>2, <2>0, <2>1
  <2>2. CASE /\ pos[t] <= Len(Packs(s))
             /\ jobs' = [jobs EXCEPT ![s] = Append(@, NewJob(Packs(s)[pos[t]]))]
    <3>1. pack[s] # <<>>
      BY <2>0, <2>2, NoPacks
    <3>2. Packs(s)[pos[t]] \in Seq(Claims) \ {<<>>}
      <4> DEFINE R == Seq(Claims) \ {<<>>}
      <4>1. Packs(s) \in Seq(R)
        BY <2>0, <3>1, PacksType
      <4> HIDE DEF R, s
      <4>2. Packs(s)[pos[t]] \in R
        BY <2>0, <2>2, <4>1
      <4> QED  BY <4>2 DEF R
    <3> QED  BY <1>1, <1>4, <2>0, <2>2, <3>2
  <2> QED  BY <1>6, <2>1, <2>2 DEF EvalSubmit
<1>7. ASSUME NEW t \in Threads, StreamFlush(t) \/ EmitEnd(t) PROVE SaidInv'
  <2> DEFINE s == Slot(t)
  <2>0. s \in Slots /\ pack[s] \in Seq(Claims) /\ stopped' = stopped
    BY <1>7, SlotType DEF JevInv, JevTypeOK, StreamFlush, EmitEnd, flags
  <2>1. \/ jobs' = jobs
        \/ jobs' = [jobs EXCEPT ![s] = Reaped(s)]
        \/ pack[s] # <<>> /\ jobs' = [jobs EXCEPT ![s] = Append(Reaped(s), NewJob(pack[s]))]
    BY <1>7 DEF StreamFlush, EmitEnd
  <2> HIDE DEF s
  <2>2. /\ Reaped(s) \in Seq(GoodJob)
        /\ \A k \in 1 .. Len(Reaped(s)) : \E n \in 1 .. Len(jobs[s]) : Reaped(s)[k] = jobs[s][n]
    BY <1>0, <2>0, ReapedFrom
  <2>3. CASE jobs' = jobs
    BY <1>2, <2>0, <2>3
  <2>4. CASE jobs' = [jobs EXCEPT ![s] = Reaped(s)]
    BY <1>3, <2>0, <2>2, <2>4
  <2>5. CASE pack[s] # <<>> /\ jobs' = [jobs EXCEPT ![s] = Append(Reaped(s), NewJob(pack[s]))]
    <3>1. pack[s] \in Seq(Claims) \ {<<>>}
      BY <2>0, <2>5
    <3> QED  BY <1>4, <2>0, <2>2, <2>5, <3>1
  <2> QED  BY <2>1, <2>3, <2>4, <2>5
<1>8. ASSUME NEW s \in Slots, NEW i \in DOMAIN jobs[s], NEW job, OneJob(s, i, job),
             WillSay(s, job), \A p \in Slots : stopped[p] => stopped'[p]
      PROVE  SaidInv'
  <2> SUFFICES ASSUME NEW p \in Slots, NEW k \in 1 .. Len(jobs'[p]) PROVE WillSay(p, jobs'[p][k])
    BY DEF SaidInv, JobSaid, WillSay
  <2>1. k \in 1 .. Len(jobs[p])
    BY <1>8 DEF OneJob
  <2>2. CASE p = s /\ k = i
    BY <1>8, <2>1, <2>2 DEF OneJob
  <2>3. CASE ~(p = s /\ k = i)
    <3>1. jobs'[p][k] = jobs[p][k] /\ JobSaid(p, jobs[p][k])
      BY <1>0, <1>8, <2>1, <2>3 DEF OneJob, SaidInv
    <3> QED  BY <1>0, <1>8, <3>1, SaidStays
  <2> QED  BY <2>2, <2>3
<1>9. ASSUME NEW s \in Slots, NEW i \in DOMAIN jobs[s], JobStep(s, i) PROVE SaidInv'
  <2> DEFINE job == jobs[s][i]
             Became(state) == [job EXCEPT !.state = state]
  <2>0. job \in GoodJob /\ i \in 1 .. Len(jobs[s]) /\ s[2] \in {"eval", "stream"}
    BY <1>1 DEF Slots
  <2>1. JobSaid(s, job)
    BY <1>0, <2>0 DEF SaidInv
  <2>2. \A state : SetJob(s, i, state) => OneJob(s, i, Became(state))
    BY <1>0, SetIsOne
  <2>3. \A state : Became(state).refs = job.refs /\ Became(state).state = state
    BY <2>0 DEF GoodJob
  <2> HIDE DEF job, Became
  <2>4. CASE JobStart(s, i)
    <3>1. stopped' = stopped
      BY <2>4 DEF JobStart, flags
    <3>2. CASE (stopped[s] \/ (s[2] = "eval" /\ interrupted)) /\ SetJob(s, i, "done")
      <4>1. WillSay(s, Became("done"))
        BY <1>0, <2>3, <3>1, <3>2 DEF JobSaid, WillSay, Says
      <4> QED  BY <1>8, <2>2, <3>1, <3>2, <4>1
    <3>3. CASE SetJob(s, i, "calling")
      <4>1. WillSay(s, Became("calling"))
        BY <2>3 DEF JobSaid, WillSay, Says
      <4> QED  BY <1>8, <2>2, <3>1, <3>3, <4>1
    <3> QED  BY <2>4, <3>2, <3>3 DEF JobStart
  <2>5. CASE JobAnswered(s, i)
    <3> DEFINE state == IF s[2] = "eval" THEN "done" ELSE "completing"
    <3>1. stopped' = stopped /\ SetJob(s, i, state) /\ answered' = answered \cup ToSet(job.refs)
      BY <2>5 DEF JobAnswered, flags, job
    <3>2. WillSay(s, Became(state))
      BY <2>0, <2>3, <3>1 DEF JobSaid, WillSay, Says
    <3> HIDE DEF state
    <3> QED  BY <1>8, <2>2, <3>1, <3>2
  <2>6. CASE JobComplete(s, i)
    <3> DEFINE later == [job EXCEPT !.next = @ + 1]
    <3>1. stopped' = stopped /\ job.state = "completing"
      BY <2>6 DEF JobComplete, flags, job
    <3>2. UNCHANGED jobs \/ SetJob(s, i, "done") \/ PutJob(s, i, later)
      BY <2>6 DEF JobComplete, job
    <3>3. s[2] # "eval" /\ s[2] = "stream"
      BY <2>1, <3>1 DEF JobSaid, WillSay, Says
    <3>4. later.state = "completing" /\ later.refs = job.refs
      BY <2>0, <3>1 DEF GoodJob
    <3> HIDE DEF later
    <3>5. WillSay(s, Became("done")) /\ WillSay(s, later)
      BY <1>0, <2>1, <2>3, <3>1, <3>3, <3>4 DEF JobSaid, WillSay, Says
    <3>6. CASE PutJob(s, i, later)
      BY <1>0, <1>8, <3>1, <3>5, <3>6, PutIsOne
    <3> QED  BY <1>2, <1>8, <2>2, <3>1, <3>2, <3>5, <3>6
  <2>7. CASE JobFails(s, i)
    <3>1. SetJob(s, i, "failing") /\ stopped' = [stopped EXCEPT ![s] = TRUE]
      BY <2>7 DEF JobFails
    <3>2. WillSay(s, Became("failing")) /\ \A p \in Slots : stopped[p] => stopped'[p]
      BY <1>0, <2>3, <3>1 DEF JobSaid, WillSay, Says
    <3> QED  BY <1>8, <2>2, <3>1, <3>2
  <2>8. CASE JobError(s, i)
    <3>1. SetJob(s, i, "done") /\ stopped' = stopped /\ job.state = "failing"
      BY <2>8 DEF JobError, job
    <3>2. WillSay(s, Became("done"))
      BY <2>1, <2>3, <3>1 DEF JobSaid, WillSay, Says
    <3> QED  BY <1>8, <2>2, <3>1, <3>2
  <2> QED  BY <1>9, <2>4, <2>5, <2>6, <2>7, <2>8 DEF JobStep
<1>10. ASSUME NEW t \in Threads, ThreadStep(t), ~Begin(t), ~EvalSubmit(t), ~StreamFlush(t), ~EmitEnd(t)
      PROVE  SaidInv'
  <2>1. CASE EvalStep(t)
    BY <1>0, <1>2, <1>10, <2>1, SlotType
       DEF EvalStep, EvalAcquire, EvalReserve, EvalRefused, EvalJoin, EvalPublish,
           EvalAwait, EvalFails, EvalUnwind, jobVars, flags
  <2>2. CASE StreamStep(t)
    BY <1>2, <1>10, <2>2
       DEF StreamStep, StreamAdd, StreamEmit, EmitRow, Resume, StreamFails, jobVars, flags
  <2>3. CASE Close(t) \/ Clear(t)
    BY <1>0, <1>2, <2>3 DEF Close, Clear, jobVars, flags
  <2> QED  BY <1>10, <2>1, <2>2, <2>3 DEF ThreadStep
<1>11. ASSUME NEW c \in Claims, LateDrop(c) PROVE SaidInv'
  BY <1>2, <1>11 DEF LateDrop, evalVars, jobVars, flags
<1>12. CASE Interrupt \/ Over \/ UNCHANGED jevVars
  BY <1>2, <1>12 DEF Interrupt, Over, jevVars, evalVars, jobVars, flags
<1> QED  BY <1>5, <1>6, <1>7, <1>9, <1>10, <1>11, <1>12 DEF JevNext

(***************************************************************************)
(* Chunks.                                                                 *)
(***************************************************************************)
(* Packs of b questions each, the last one shorter, leave none of n out.   *)
LEMMA Covering ==
  ASSUME NEW n \in Nat \ {0}, NEW b \in Nat \ {0}, NEW j \in 1 .. n
  PROVE  \E i \in 1 .. (n + b - 1) \div b : (i - 1) * b + 1 <= j /\ j <= i * b
<1> DEFINE q == (n + b - 1) \div b
           d == (j - 1) \div b
<1>1. q \in Int /\ n + b - 1 < (q + 1) * b
  OBVIOUS
<1>2. d \in Nat /\ d * b <= j - 1 /\ j - 1 < (d + 1) * b
  OBVIOUS
<1> HIDE DEF q, d
<1>3. (q + 1) * b = q * b + b /\ q * b \in Int
  BY <1>1
<1>4. d < q
  <2> SUFFICES ASSUME d >= q PROVE FALSE
    BY <1>1, <1>2
  <2>1. d * b >= q * b
    BY <1>1, <1>2
  <2> QED  BY <1>1, <1>2, <1>3, <2>1
<1>5. d + 1 \in 1 .. q /\ (d + 1) - 1 = d
  BY <1>1, <1>2, <1>4
<1>6. (d + 1) * b \in Int /\ d * b \in Int
  BY <1>2
<1>7. d * b + 1 <= j /\ j <= (d + 1) * b
  BY <1>2, <1>6
<1> QED  BY <1>5, <1>7 DEF q

LEMMA PackCover ==
  ASSUME JevInv, NEW s \in Slots, NEW A,
         \A i \in 1 .. Len(Packs(s)) : ToSet(Packs(s)[i]) \subseteq A
  PROVE  ToSet(pack[s]) \subseteq A
<1> DEFINE n == Len(pack[s])
           q == (n + BatchSize - 1) \div BatchSize
           hi(i) == IF i * BatchSize < n THEN i * BatchSize ELSE n
           P(i) == SubSeq(pack[s], (i - 1) * BatchSize + 1, hi(i))
<1>1. pack[s] \in Seq(Claims) /\ n \in Nat /\ BatchSize \in Nat \ {0}
  BY JevAssumption DEF JevInv, JevTypeOK
<1> SUFFICES ASSUME NEW j \in 1 .. n PROVE pack[s][j] \in A
  BY <1>1 DEF ToSet
<1>2. PICK i \in 1 .. q : (i - 1) * BatchSize + 1 <= j /\ j <= i * BatchSize
  <2>1. n \in Nat \ {0}
    BY <1>1
  <2> HIDE DEF n
  <2>2. \E k \in 1 .. (n + BatchSize - 1) \div BatchSize :
           (k - 1) * BatchSize + 1 <= j /\ j <= k * BatchSize
    BY <1>1, <2>1, Covering
  <2> QED  BY <2>2
<1>3. n # 0 /\ q \in 1 .. n /\ (i - 1) * BatchSize + 1 \in 1 .. n
  <2> HIDE DEF n
  <2> QED  BY <1>1, <1>2, RoundUp
<1>4. Packs(s) = [k \in 1 .. q |-> P(k)]
  BY DEF Packs
<1>5. hi(i) \in 1 .. n /\ j <= hi(i)
  <2> HIDE DEF n, q
  <2>1. i * BatchSize \in Int
    BY <1>1, <1>2, <1>3
  <2> QED  BY <1>1, <1>2, <1>3, <2>1
<1> DEFINE lo == (i - 1) * BatchSize + 1
           h == hi(i)
<1>6. lo \in 1 .. n /\ h \in 1 .. n /\ lo <= j /\ j <= h
  BY <1>2, <1>3, <1>5
<1>7. P(i) = SubSeq(pack[s], lo, h)
  OBVIOUS
<1> HIDE DEF lo, h, hi, P, q
<1>8. \A k \in lo .. h : pack[s][k] \in Claims
  BY <1>1, <1>6
<1>9. /\ SubSeq(pack[s], lo, h) \in Seq(Claims) /\ Len(SubSeq(pack[s], lo, h)) = h - lo + 1
      /\ SubSeq(pack[s], lo, h)[j - lo + 1] = pack[s][j]
  BY <1>1, <1>6, <1>8, SubSeqProperties
<1>10. pack[s][j] \in ToSet(P(i))
  <2>1. j - lo + 1 \in 1 .. Len(SubSeq(pack[s], lo, h))
    BY <1>1, <1>6, <1>9
  <2> QED  BY <1>7, <1>9, <2>1 DEF ToSet
<1>11. Len(Packs(s)) = q /\ Packs(s)[i] = P(i)
  BY <1>3, <1>4
<1> QED  BY <1>2, <1>10, <1>11

LEMMA ChunkFrame ==
  ASSUME ChunkInv, NEW t \in Threads, phase'[t] = phase[t], pos'[t] = pos[t],
         answered \subseteq answered',
         jobs'[EvalOf(t)] = jobs[EvalOf(t)], pack'[EvalOf(t)] = pack[EvalOf(t)],
         stopped'[EvalOf(t)] = stopped[EvalOf(t)], error'[EvalOf(t)] = error[EvalOf(t)]
  PROVE  ChunkAt(t)'
<1>1. ChunkAt(t)
  BY DEF ChunkInv
<1>2. Packs(EvalOf(t))' = Packs(EvalOf(t)) /\ EvalOf(t)' = EvalOf(t)
  BY DEF Packs, EvalOf
<1> QED  BY <1>1, <1>2 DEF ChunkAt

LEMMA ChunkLeft ==
  ASSUME NEW t \in Threads, phase'[t] \notin {"acquire", "submit", "join", "publish"}
  PROVE  ChunkAt(t)'
  BY DEF ChunkAt

(* A thread does nothing to the chunk of another. *)
LEMMA OtherChunk ==
  ASSUME JevInv, OpInv, NEW u \in Threads, ThreadStep(u), NEW t \in Threads, t # u
  PROVE  /\ phase'[t] = phase[t] /\ pos'[t] = pos[t]
         /\ jobs'[EvalOf(t)] = jobs[EvalOf(t)] /\ pack'[EvalOf(t)] = pack[EvalOf(t)]
         /\ stopped'[EvalOf(t)] = stopped[EvalOf(t)] /\ error'[EvalOf(t)] = error[EvalOf(t)]
<1>0. /\ phase \in [Threads -> Phases] /\ pos \in [Threads -> Nat \ {0}]
      /\ pack \in [Slots -> Seq(Claims)] /\ stopped \in [Slots -> BOOLEAN] /\ error \in [Slots -> BOOLEAN]
      /\ jobs \in [Slots -> Seq(GoodJob)]
  BY DEF JevInv, JevTypeOK, JobsInv
<1>1. /\ Slot(u) \in Slots /\ StreamOf(u) \in Slots /\ EvalOf(u) \in Slots /\ EvalOf(t) \in Slots
      /\ EvalOf(t) \notin {Slot(u), StreamOf(u), EvalOf(u)}
  BY DEF Slot, StreamOf, EvalOf, Slots
<1> USE DEF Go, NextRow, Restart, jobVars, flags
<1>2. CASE Begin(u)
  <2>1. UNCHANGED <<pack, jobs, stopped, error>> \/
        (/\ pack' = [pack EXCEPT ![EvalOf(u)] = <<>>] /\ jobs' = [jobs EXCEPT ![EvalOf(u)] = <<>>]
         /\ stopped' = [stopped EXCEPT ![EvalOf(u)] = FALSE]
         /\ error' = [error EXCEPT ![EvalOf(u)] = FALSE])
    BY <1>2 DEF Begin, EvalOf
  <2>2. phase'[t] = phase[t] /\ pos'[t] = pos[t]
    BY <1>0, <1>2 DEF Begin
  <2> QED  BY <1>0, <1>1, <2>1, <2>2
<1>3. CASE EvalAcquire(u) \/ StreamAdd(u)
  <2>1. UNCHANGED jobVars /\ (pack' = pack \/ \E c : pack' = [pack EXCEPT ![Slot(u)] = Append(@, c)])
    BY <1>3 DEF EvalAcquire, StreamAdd, AcquireRow
  <2>2. phase'[t] = phase[t] /\ pos'[t] = pos[t]
    BY <1>0, <1>3 DEF EvalAcquire, StreamAdd
  <2> QED  BY <1>0, <1>1, <2>1, <2>2
<1>4. CASE EvalReserve(u) \/ EvalJoin(u) \/ EvalPublish(u) \/ EvalAwait(u) \/ EvalFails(u) \/ EvalUnwind(u)
  BY <1>0, <1>4 DEF EvalReserve, EvalJoin, EvalPublish, EvalAwait, EvalFails, EvalUnwind
<1>5. CASE EvalSubmit(u)
  BY <1>0, <1>1, <1>5 DEF EvalSubmit
<1>6. CASE EvalRefused(u)
  BY <1>0, <1>1, <1>6 DEF EvalRefused
<1>7. CASE StreamFlush(u)
  BY <1>0, <1>1, <1>7 DEF StreamFlush, AfterFlush
<1>8. CASE EmitEnd(u) \/ StreamFails(u)
  BY <1>0, <1>1, <1>8 DEF EmitEnd, StreamFails
<1>9. CASE StreamEmit(u) \/ EmitRow(u) \/ Resume(u)
  BY <1>0, <1>9 DEF StreamEmit, EmitRow, Resume
<1>10. CASE Close(u) \/ Clear(u)
  BY <1>0, <1>1, <1>10 DEF Close, Clear
<1> QED  BY <1>2, <1>3, <1>4, <1>5, <1>6, <1>7, <1>8, <1>9, <1>10 DEF ThreadStep, EvalStep, StreamStep

LEMMA ChunkJob ==
  ASSUME ChunkInv, SaidInv, JobsInv, UNCHANGED <<phase, pos, pack>>, answered \subseteq answered',
         NEW s \in Slots, NEW i \in 1 .. Len(jobs[s]), NEW job, OneJob(s, i, job),
         job.refs = jobs[s][i].refs,
         \A q \in Slots : /\ stopped[q] => stopped'[q]
                          /\ error[q] => error'[q]
                          /\ stopped'[q] => stopped[q] \/ (q = s /\ job.state = "failing"),
         jobs[s][i].state = "failing" => job.state = "failing" \/ error'[s]
  PROVE  ChunkInv'
<1> SUFFICES ASSUME NEW t \in Threads PROVE ChunkAt(t)'
  BY DEF ChunkInv
<1> DEFINE q == EvalOf(t)
<1>0. ChunkAt(t) /\ q \in Slots
  BY DEF ChunkInv, EvalOf, Slots
<1>1. Packs(q)' = Packs(q) /\ q' = q
  BY DEF Packs, EvalOf
<1>2. /\ Len(jobs'[q]) = Len(jobs[q])
      /\ \A k \in 1 .. Len(jobs[q]) :
           IF q = s /\ k = i THEN jobs'[q][k] = job ELSE jobs'[q][k] = jobs[q][k]
  BY <1>0 DEF OneJob
<1>3. \A k \in 1 .. Len(jobs[q]) : jobs'[q][k].refs = jobs[q][k].refs
  BY <1>2
<1>4. ASSUME phase[t] \in {"acquire", "submit", "join"}, stopped'[q]
      PROVE  error'[q] \/ \E k \in 1 .. Len(jobs'[q]) : jobs'[q][k].state = "failing"
  <2>1. CASE q = s /\ job.state = "failing"
    <3>1. i \in 1 .. Len(jobs'[q]) /\ jobs'[q][i].state = "failing"
      BY <1>2, <2>1
    <3> QED  BY <3>1
  <2>2. CASE stopped[q]
    <3>1. error[q] \/ \E k \in 1 .. Len(jobs[q]) : jobs[q][k].state = "failing"
      BY <1>0, <1>4, <2>2 DEF ChunkAt
    <3>2. ASSUME NEW k \in 1 .. Len(jobs[q]), jobs[q][k].state = "failing"
          PROVE  error'[q] \/ \E n \in 1 .. Len(jobs'[q]) : jobs'[q][n].state = "failing"
      <4>1. CASE q = s /\ k = i
        BY <1>2, <2>1, <3>2, <4>1
      <4>2. CASE ~(q = s /\ k = i)
        <5>1. k \in 1 .. Len(jobs'[q]) /\ jobs'[q][k].state = "failing"
          BY <1>2, <3>2, <4>2
        <5> QED  BY <5>1
      <4> QED  BY <4>1, <4>2
    <3> QED  BY <1>0, <3>1, <3>2
  <2> QED  BY <1>0, <1>4, <2>1, <2>2
<1> HIDE DEF q
<1> QED  BY <1>0, <1>1, <1>2, <1>3, <1>4 DEF ChunkAt, q

LEMMA ChunkOwn ==
  ASSUME JevInv, TypeInv, AnsweredInv, [JevNext]_jevVars, NEW t \in Threads, ThreadStep(t)
  PROVE  ChunkAt(t)'
<1> DEFINE s == EvalOf(t)
<1>0. /\ phase \in [Threads -> Phases] /\ pos \in [Threads -> Nat \ {0}]
      /\ pack \in [Slots -> Seq(Claims)] /\ stopped \in [Slots -> BOOLEAN] /\ error \in [Slots -> BOOLEAN]
      /\ jobs \in [Slots -> Seq(GoodJob)]
      /\ OpInv /\ ChunkInv /\ ChunkAt(t) /\ s \in Slots /\ answered \subseteq answered'
  BY HistoryGrows DEF JevInv, JevTypeOK, JobsInv, AnsweredInv, ChunkInv, EvalOf, Slots
<1>1. s' = s /\ (pack' = pack => Packs(s)' = Packs(s)) /\ Len(jobs[s]) \in Nat
  <2>1. s' = s /\ (pack' = pack => Packs(s)' = Packs(s))
    BY DEF Packs, EvalOf
  <2>2. jobs[s] \in Seq(GoodJob)
    BY <1>0
  <2> HIDE DEF s
  <2> QED  BY <2>1, <2>2
<1>2. CASE Begin(t)
  <2> DEFINE op == Calls[t][call[t] + 1].op
  <2>1. /\ Go(t, FirstPhase(op))
        /\ op = "eval" => /\ jobs' = [jobs EXCEPT ![s] = <<>>]
                          /\ stopped' = [stopped EXCEPT ![s] = FALSE]
    BY <1>2 DEF Begin, EvalOf
  <2>2. op \in Ops
    <3>1. call[t] + 1 \in DOMAIN Calls[t]
      BY <1>2, JevAssumption DEF Begin, JevInv, JevTypeOK
    <3> QED  BY <3>1, CallType
  <2> HIDE DEF op
  <2>3. CASE op = "eval"
    <3>1. phase'[t] = "acquire" /\ jobs'[s] = <<>> /\ ~stopped'[s]
      BY <1>0, <2>1, <2>3 DEF Go, FirstPhase
    <3> QED  BY <1>1, <3>1 DEF ChunkAt
  <2>4. CASE op # "eval"
    <3>1. phase'[t] \in {"add", "flushemit"}
      BY <1>0, <2>1, <2>2, <2>4 DEF Go, FirstPhase, BeforeEmit, Ops
    <3> QED  BY <3>1, ChunkLeft
  <2> QED  BY <2>3, <2>4
<1>3. CASE EvalAcquire(t)
  <2>1. phase[t] = "acquire" /\ phase' = phase /\ UNCHANGED jobVars
    BY <1>3 DEF EvalAcquire
  <2> QED  BY <1>0, <1>1, <2>1 DEF ChunkAt, jobVars, flags
<1>4. CASE EvalReserve(t)
  <2>1. /\ phase[t] = "acquire" /\ phase'[t] = "submit" /\ pos'[t] = 1
        /\ UNCHANGED <<pack, jobVars>>
    BY <1>0, <1>4 DEF EvalReserve, Go, Restart
  <2>2. Len(jobs[s]) = 0 /\ (stopped[s] => error[s] \/ \E i \in 1 .. Len(jobs[s]) : jobs[s][i].state = "failing")
    BY <1>0, <2>1 DEF ChunkAt
  <2>3. Len(jobs'[s]) = 0 /\ stopped'[s] = stopped[s] /\ error'[s] = error[s] /\ jobs'[s] = jobs[s]
    BY <2>1, <2>2 DEF jobVars, flags
  <2> QED  BY <1>0, <1>1, <2>1, <2>2, <2>3 DEF ChunkAt
<1>5. CASE EvalSubmit(t)
  <2>0. Slot(t) = s /\ phase[t] = "submit"
    BY <1>0, <1>5, EvalSlot DEF EvalSubmit, EvalPhases
  <2>1. /\ Len(jobs[s]) = pos[t] - 1
        /\ \A i \in 1 .. Len(jobs[s]) : jobs[s][i].refs = Packs(s)[i]
        /\ stopped[s] => error[s] \/ \E i \in 1 .. Len(jobs[s]) : jobs[s][i].state = "failing"
    BY <1>0, <2>0 DEF ChunkAt
  <2>2. UNCHANGED <<pack, stopped, error>> /\ Packs(s)' = Packs(s)
    BY <1>1, <1>5 DEF EvalSubmit, flags
  <2>3. CASE pos[t] <= Len(Packs(s)) /\ ~stopped[s]
    <3>1. /\ jobs' = [jobs EXCEPT ![s] = Append(@, NewJob(Packs(s)[pos[t]]))]
          /\ NextRow(t) /\ phase' = phase
      BY <1>5, <2>0, <2>3 DEF EvalSubmit
    <3>2. jobs'[s] = Append(jobs[s], NewJob(Packs(s)[pos[t]])) /\ pos'[t] = pos[t] + 1
      BY <1>0, <3>1 DEF NextRow
    <3>3. NewJob(Packs(s)[pos[t]]).refs = Packs(s)[pos[t]]
      BY DEF NewJob
    <3> HIDE DEF s
    <3>4. /\ Len(jobs'[s]) = Len(jobs[s]) + 1
          /\ \A i \in 1 .. Len(jobs[s]) : jobs'[s][i] = jobs[s][i]
          /\ jobs'[s][Len(jobs[s]) + 1] = NewJob(Packs(s)[pos[t]])
      BY <1>0, <3>2, AppendProperties
    <3>5. \A i \in 1 .. Len(jobs'[s]) : jobs'[s][i].refs = Packs(s)[i]
      <4>1. \A i \in 1 .. Len(jobs'[s]) : i \in 1 .. Len(jobs[s]) \/ i = Len(jobs[s]) + 1
        BY <1>1, <3>4
      <4>2. Len(jobs[s]) + 1 = pos[t]
        BY <1>0, <1>1, <2>1
      <4> QED  BY <2>1, <3>3, <3>4, <4>1, <4>2
    <3>6. Len(jobs'[s]) = pos'[t] - 1
      BY <1>0, <1>1, <2>1, <3>2, <3>4
    <3>7. ~stopped'[s] /\ phase'[t] = "submit"
      BY <2>0, <2>2, <2>3, <3>1
    <3> QED  BY <1>1, <2>2, <3>5, <3>6, <3>7 DEF ChunkAt, s
  <2>4. CASE ~(pos[t] <= Len(Packs(s)) /\ ~stopped[s])
    <3>1. phase'[t] = "join" /\ jobs' = jobs
      BY <1>0, <1>5, <2>0, <2>4 DEF EvalSubmit, Go
    <3>2. Len(Packs(s)) \in Int
      <4>1. CASE pack[s] = <<>>
        BY <1>0, <4>1, NoPacks
      <4>2. CASE pack[s] # <<>>
        <5> DEFINE R == Seq(Claims) \ {<<>>}
        <5>1. Packs(s) \in Seq(R)
          BY <1>0, <4>2, PacksType
        <5> HIDE DEF R, s
        <5> QED  BY <5>1
      <4> QED  BY <4>1, <4>2
    <3>3. stopped[s] \/ Len(jobs[s]) >= Len(Packs(s))
      BY <1>0, <2>1, <2>4, <3>2
    <3> QED  BY <1>1, <2>1, <2>2, <3>1, <3>3 DEF ChunkAt
  <2> QED  BY <2>3, <2>4
<1>6. CASE EvalJoin(t)
  <2>0. Slot(t) = s /\ phase[t] = "join" /\ phase[t] \in EvalPhases
    BY <1>0, <1>6, EvalSlot DEF EvalJoin, EvalPhases
  <2>1. CASE EvalFailed(t)
    <3>1. phase'[t] = "unwind"
      BY <1>0, <1>6, <2>1 DEF EvalJoin, Go
    <3> QED  BY <3>1, ChunkLeft
  <2>2. CASE ~EvalFailed(t)
    <3>1. /\ phase'[t] = "publish" /\ pack' = pack /\ answered' = answered
          /\ ~interrupted /\ ~error[s]
      BY <1>0, <1>6, <2>0, <2>2 DEF EvalJoin, EvalFailed, Go, After, facts
    <3>2. \A i \in 1 .. Len(jobs[s]) : jobs[s][i].state = "done"
      BY <1>0, <1>6, <2>0 DEF EvalJoin, AllDone
    <3>3. ~stopped[s]
      BY <1>0, <2>0, <3>1, <3>2 DEF ChunkAt
    <3>4. Len(jobs[s]) >= Len(Packs(s)) /\ \A i \in 1 .. Len(jobs[s]) : jobs[s][i].refs = Packs(s)[i]
      BY <1>0, <2>0, <3>3 DEF ChunkAt
    <3>5. \A i \in 1 .. Len(jobs[s]) : ToSet(jobs[s][i].refs) \subseteq answered
      <4>1. \A i \in 1 .. Len(jobs[s]) : JobSaid(s, jobs[s][i])
        BY <1>0 DEF AnsweredInv, SaidInv
      <4>2. s[2] = "eval"
        BY DEF EvalOf
      <4> HIDE DEF s
      <4> QED  BY <3>1, <3>2, <3>3, <4>1, <4>2 DEF JobSaid, Says
    <3>6. \A i \in 1 .. Len(Packs(s)) : ToSet(Packs(s)[i]) \subseteq answered
      <4> HIDE DEF s
      <4>1. \A i \in 1 .. Len(Packs(s)) : i \in 1 .. Len(jobs[s])
        <5>1. CASE pack[s] = <<>>
          BY <1>0, <5>1, NoPacks
        <5>2. CASE pack[s] # <<>>
          <6> DEFINE R == Seq(Claims) \ {<<>>}
          <6>1. Packs(s) \in Seq(R)
            BY <1>0, <5>2, PacksType
          <6> HIDE DEF R
          <6>2. Len(Packs(s)) \in Nat
            BY <6>1
          <6> QED  BY <1>1, <3>4, <6>2
        <5> QED  BY <5>1, <5>2
      <4> QED  BY <3>4, <3>5, <4>1
    <3>7. ToSet(pack[s]) \subseteq answered
      BY <1>0, <3>6, PackCover
    <3> QED  BY <1>1, <3>1, <3>7 DEF ChunkAt
  <2> QED  BY <2>1, <2>2
<1>7. CASE EvalPublish(t)
  <2>1. phase[t] = "publish" /\ pack' = pack /\ phase'[t] \in {"publish", "await"}
    BY <1>0, <1>7 DEF EvalPublish, Go, After
  <2>2. ToSet(pack[s]) \subseteq answered'
    BY <1>0, <2>1 DEF ChunkAt
  <2> QED  BY <1>1, <2>1, <2>2 DEF ChunkAt
<1>8. ASSUME phase'[t] \notin {"acquire", "submit", "join", "publish"} PROVE ChunkAt(t)'
  BY <1>8, ChunkLeft
<1>9. CASE EvalRefused(t) \/ EvalAwait(t) \/ EvalFails(t) \/ EvalUnwind(t)
  BY <1>0, <1>8, <1>9 DEF EvalRefused, EvalAwait, EvalFails, EvalUnwind, Go, After
<1>10. CASE StreamStep(t)
  <2>1. phase[t] \in StreamPhases /\ phase'[t] \in StreamPhases \cup {"next", "close"}
    <3>1. CASE Resume(t)
      <4>1. Cur(t).op # "eval" /\ Cur(t).op \in Ops
        BY <1>0, <3>1, CurType DEF OpInv, Resume, JevInv, InCall, StreamPhases
      <4> QED  BY <1>0, <3>1, <4>1 DEF Resume, Go, FirstPhase, BeforeEmit, Ops, StreamPhases
    <3>2. CASE ~Resume(t)
      BY <1>0, <1>10, <3>2
         DEF StreamStep, StreamAdd, StreamEmit, StreamFlush, AfterFlush, EmitRow, EmitEnd,
             StreamFails, BeforeEmit, Go, StreamPhases
    <3> QED  BY <3>1, <3>2
  <2> QED  BY <1>8, <2>1 DEF StreamPhases
<1>11. CASE Close(t) \/ Clear(t)
  BY <1>0, <1>8, <1>11 DEF Close, Clear, Go
<1> QED  BY <1>2, <1>3, <1>4, <1>5, <1>6, <1>7, <1>9, <1>10, <1>11 DEF ThreadStep, EvalStep

LEMMA ChunkNext == JevInv /\ TypeInv /\ AnsweredInv /\ [JevNext]_jevVars => ChunkInv'
<1> SUFFICES ASSUME JevInv, TypeInv, AnsweredInv, [JevNext]_jevVars PROVE ChunkInv'
  OBVIOUS
<1>0. /\ ChunkInv /\ SaidInv /\ OpInv /\ JobsInv
      /\ jobs \in [Slots -> Seq(GoodJob)] /\ stopped \in [Slots -> BOOLEAN] /\ error \in [Slots -> BOOLEAN]
      /\ answered \subseteq answered'
  BY HistoryGrows DEF AnsweredInv, JevInv, JevTypeOK, JobsInv
<1>1. ASSUME NEW u \in Threads, ThreadStep(u) PROVE ChunkInv'
  <2> SUFFICES ASSUME NEW t \in Threads PROVE ChunkAt(t)'
    BY DEF ChunkInv
  <2>1. CASE t = u
    BY <1>1, <2>1, ChunkOwn
  <2>2. CASE t # u
    BY <1>0, <1>1, <2>2, OtherChunk, ChunkFrame
  <2> QED  BY <2>1, <2>2
<1>2. ASSUME UNCHANGED <<phase, pos, jobs, pack, stopped, error>> PROVE ChunkInv'
  BY <1>0, <1>2, ChunkFrame DEF ChunkInv
<1>3. ASSUME NEW s \in Slots, NEW i \in DOMAIN jobs[s], JobStep(s, i) PROVE ChunkInv'
  <2> DEFINE job == jobs[s][i]
             Became(state) == [job EXCEPT !.state = state]
             later == [job EXCEPT !.next = @ + 1]
  <2>0. job \in GoodJob /\ i \in 1 .. Len(jobs[s])
    BY <1>0
  <2>1. UNCHANGED <<phase, pos, pack>>
    BY <1>3 DEF JobStep, JobStart, JobAnswered, JobComplete, JobFails, JobError, control
  <2>2. /\ \A state : SetJob(s, i, state) => OneJob(s, i, Became(state))
        /\ PutJob(s, i, later) => OneJob(s, i, later)
    BY <1>0, SetIsOne, PutIsOne
  <2>3. \A state : Became(state).refs = job.refs /\ Became(state).state = state
    BY <2>0 DEF GoodJob
  <2>4. later.refs = job.refs
    BY <2>0 DEF GoodJob
  <2> HIDE DEF job, Became, later
  <2>5. CASE JobStart(s, i) \/ JobAnswered(s, i) \/ JobComplete(s, i)
    <3>1. UNCHANGED <<stopped, error>> /\ job.state # "failing"
      BY <2>5 DEF JobStart, JobAnswered, JobComplete, flags, job
    <3>2. UNCHANGED jobs \/ PutJob(s, i, later) \/ \E state : SetJob(s, i, state)
      BY <2>5 DEF JobStart, JobAnswered, JobComplete, job, later
    <3>3. ASSUME NEW state, SetJob(s, i, state) PROVE ChunkInv'
      BY <1>0, <2>0, <2>1, <2>2, <2>3, <3>1, <3>3, ChunkJob DEF job
    <3>4. CASE PutJob(s, i, later)
      BY <1>0, <2>0, <2>1, <2>2, <2>4, <3>1, <3>4, ChunkJob DEF job
    <3> QED  BY <1>2, <2>1, <3>1, <3>2, <3>3, <3>4
  <2>6. CASE JobFails(s, i)
    <3>1. SetJob(s, i, "failing") /\ stopped' = [stopped EXCEPT ![s] = TRUE] /\ error' = error
      BY <2>6 DEF JobFails
    <3>2. OneJob(s, i, Became("failing")) /\ Became("failing").refs = job.refs
          /\ Became("failing").state = "failing"
      BY <2>2, <2>3, <3>1
    <3>3. \A q \in Slots : /\ stopped[q] => stopped'[q]
                           /\ error[q] => error'[q]
                           /\ stopped'[q] => stopped[q] \/ q = s
      BY <1>0, <3>1
    <3> QED  BY <1>0, <2>0, <2>1, <3>2, <3>3, ChunkJob DEF job
  <2>7. CASE JobError(s, i)
    <3>1. SetJob(s, i, "done") /\ stopped' = stopped /\ error' = [error EXCEPT ![s] = TRUE]
      BY <2>7 DEF JobError
    <3>2. OneJob(s, i, Became("done")) /\ Became("done").refs = job.refs
      BY <2>2, <2>3, <3>1
    <3>3. error'[s] /\ \A q \in Slots : error[q] => error'[q]
      BY <1>0, <3>1
    <3> QED  BY <1>0, <2>0, <2>1, <3>1, <3>2, <3>3, ChunkJob DEF job
  <2> QED  BY <1>3, <2>5, <2>6, <2>7 DEF JobStep
<1>4. ASSUME NEW c \in Claims, LateDrop(c) PROVE ChunkInv'
  BY <1>2, <1>4 DEF LateDrop, evalVars, control, jobVars, flags
<1>5. CASE Interrupt \/ Over \/ UNCHANGED jevVars
  BY <1>2, <1>5 DEF Interrupt, Over, jevVars, evalVars, control, jobVars, flags
<1> QED  BY <1>1, <1>3, <1>4, <1>5 DEF JevNext

LEMMA AnsweredInvariant == JevSpec => []AnsweredInv
<1>1. JevInit => AnsweredInv
  <2> SUFFICES ASSUME JevInit PROVE AnsweredInv
    OBVIOUS
  <2>1. OpInv /\ ChunkInv
    BY DEF JevInit, OpInv, ChunkInv, ChunkAt, EvalPhases, StreamPhases
  <2>2. SaidInv
    <3>1. \A s \in Slots : Len(jobs[s]) = 0
      BY EmptySeq DEF JevInit
    <3> QED  BY <3>1 DEF SaidInv
  <2>3. ToldInv
    BY DEF JevInit, ToldInv
  <2> QED  BY <2>1, <2>2, <2>3 DEF AnsweredInv
<1>2. JevInv /\ TypeInv /\ AnsweredInv /\ [JevNext]_jevVars => AnsweredInv'
  BY OpNext, ChunkNext, SaidNext, ToldNext DEF AnsweredInv
<1> QED  BY <1>1, <1>2, JevInvariant, PTL DEF JevSpec

(***************************************************************************)
(* Whatever jobs were skipped, failed or cut short, an evaluator completes *)
(* only flights whose question the provider has answered (the join of      *)
(* Evaluate and the checks after it, process's silent return).             *)
(***************************************************************************)
THEOREM AnsweredFirst == JevSpec => []PublishedWasAnswered
<1>1. AnsweredInv => PublishedWasAnswered
  BY DEF AnsweredInv, ToldInv, Told, PublishedWasAnswered
<1> QED  BY <1>1, AnsweredInvariant, PTL

-----------------------------------------------------------------------------
(***************************************************************************)
(* Nothing is left behind.                                                 *)
(***************************************************************************)
(* An owner some evaluator must still settle. *)
Live == {"owner", "sent", "stored", "set", "broken"}

OwnerOK(c) ==
  /\ pc[c] \in Live \cup {"orphan", "late", "done"}
  /\ flight[c] = c
  /\ pc[c] \in {"set", "broken", "late", "done"} => promise[c] # Open
  /\ promise[c] \in Answer => pc[c] \in {"set", "done"}

OwnerInv ==
  \A c \in Claims : /\ c \in owners => OwnerOK(c)
                    /\ c \in Begun /\ c \notin owners => pc[c] \in {"waiting", "done"}
                    /\ c \notin Begun => promise[c] # Open

(* What a step makes of a claim that has been acquired. *)
ClaimMove(c) ==
  \/ pc'[c] = pc[c] /\ promise'[c] = promise[c]
  \/ <<pc[c], pc'[c]>> \in {<<"owner", "sent">>, <<"sent", "stored">>, <<"sent", "orphan">>,
                            <<"set", "done">>, <<"broken", "done">>, <<"late", "done">>,
                            <<"waiting", "done">>} /\ promise'[c] = promise[c]
  \/ pc[c] = "stored" /\ pc'[c] = "set" /\ promise'[c] # Open
  \/ <<pc[c], pc'[c]>> \in {<<"owner", "broken">>, <<"sent", "broken">>, <<"orphan", "late">>}
     /\ promise'[c] = Broken

LEMMA BegunMoves ==
  ASSUME TypeInv, Use \/ UNCHANGED vars, NEW c \in Claims, c \in Begun
  PROVE  ClaimMove(c) /\ flight'[c] = flight[c]
<1>0. /\ pc \in [Claims -> ClaimPc] /\ promise \in [Claims -> Answer \cup {None, Open, Broken}]
      /\ flight \in [Claims -> Claims] /\ encoded \in [Claims -> Answer \cup {None}]
      /\ Open \notin Answer /\ None # Open
      /\ pc[c] \notin {"idle", "ready"}
  BY NoneAssumption DEF TypeInv, TypeOK, Begun
<1> USE DEF ClaimMove, claimVars
<1>1. CASE UNCHANGED vars
  BY <1>1 DEF vars
<1>2. ASSUME NEW S \in SUBSET Claims, Snapshot(S) PROVE ClaimMove(c) /\ flight' = flight
  BY <1>0, <1>2 DEF Snapshot
<1>3. ASSUME NEW S \in SUBSET Claims, NEW n \in 1 .. Cardinality(S), Reserve(S, n)
      PROVE  ClaimMove(c) /\ flight' = flight
  BY <1>0, <1>3 DEF Reserve
<1>4. ASSUME NEW d \in Claims, ClaimStep(d) PROVE ClaimMove(c) /\ flight'[c] = flight[c]
  <2>1. CASE \E k \in Keys : Acquire(d, k)
    <3>1. d # c
      BY <1>0, <2>1 DEF Acquire
    <3> QED  BY <1>0, <2>1, <3>1 DEF Acquire, HitAnswer, HitSession, Join, Own, HoldReady
  <2>2. CASE Store(d)
    BY <1>0, <2>2 DEF Store
  <2>3. CASE SetValue(d)
    BY <1>0, <2>3 DEF SetValue
  <2>4. CASE Abandon(d)
    BY <1>0, <2>4 DEF Abandon, BreakPromise
  <2>5. CASE Release(d)
    BY <1>0, <2>5 DEF Release
  <2>6. CASE Orphan(d) \/ AwaitFlight(d) \/ Leave(d)
    BY <1>0, <2>6 DEF Orphan, AwaitFlight, Leave
  <2> QED  BY <1>4, <2>1, <2>2, <2>3, <2>4, <2>5, <2>6 DEF ClaimStep, OwnerStep
<1> QED  BY <1>1, <1>2, <1>3, <1>4 DEF Use

(* A thread takes the row at pos. *)
Taking(t, c) == /\ EvalAcquire(t) \/ StreamAdd(t)
                /\ c = Cur(t).rows[pos[t]]

LEMMA TakingShape ==
  ASSUME JevInv, TypeInv, NEW t \in Threads, EvalAcquire(t) \/ StreamAdd(t)
  PROVE  /\ InCall(t) /\ AcquireRow(t) /\ Slot(t) \in Slots
         /\ Cur(t).rows[pos[t]] \in Claims /\ pc[Cur(t).rows[pos[t]]] = "ready"
         /\ pc' = [pc EXCEPT ![Cur(t).rows[pos[t]]] = pc'[Cur(t).rows[pos[t]]]]
         /\ pc'[Cur(t).rows[pos[t]]] \in {"waiting", "owner"}
<1>1. InCall(t) /\ pos[t] <= Len(Cur(t).rows) /\ AcquireRow(t)
  BY DEF EvalAcquire, StreamAdd, InCall
<1> DEFINE c == Cur(t).rows[pos[t]]
<1>2. c \in Claims
  BY <1>1, AcquireRowUse DEF JevInv
<1>3. Acquire(c, RowKey[c])
  BY <1>1 DEF AcquireRow
<1> HIDE DEF c
<1>4. /\ pc[c] = "ready" /\ pc'[c] \in {"waiting", "owner"}
      /\ pc' = [pc EXCEPT ![c] = pc'[c]]
  BY <1>2, <1>3 DEF Acquire, HitAnswer, HitSession, Join, Own, HoldReady, TypeInv, TypeOK
<1> QED  BY <1>1, <1>2, <1>4, SlotType DEF c

(* A claim that is not acquired yet: nothing happens to it but its snapshot, *)
(* or a thread takes it.                                                     *)
LEMMA FreshMoves ==
  ASSUME JevInv, TypeInv, [JevNext]_jevVars, NEW c \in Claims, c \notin Begun
  PROVE  \/ c \notin Begun' /\ promise'[c] = promise[c]
         \/ \E t \in Threads : Taking(t, c)
<1>0. /\ pc \in [Claims -> ClaimPc] /\ promise \in [Claims -> Answer \cup {None, Open, Broken}]
      /\ JevTypeOK /\ pc[c] \in {"idle", "ready"}
  BY DEF TypeInv, TypeOK, JevInv, Begun
<1> DEFINE Still == c \notin Begun' /\ promise'[c] = promise[c]
<1> USE DEF Begun, claimVars
<1>1. ASSUME UNCHANGED vars PROVE Still
  BY <1>0, <1>1 DEF vars
<1>2. ASSUME NEW S, Snapshot(S) PROVE Still
  BY <1>0, <1>2 DEF Snapshot
<1>3. ASSUME NEW S, NEW n, Reserve(S, n) PROVE Still
  BY <1>0, <1>3 DEF Reserve
<1>4. ASSUME NEW d \in Claims, CompleteStep(d) \/ Abandon(d) \/ Release(d) \/ Orphan(d)
                               \/ AwaitFlight(d) \/ (pc[d] = "waiting" /\ Leave(d))
      PROVE  Still
  BY <1>0, <1>4 DEF CompleteStep, Store, SetValue, Release, Abandon, BreakPromise, Orphan,
                    AwaitFlight, Leave
<1>5. ASSUME NEW s \in Slots, DropRow(s) PROVE Still
  <2>1. Head(rows[s]) \in Claims
    BY <1>0, <1>5, HeadTailProperties DEF JevTypeOK, DropRow
  <2> QED  BY <1>1, <1>4, <1>5, <2>1 DEF DropRow
<1>6. ASSUME NEW t \in Threads, ThreadStep(t) PROVE Still \/ Taking(t, c)
  <2>1. CASE EvalAcquire(t) \/ StreamAdd(t)
    <3> DEFINE d == Cur(t).rows[pos[t]]
    <3>1. AcquireRow(t) /\ d \in Claims
      BY <2>1, TakingShape
    <3>2. Acquire(d, RowKey[d])
      BY <3>1 DEF AcquireRow
    <3> HIDE DEF d
    <3>3. d = c \/ Still
      BY <1>0, <3>1, <3>2 DEF Acquire, HitAnswer, HitSession, Join, Own, HoldReady
    <3> QED  BY <2>1, <3>3 DEF Taking, d
  <2>2. CASE Begin(t)
    BY <1>1, <1>2, <2>2 DEF Begin
  <2>3. CASE EvalReserve(t) \/ StreamFlush(t) \/ StreamFails(t)
    BY <1>1, <1>3, <2>3 DEF EvalReserve, StreamFlush, StreamFails
  <2>4. CASE EvalPublish(t)
    <3>1. CASE pos[t] <= Len(pack[Slot(t)])
      <4>1. pack[Slot(t)] \in Seq(Claims) /\ pos[t] \in Nat \ {0}
        BY <1>0, SlotType DEF JevTypeOK
      <4>2. pack[Slot(t)][pos[t]] \in Claims /\ CompleteStep(pack[Slot(t)][pos[t]])
        BY <2>4, <3>1, <4>1 DEF EvalPublish
      <4> QED  BY <1>4, <4>2
    <3>2. CASE ~(pos[t] <= Len(pack[Slot(t)]))
      BY <1>1, <2>4, <3>2 DEF EvalPublish
    <3> QED  BY <3>1, <3>2
  <2>5. CASE EvalAwait(t)
    <3>1. CASE pos[t] <= Len(rows[Slot(t)])
      <4>1. rows[Slot(t)] \in Seq(Claims) /\ pos[t] \in Nat \ {0}
        BY <1>0, SlotType DEF JevTypeOK
      <4>2. rows[Slot(t)][pos[t]] \in Claims
        BY <3>1, <4>1
      <4>3. AwaitFlight(rows[Slot(t)][pos[t]]) \/ UNCHANGED vars
        BY <2>5, <3>1 DEF EvalAwait
      <4> QED  BY <1>1, <1>4, <4>2, <4>3
    <3>2. CASE ~(pos[t] <= Len(rows[Slot(t)]))
      BY <1>1, <2>5, <3>2 DEF EvalAwait
    <3> QED  BY <3>1, <3>2
  <2>6. CASE EvalUnwind(t) \/ Clear(t)
    BY <1>1, <1>5, <2>6, SlotType DEF EvalUnwind, Clear
  <2>7. CASE EmitRow(t)
    <3>1. Head(rows[Slot(t)]) \in Claims
      BY <1>0, <2>7, SlotType, HeadTailProperties DEF JevTypeOK, EmitRow
    <3> QED  BY <1>1, <1>4, <2>7, <3>1 DEF EmitRow
  <2>8. CASE EvalSubmit(t) \/ EvalRefused(t) \/ EvalJoin(t) \/ EvalFails(t)
    BY <1>1, <2>8 DEF EvalSubmit, EvalRefused, EvalJoin, EvalFails
  <2>9. CASE StreamEmit(t) \/ EmitEnd(t) \/ Resume(t) \/ Close(t)
    BY <1>1, <2>9 DEF StreamEmit, EmitEnd, Resume, Close
  <2> QED  BY <1>6, <2>1, <2>2, <2>3, <2>4, <2>5, <2>6, <2>7, <2>8, <2>9
           DEF ThreadStep, EvalStep, StreamStep
<1>7. ASSUME NEW s \in Slots, NEW i \in DOMAIN jobs[s], JobStep(s, i) PROVE Still
  <2>1. CASE JobComplete(s, i)
    <3>1. jobs[s] \in Seq(GoodJob)
      BY DEF JevInv, JobsInv
    <3>2. jobs[s][i] \in GoodJob
      BY <3>1
    <3>3. jobs[s][i].refs[jobs[s][i].next] \in Claims
      BY <3>2 DEF GoodJob
    <3> QED  BY <1>4, <2>1, <3>3 DEF JobComplete
  <2>2. CASE JobStart(s, i) \/ JobAnswered(s, i) \/ JobFails(s, i) \/ JobError(s, i)
    BY <1>1, <2>2 DEF JobStart, JobAnswered, JobFails, JobError
  <2> QED  BY <1>7, <2>1, <2>2 DEF JobStep
<1>8. ASSUME NEW d \in Claims, LateDrop(d) PROVE Still
  BY <1>4, <1>8 DEF LateDrop
<1>9. CASE Interrupt \/ Over \/ UNCHANGED jevVars
  BY <1>1, <1>9 DEF Interrupt, Over, jevVars
<1> QED  BY <1>6, <1>7, <1>8, <1>9 DEF JevNext

LEMMA OwnersMove ==
  ASSUME JevInv, TypeInv, [JevNext]_jevVars, NEW c \in Claims
  PROVE  (c \in owners' <=> c \in owners) \/ \E t \in Threads : Taking(t, c)
<1>1. ASSUME owners' = owners PROVE c \in owners' <=> c \in owners
  BY <1>1
<1>2. ASSUME NEW t \in Threads, ThreadStep(t) PROVE (c \in owners' <=> c \in owners) \/ Taking(t, c)
  <2>1. CASE EvalAcquire(t) \/ StreamAdd(t)
    BY <2>1 DEF EvalAcquire, StreamAdd, AcquireRow, Taking
  <2>2. CASE Begin(t) \/ Close(t) \/ Clear(t)
    BY <2>2 DEF Begin, Close, Clear, facts
  <2>3. CASE EvalStep(t) /\ ~EvalAcquire(t)
    BY <2>3 DEF EvalStep, EvalReserve, EvalSubmit, EvalRefused, EvalJoin, EvalPublish,
                EvalAwait, EvalFails, EvalUnwind, facts
  <2>4. CASE StreamStep(t) /\ ~StreamAdd(t)
    BY <2>4 DEF StreamStep, StreamEmit, StreamFlush, EmitRow, EmitEnd, Resume, StreamFails, facts
  <2> QED  BY <1>2, <2>1, <2>2, <2>3, <2>4 DEF ThreadStep
<1>3. ASSUME NEW s \in Slots, NEW i \in DOMAIN jobs[s], JobStep(s, i) PROVE owners' = owners
  BY <1>3 DEF JobStep, JobStart, JobAnswered, JobComplete, JobFails, JobError, facts
<1>4. ASSUME NEW d \in Claims, LateDrop(d) PROVE owners' = owners
  BY <1>4 DEF LateDrop, evalVars, facts
<1>5. CASE Interrupt \/ Over \/ UNCHANGED jevVars
  BY <1>5 DEF Interrupt, Over, jevVars, evalVars, facts
<1> QED  BY <1>1, <1>2, <1>3, <1>4, <1>5 DEF JevNext

LEMMA Taken ==
  ASSUME JevInv, TypeInv, NEW c \in Claims, NEW t \in Threads, Taking(t, c),
         c \notin owners, promise[c] # Open
  PROVE  /\ pc[c] = "ready"
         /\ \/ c \in owners' /\ pc'[c] = "owner" /\ promise'[c] = Open /\ flight'[c] = c
            \/ c \notin owners' /\ pc'[c] = "waiting"
<1>0. /\ pc \in [Claims -> ClaimPc] /\ promise \in [Claims -> Answer \cup {None, Open, Broken}]
      /\ flight \in [Claims -> Claims] /\ answers \in [Keys -> Answer \cup {None}]
      /\ session \in [Keys -> Entry \cup {None}]
      /\ Open \notin Answer /\ None # Open
  BY NoneAssumption DEF TypeInv, TypeOK
<1>1. /\ Acquire(c, RowKey[c]) /\ RowKey[c] \in Keys
      /\ IF promise'[c] = Open THEN owners' = owners \cup {c} ELSE owners' = owners
  BY TakingShape, JevAssumption DEF Taking, AcquireRow
<1>2. CASE Own(c, RowKey[c])
  BY <1>0, <1>1, <1>2 DEF Own, Acquire
<1>3. CASE Join(c, RowKey[c])
  BY <1>0, <1>1, <1>3 DEF Join, Acquire
<1>4. CASE HitAnswer(c, RowKey[c])
  BY <1>0, <1>1, <1>4 DEF HitAnswer, HoldReady, Acquire
<1>5. CASE HitSession(c, RowKey[c])
  <2>1. session[RowKey[c]] \in Entry
    BY <1>0, <1>1, <1>5 DEF HitSession, Fresh
  <2>2. session[RowKey[c]].answer # Open
    BY <1>0, <2>1 DEF Entry
  <2> QED  BY <1>0, <1>1, <1>5, <2>2 DEF HitSession, HoldReady, Acquire
<1> QED  BY <1>1, <1>2, <1>3, <1>4, <1>5 DEF Acquire

LEMMA OwnersBegun == OwnerInv /\ JevInv => owners \subseteq Begun
  BY DEF OwnerInv, OwnerOK, Begun, Live, JevInv, JevTypeOK

LEMMA OwnerNext == JevInv /\ TypeInv /\ OwnerInv /\ [JevNext]_jevVars => OwnerInv'
<1> SUFFICES ASSUME JevInv, TypeInv, OwnerInv, [JevNext]_jevVars, NEW c \in Claims
             PROVE  /\ c \in owners' => OwnerOK(c)'
                    /\ c \in Begun' /\ c \notin owners' => pc'[c] \in {"waiting", "done"}
                    /\ c \notin Begun' => promise'[c] # Open
  BY DEF OwnerInv
<1>0. /\ c \in owners => OwnerOK(c)
      /\ c \in Begun /\ c \notin owners => pc[c] \in {"waiting", "done"}
      /\ c \notin Begun => promise[c] # Open
      /\ Use \/ UNCHANGED vars
      /\ Open \notin Answer /\ Broken \notin Answer /\ Open # Broken
  BY Uses, NoneAssumption DEF OwnerInv
<1>1. CASE c \in Begun
  <2>1. ~\E t \in Threads : Taking(t, c)
    BY <1>1, TakingShape DEF Taking, Begun
  <2>2. c \in owners' <=> c \in owners
    BY <2>1, OwnersMove
  <2>3. ClaimMove(c) /\ flight'[c] = flight[c] /\ c \in Begun'
    BY <1>0, <1>1, BegunMoves, BegunStays
  <2>4. CASE c \in owners
    <3>1. OwnerOK(c)
      BY <1>0, <2>4
    <3> QED  BY <1>0, <2>2, <2>3, <2>4, <3>1 DEF ClaimMove, OwnerOK, Live
  <2>5. CASE c \notin owners
    BY <1>0, <1>1, <2>2, <2>3, <2>5 DEF ClaimMove
  <2> QED  BY <2>4, <2>5
<1>2. CASE c \notin Begun
  <2>1. c \notin owners
    BY <1>2, OwnersBegun
  <2>2. ASSUME NEW t \in Threads, Taking(t, c)
        PROVE  /\ c \in owners' => OwnerOK(c)'
               /\ c \in Begun' /\ c \notin owners' => pc'[c] \in {"waiting", "done"}
               /\ c \notin Begun' => promise'[c] # Open
    <3>1. \/ c \in owners' /\ pc'[c] = "owner" /\ promise'[c] = Open /\ flight'[c] = c
          \/ c \notin owners' /\ pc'[c] = "waiting"
      BY <1>0, <1>2, <2>1, <2>2, Taken
    <3>2. c \in Begun'
      BY <3>1 DEF Begun
    <3> QED  BY <1>0, <3>1, <3>2 DEF OwnerOK, Live
  <2>3. CASE ~\E t \in Threads : Taking(t, c)
    <3>1. c \notin Begun' /\ promise'[c] = promise[c] /\ c \notin owners'
      BY <1>2, <2>1, <2>3, FreshMoves, OwnersMove
    <3> QED  BY <1>0, <1>2, <3>1
  <2> QED  BY <2>2, <2>3
<1> QED  BY <1>1, <1>2

(* A claim becomes live only when a thread takes it. *)
LEMMA LiveOnce ==
  ASSUME JevInv, TypeInv, [JevNext]_jevVars, NEW c \in Claims, pc'[c] \in Live
  PROVE  pc[c] \in Live \/ \E t \in Threads : Taking(t, c)
<1>1. CASE c \in Begun
  <2>1. ClaimMove(c)
    BY <1>1, Uses, BegunMoves
  <2> QED  BY <2>1 DEF ClaimMove, Live
<1>2. CASE c \notin Begun
  BY <1>2, FreshMoves DEF Live, Begun
<1> QED  BY <1>1, <1>2

(***************************************************************************)
(* A claim belongs to one slot: its rows, its pack and its jobs.           *)
(***************************************************************************)
Has(s, c) == \/ c \in ToSet(rows[s]) \/ c \in ToSet(pack[s])
             \/ \E i \in 1 .. Len(jobs[s]) : c \in ToSet(jobs[s][i].refs)

HomeInv == \A c \in Claims : /\ \A s \in Slots : Has(s, c) => c \in Begun
                             /\ \A s, q \in Slots : Has(s, c) /\ Has(q, c) => s = q

LEMMA PacksFrom ==
  ASSUME JevInv, NEW s \in Slots, NEW i \in 1 .. Len(Packs(s)), Len(Packs(s)) \in Nat,
         NEW c \in ToSet(Packs(s)[i])
  PROVE  c \in ToSet(pack[s])
<1> DEFINE n == Len(pack[s])
           q == (n + BatchSize - 1) \div BatchSize
           lo(k) == (k - 1) * BatchSize + 1
           hi(k) == IF k * BatchSize < n THEN k * BatchSize ELSE n
<1>1. pack[s] \in Seq(Claims) /\ n \in Nat /\ BatchSize \in Nat \ {0}
  BY JevAssumption DEF JevInv, JevTypeOK
<1>2. pack[s] # <<>> /\ n \in Nat \ {0}
  BY <1>1, NoPacks
<1>3. q \in 1 .. n /\ \A k \in 1 .. q : lo(k) \in 1 .. n
  <2> HIDE DEF n
  <2> QED  BY <1>1, <1>2, RoundUp
<1>4. Packs(s) = [k \in 1 .. q |-> SubSeq(pack[s], lo(k), hi(k))]
  BY DEF Packs
<1> HIDE DEF q, lo
<1>5. i \in 1 .. q
  BY <1>3, <1>4
<1>6. hi(i) \in 0 .. n
  <2> HIDE DEF n
  <2>1. i * BatchSize \in Nat
    BY <1>1, <1>3, <1>5
  <2> QED  BY <1>1, <2>1
<1> HIDE DEF hi
<1>7. Packs(s)[i] = SubSeq(pack[s], lo(i), hi(i)) /\ lo(i) \in 1 .. n
  BY <1>3, <1>4, <1>5
<1> DEFINE l == lo(i)
           h == hi(i)
<1>8. l \in 1 .. n /\ h \in 0 .. n /\ Packs(s)[i] = SubSeq(pack[s], l, h)
  BY <1>6, <1>7
<1> HIDE DEF l, h
<1>9. \A k \in l .. h : pack[s][k] \in Claims
  BY <1>1, <1>8
<1>10. /\ SubSeq(pack[s], l, h) \in Seq(Claims)
       /\ \A k \in 1 .. Len(SubSeq(pack[s], l, h)) :
            l + k - 1 \in 1 .. n /\ SubSeq(pack[s], l, h)[k] = pack[s][l + k - 1]
  BY <1>1, <1>8, <1>9, SubSeqProperties
<1> DEFINE sub == SubSeq(pack[s], l, h)
<1>11. sub \in Seq(Claims) /\ c \in ToSet(sub)
  BY <1>8, <1>10
<1>12. \A k \in 1 .. Len(sub) : l + k - 1 \in 1 .. n /\ sub[k] = pack[s][l + k - 1]
  BY <1>10
<1> HIDE DEF sub
<1>13. PICK k \in 1 .. Len(sub) : c = sub[k]
  BY <1>11 DEF ToSet
<1> QED  BY <1>1, <1>12, <1>13 DEF ToSet

(***************************************************************************)
(* Where a step takes what a slot has after it.                            *)
(***************************************************************************)
LEMMA EmptySet == ToSet(<<>>) = {}
  BY DEF ToSet

LEMMA AppendSet ==
  ASSUME NEW S, NEW q \in Seq(S), NEW x \in S PROVE ToSet(Append(q, x)) = ToSet(q) \cup {x}
<1> DEFINE n == Len(q)
<1>1. /\ Append(q, x) \in Seq(S) /\ Len(Append(q, x)) = n + 1 /\ n \in Nat
      /\ \A i \in 1 .. n : Append(q, x)[i] = q[i]
      /\ Append(q, x)[n + 1] = x
  BY AppendProperties
<1>2. DOMAIN q = 1 .. n /\ DOMAIN Append(q, x) = 1 .. n + 1
  BY <1>1
<1> DEFINE a == Append(q, x)
<1> HIDE DEF n, a
<1>3. ToSet(q) \cup {x} \subseteq ToSet(a)
  BY <1>1, <1>2 DEF ToSet, a
<1>4. \A i \in 1 .. n + 1 : i \in 1 .. n \/ i = n + 1
  BY <1>1
<1>5. ToSet(a) \subseteq ToSet(q) \cup {x}
  BY <1>1, <1>2, <1>4 DEF ToSet, a
<1> QED  BY <1>3, <1>5 DEF a

LEMMA TailSet ==
  ASSUME NEW S, NEW q \in Seq(S), q # <<>>
  PROVE  Tail(q) \in Seq(S) /\ Head(q) \in S /\ ToSet(q) = ToSet(Tail(q)) \cup {Head(q)}
<1> DEFINE m == Len(q) - 1
           r == Tail(q)
<1>1. /\ r \in Seq(S) /\ Len(r) = m /\ m \in Nat /\ Len(q) = m + 1
      /\ \A i \in 1 .. m : r[i] = q[i + 1]
      /\ Head(q) = q[1] /\ Head(q) \in S
  BY HeadTailProperties
<1>2. DOMAIN q = 1 .. m + 1 /\ DOMAIN r = 1 .. m
  BY <1>1
<1> HIDE DEF m, r
<1>3. ToSet(q) = { q[i] : i \in 1 .. m + 1 } /\ ToSet(r) = { r[i] : i \in 1 .. m }
  BY <1>2 DEF ToSet
<1>4. ASSUME NEW x \in ToSet(r) PROVE x \in ToSet(q)
  <2>1. PICK i \in 1 .. m : x = r[i]
    BY <1>3
  <2>2. i + 1 \in 1 .. m + 1 /\ x = q[i + 1]
    BY <1>1, <2>1
  <2> QED  BY <1>3, <2>2
<1>5. ASSUME NEW x \in ToSet(q), x # Head(q) PROVE x \in ToSet(r)
  <2>1. PICK i \in 1 .. m + 1 : x = q[i]
    BY <1>3
  <2>2. i - 1 \in 1 .. m /\ r[i - 1] = q[(i - 1) + 1] /\ (i - 1) + 1 = i
    BY <1>1, <1>5, <2>1
  <2> QED  BY <1>3, <2>1, <2>2
<1>6. Head(q) \in ToSet(q)
  BY <1>1, <1>3
<1> QED  BY <1>1, <1>4, <1>5, <1>6 DEF r

(* Rows. *)
RowStep(s) ==
  \/ rows'[s] = rows[s]
  \/ rows'[s] = <<>>
  \/ rows[s] # <<>> /\ rows'[s] = Tail(rows[s])
  \/ \E t \in Threads, c \in Claims :
       Taking(t, c) /\ s = Slot(t) /\ rows'[s] = Append(rows[s], c)

LEMMA RowShape ==
  ASSUME JevInv, TypeInv, [JevNext]_jevVars, NEW s \in Slots PROVE RowStep(s)
<1> USE DEF RowStep
<1>0. rows \in [Slots -> Seq(Claims)]
  BY DEF JevInv, JevTypeOK
<1>1. CASE rows' = rows
  BY <1>1
<1>2. ASSUME NEW q \in Slots, DropRow(q) PROVE RowStep(s)
  BY <1>0, <1>2 DEF DropRow
<1>3. ASSUME NEW t \in Threads, ThreadStep(t) PROVE RowStep(s)
  <2>1. CASE EvalAcquire(t) \/ StreamAdd(t)
    <3> DEFINE c == Cur(t).rows[pos[t]]
    <3>1. AcquireRow(t) /\ c \in Claims /\ Slot(t) \in Slots
      BY <2>1, TakingShape
    <3>2. rows' = [rows EXCEPT ![Slot(t)] = Append(@, c)] /\ Taking(t, c)
      BY <2>1, <3>1 DEF AcquireRow, Taking
    <3> HIDE DEF c
    <3> QED  BY <1>0, <3>1, <3>2
  <2>2. CASE Begin(t)
    <3>1. rows' = rows \/ rows' = [rows EXCEPT ![EvalOf(t)] = <<>>]
      BY <2>2 DEF Begin, EvalOf
    <3> QED  BY <1>0, <3>1
  <2>3. CASE EvalUnwind(t) \/ Clear(t)
    BY <1>1, <1>2, <2>3, SlotType DEF EvalUnwind, Clear
  <2>4. CASE EmitRow(t)
    BY <1>0, <2>4 DEF EmitRow
  <2>5. CASE EvalStep(t) /\ ~EvalAcquire(t) /\ ~EvalUnwind(t)
    BY <1>1, <2>5 DEF EvalStep, EvalReserve, EvalSubmit, EvalRefused, EvalJoin, EvalPublish,
                EvalAwait, EvalFails
  <2>6. CASE StreamEmit(t) \/ StreamFlush(t) \/ EmitEnd(t) \/ Resume(t) \/ StreamFails(t) \/ Close(t)
    BY <1>1, <2>6 DEF StreamEmit, StreamFlush, EmitEnd, Resume, StreamFails, Close
  <2> QED  BY <1>3, <2>1, <2>2, <2>3, <2>4, <2>5, <2>6 DEF ThreadStep, StreamStep
<1>4. ASSUME NEW q \in Slots, NEW i \in DOMAIN jobs[q], JobStep(q, i) PROVE rows' = rows
  BY <1>4 DEF JobStep, JobStart, JobAnswered, JobComplete, JobFails, JobError
<1>5. ASSUME NEW c \in Claims, LateDrop(c) PROVE rows' = rows
  BY <1>5 DEF LateDrop, evalVars
<1>6. CASE Interrupt \/ Over \/ UNCHANGED jevVars
  BY <1>1, <1>6 DEF Interrupt, Over, jevVars, evalVars
<1> QED  BY <1>1, <1>3, <1>4, <1>5, <1>6 DEF JevNext

LEMMA RowFrom ==
  ASSUME JevInv, TypeInv, [JevNext]_jevVars, NEW s \in Slots, NEW c \in Claims, c \in ToSet(rows'[s])
  PROVE  c \in ToSet(rows[s]) \/ \E t \in Threads : Taking(t, c) /\ s = Slot(t)
<1>0. rows \in [Slots -> Seq(Claims)]
  BY DEF JevInv, JevTypeOK
<1>1. ASSUME rows[s] # <<>>, rows'[s] = Tail(rows[s]) PROVE c \in ToSet(rows[s])
  BY <1>0, <1>1, TailSet
<1>2. ASSUME NEW t \in Threads, NEW d \in Claims, Taking(t, d), s = Slot(t),
             rows'[s] = Append(rows[s], d)
      PROVE  c \in ToSet(rows[s]) \/ (Taking(t, c) /\ s = Slot(t))
  BY <1>0, <1>2, AppendSet
<1> QED  BY <1>1, <1>2, RowShape, EmptySet DEF RowStep

(* Packs. *)
LEMMA PackTaking ==
  ASSUME JevInv, TypeInv, [JevNext]_jevVars, NEW s \in Slots
  PROVE  \/ pack'[s] = pack[s]
         \/ pack'[s] = <<>>
         \/ \E t \in Threads, c \in Claims :
              Taking(t, c) /\ s = Slot(t) /\ pack'[s] = Append(pack[s], c)
<1>1. CASE \E t \in Threads : EvalAcquire(t) \/ StreamAdd(t)
  <2>1. PICK t \in Threads : EvalAcquire(t) \/ StreamAdd(t)
    BY <1>1
  <2> DEFINE c == Cur(t).rows[pos[t]]
  <2>2. AcquireRow(t) /\ c \in Claims /\ Slot(t) \in Slots
    BY <2>1, TakingShape
  <2>3. (pack' = [pack EXCEPT ![Slot(t)] = Append(@, c)] \/ pack' = pack) /\ Taking(t, c)
    BY <2>1, <2>2 DEF AcquireRow, Taking
  <2> HIDE DEF c
  <2>4. pack \in [Slots -> Seq(Claims)]
    BY DEF JevInv, JevTypeOK
  <2> QED  BY <2>2, <2>3, <2>4
<1>2. CASE ~\E t \in Threads : EvalAcquire(t) \/ StreamAdd(t)
  <2> DEFINE Shape == pack'[s] = pack[s] \/ pack'[s] = <<>>
  <2>0. pack \in [Slots -> Seq(Claims)]
    BY DEF JevInv, JevTypeOK
  <2>1. ASSUME NEW t \in Threads, ThreadStep(t) PROVE Shape
    <3>1. CASE Begin(t)
      <4>1. pack' = pack \/ pack' = [pack EXCEPT ![EvalOf(t)] = <<>>]
        BY <3>1 DEF Begin, EvalOf
      <4> QED  BY <2>0, <4>1
    <3>2. CASE StreamFlush(t) \/ StreamFails(t) \/ Clear(t)
      BY <2>0, <3>2 DEF StreamFlush, StreamFails, Clear
    <3>3. CASE EvalStep(t)
      BY <1>2, <3>3 DEF EvalStep, EvalReserve, EvalSubmit, EvalRefused, EvalJoin, EvalPublish,
                  EvalAwait, EvalFails, EvalUnwind
    <3>4. CASE StreamEmit(t) \/ EmitRow(t) \/ EmitEnd(t) \/ Resume(t) \/ Close(t)
      BY <3>4 DEF StreamEmit, EmitRow, EmitEnd, Resume, Close
    <3> QED  BY <1>2, <2>1, <3>1, <3>2, <3>3, <3>4 DEF ThreadStep, StreamStep
  <2>2. ASSUME NEW q \in Slots, NEW i \in DOMAIN jobs[q], JobStep(q, i) PROVE Shape
    BY <2>2 DEF JobStep, JobStart, JobAnswered, JobComplete, JobFails, JobError
  <2>3. ASSUME NEW c \in Claims, LateDrop(c) PROVE Shape
    BY <2>3 DEF LateDrop, evalVars
  <2>4. CASE Interrupt \/ Over \/ UNCHANGED jevVars
    BY <2>4 DEF Interrupt, Over, jevVars, evalVars
  <2> QED  BY <2>1, <2>2, <2>3, <2>4 DEF JevNext
<1> QED  BY <1>1, <1>2

(* Jobs. *)
JobFrom(s, refs) == \/ \E k \in 1 .. Len(jobs[s]) : refs = jobs[s][k].refs
                    \/ ToSet(refs) \subseteq ToSet(pack[s])

LEMMA JobShape ==
  ASSUME JevInv, TypeInv, [JevNext]_jevVars, NEW s \in Slots, NEW i \in 1 .. Len(jobs'[s])
  PROVE  JobFrom(s, jobs'[s][i].refs)
<1> USE DEF JobFrom
<1>0. JobsInv /\ \A q \in Slots : jobs[q] \in Seq(GoodJob)
  BY DEF JevInv, JobsInv
<1>1. CASE jobs'[s] = jobs[s]
  BY <1>1
<1>2. ASSUME NEW q \in Seq(GoodJob), NEW refs \in Seq(Claims) \ {<<>>}, jobs'[s] = Append(q, NewJob(refs)),
             \A k \in 1 .. Len(q) : \E n \in 1 .. Len(jobs[s]) : q[k] = jobs[s][n],
             ToSet(refs) \subseteq ToSet(pack[s])
      PROVE  JobFrom(s, jobs'[s][i].refs)
  <2> DEFINE r == Append(q, NewJob(refs))
  <2>1. /\ r \in Seq(GoodJob) /\ Len(r) = Len(q) + 1 /\ Len(q) \in Nat
        /\ \A k \in 1 .. Len(q) : r[k] = q[k]
        /\ r[Len(q) + 1] = NewJob(refs)
    BY <1>2, NewJobType, AppendProperties
  <2>2. NewJob(refs).refs = refs
    BY DEF NewJob
  <2>3. jobs'[s] = r
    BY <1>2
  <2> HIDE DEF r
  <2>4. i \in 1 .. Len(q) \/ i = Len(q) + 1
    BY <2>1, <2>3
  <2> QED  BY <1>2, <2>1, <2>2, <2>3, <2>4
<1>3. ASSUME NEW t \in Threads, Begin(t) PROVE jobs'[s] = jobs[s] \/ jobs'[s] = <<>>
  <2>1. jobs' = jobs \/ jobs' = [jobs EXCEPT ![EvalOf(t)] = <<>>]
    BY <1>3 DEF Begin, jobVars, EvalOf
  <2> QED  BY <2>1 DEF JevInv, JobsInv
<1>4. ASSUME NEW t \in Threads, EvalSubmit(t) PROVE JobFrom(s, jobs'[s][i].refs)
  <2> DEFINE q == Slot(t)
  <2>0. q \in Slots /\ pos[t] \in Nat \ {0}
    BY SlotType DEF JevInv, JevTypeOK
  <2>1. CASE jobs' = jobs \/ q # s
    BY <1>0, <1>1, <1>4, <2>1 DEF EvalSubmit, JobsInv
  <2>2. CASE /\ pos[t] <= Len(Packs(q)) /\ q = s
             /\ jobs' = [jobs EXCEPT ![q] = Append(@, NewJob(Packs(q)[pos[t]]))]
    <3>1. pack[s] # <<>>
      BY <2>0, <2>2, NoPacks
    <3> DEFINE refs == Packs(s)[pos[t]]
               R == Seq(Claims) \ {<<>>}
    <3>2. Packs(s) \in Seq(R)
      BY <3>1, PacksType
    <3> HIDE DEF R
    <3>3. refs \in R /\ Len(Packs(s)) \in Nat /\ pos[t] \in 1 .. Len(Packs(s))
      BY <2>0, <2>2, <3>2
    <3>4. ToSet(refs) \subseteq ToSet(pack[s])
      BY <3>3, PacksFrom
    <3>5. jobs'[s] = Append(jobs[s], NewJob(refs))
      BY <1>0, <2>2 DEF JobsInv
    <3> HIDE DEF refs
    <3> QED  BY <1>0, <1>2, <3>3, <3>4, <3>5 DEF R
  <2> QED  BY <1>4, <2>1, <2>2 DEF EvalSubmit
<1>5. ASSUME NEW t \in Threads, StreamFlush(t) \/ EmitEnd(t) PROVE JobFrom(s, jobs'[s][i].refs)
  <2> DEFINE q == Slot(t)
  <2>0. q \in Slots /\ pack[q] \in Seq(Claims)
    BY SlotType DEF JevInv, JevTypeOK
  <2>1. \/ jobs' = jobs
        \/ jobs' = [jobs EXCEPT ![q] = Reaped(q)]
        \/ pack[q] # <<>> /\ jobs' = [jobs EXCEPT ![q] = Append(Reaped(q), NewJob(pack[q]))]
    BY <1>5 DEF StreamFlush, EmitEnd
  <2> HIDE DEF q
  <2>2. /\ Reaped(s) \in Seq(GoodJob)
        /\ \A k \in 1 .. Len(Reaped(s)) : \E n \in 1 .. Len(jobs[s]) : Reaped(s)[k] = jobs[s][n]
    BY <1>0, ReapedFrom
  <2>3. CASE jobs' = jobs \/ q # s
    BY <1>1, <2>1, <2>3 DEF JevInv, JobsInv
  <2>4. CASE jobs' = [jobs EXCEPT ![q] = Reaped(q)] /\ q = s
    <3>1. jobs'[s] = Reaped(s)
      BY <2>4 DEF JevInv, JobsInv
    <3> QED  BY <2>2, <3>1
  <2>5. CASE pack[q] # <<>> /\ q = s /\ jobs' = [jobs EXCEPT ![q] = Append(Reaped(q), NewJob(pack[q]))]
    <3>1. jobs'[s] = Append(Reaped(s), NewJob(pack[s])) /\ pack[s] \in Seq(Claims) \ {<<>>}
      BY <2>0, <2>5 DEF JevInv, JobsInv
    <3> QED  BY <1>2, <2>2, <3>1
  <2> QED  BY <2>1, <2>3, <2>4, <2>5
<1>6. ASSUME NEW q \in Slots, NEW n \in DOMAIN jobs[q], NEW job, OneJob(q, n, job),
             job.refs = jobs[q][n].refs
      PROVE  JobFrom(s, jobs'[s][i].refs)
  BY <1>0, <1>6 DEF OneJob
<1>7. ASSUME NEW q \in Slots, NEW n \in DOMAIN jobs[q], JobStep(q, n)
      PROVE  JobFrom(s, jobs'[s][i].refs)
  <2>0. jobs[q][n] \in GoodJob
    BY <1>0
  <2>1. ASSUME NEW state, SetJob(q, n, state) PROVE JobFrom(s, jobs'[s][i].refs)
    <3>1. [jobs[q][n] EXCEPT !.state = state].refs = jobs[q][n].refs
      BY <2>0 DEF GoodJob
    <3>2. OneJob(q, n, [jobs[q][n] EXCEPT !.state = state])
      BY <1>0, <2>1, SetIsOne
    <3> QED  BY <1>6, <3>1, <3>2
  <2>2. CASE JobComplete(q, n)
    <3> DEFINE later == [jobs[q][n] EXCEPT !.next = @ + 1]
    <3>1. UNCHANGED jobs \/ SetJob(q, n, "done") \/ PutJob(q, n, later)
      BY <2>2 DEF JobComplete
    <3>2. later.refs = jobs[q][n].refs
      BY <2>0 DEF GoodJob
    <3> HIDE DEF later
    <3> QED  BY <1>0, <1>1, <1>6, <2>1, <3>1, <3>2, PutIsOne
  <2>3. CASE JobStart(q, n) \/ JobAnswered(q, n) \/ JobFails(q, n) \/ JobError(q, n)
    BY <2>1, <2>3 DEF JobStart, JobAnswered, JobFails, JobError
  <2> QED  BY <1>7, <2>2, <2>3 DEF JobStep
<1>8. ASSUME NEW t \in Threads, ThreadStep(t), ~Begin(t), ~EvalSubmit(t), ~StreamFlush(t), ~EmitEnd(t)
      PROVE  jobs' = jobs
  <2>1. CASE EvalStep(t)
    BY <1>8, <2>1 DEF EvalStep, EvalAcquire, EvalReserve, EvalRefused, EvalJoin, EvalPublish,
                      EvalAwait, EvalFails, EvalUnwind, jobVars
  <2>2. CASE StreamStep(t)
    BY <1>8, <2>2 DEF StreamStep, StreamAdd, StreamEmit, EmitRow, Resume, StreamFails, jobVars
  <2>3. CASE Close(t) \/ Clear(t)
    BY <2>3 DEF Close, Clear, jobVars
  <2> QED  BY <1>8, <2>1, <2>2, <2>3 DEF ThreadStep
<1>9. ASSUME NEW c \in Claims, LateDrop(c) PROVE jobs' = jobs
  BY <1>9 DEF LateDrop, evalVars, jobVars
<1>10. CASE Interrupt \/ Over \/ UNCHANGED jevVars
  BY <1>1, <1>10 DEF Interrupt, Over, jevVars, evalVars, jobVars
<1>11. CASE jobs'[s] = <<>>
  BY <1>11
<1> QED  BY <1>1, <1>3, <1>4, <1>5, <1>7, <1>8, <1>9, <1>10, <1>11 DEF JevNext

(* Two threads do not take a row in one step. *)
LEMMA OneTaking ==
  ASSUME JevInv, TypeInv, NEW c \in Claims, NEW t \in Threads, NEW u \in Threads,
         Taking(t, c), Taking(u, c)
  PROVE  Slot(t) = Slot(u)
<1>0. rows \in [Slots -> Seq(Claims)]
  BY DEF JevInv, JevTypeOK
<1>1. ASSUME NEW v \in Threads, Taking(v, c)
      PROVE  Slot(v) \in Slots /\ rows' = [rows EXCEPT ![Slot(v)] = Append(@, c)]
  BY <1>1, TakingShape DEF Taking, AcquireRow
<1>2. Append(rows[Slot(t)], c) # rows[Slot(t)]
  BY <1>0, <1>1, AppendProperties
<1> QED  BY <1>0, <1>1, <1>2

LEMMA HomeNext == JevInv /\ TypeInv /\ HomeInv /\ [JevNext]_jevVars => HomeInv'
<1> SUFFICES ASSUME JevInv, TypeInv, HomeInv, [JevNext]_jevVars PROVE HomeInv'
  OBVIOUS
<1>0. rows \in [Slots -> Seq(Claims)] /\ pack \in [Slots -> Seq(Claims)]
  BY DEF JevInv, JevTypeOK
<1>1. ASSUME NEW c \in Claims, NEW s \in Slots, Has(s, c)'
      PROVE  Has(s, c) \/ \E t \in Threads : Taking(t, c) /\ s = Slot(t)
  <2>1. CASE c \in ToSet(rows'[s])
    BY <2>1, RowFrom DEF Has
  <2>2. CASE c \in ToSet(pack'[s])
    <3>2. ASSUME NEW t \in Threads, NEW d \in Claims, Taking(t, d), s = Slot(t),
                 pack'[s] = Append(pack[s], d)
          PROVE  Has(s, c) \/ (Taking(t, c) /\ s = Slot(t))
      BY <1>0, <2>2, <3>2, AppendSet DEF Has
    <3> QED  BY <2>2, <3>2, PackTaking, EmptySet DEF Has
  <2>3. ASSUME NEW i \in 1 .. Len(jobs'[s]), c \in ToSet(jobs'[s][i].refs) PROVE Has(s, c)
    BY <2>3, JobShape DEF JobFrom, Has
  <2> QED  BY <1>1, <2>1, <2>2, <2>3 DEF Has
<1>2. ASSUME NEW c \in Claims, c \in Begun, NEW s \in Slots, Has(s, c)' PROVE Has(s, c)
  BY <1>1, <1>2, TakingShape DEF Taking, Begun
<1>3. ASSUME NEW c \in Claims, c \notin Begun
      PROVE  /\ \A s \in Slots : Has(s, c)' => c \in Begun'
             /\ \A s, q \in Slots : Has(s, c)' /\ Has(q, c)' => s = q
  <2>1. \A s \in Slots : Has(s, c)' => \E t \in Threads : Taking(t, c) /\ s = Slot(t)
    BY <1>1, <1>3 DEF HomeInv
  <2>2. \A t \in Threads : Taking(t, c) => c \in Begun'
    BY TakingShape DEF Taking, Begun
  <2>3. \A t, u \in Threads : Taking(t, c) /\ Taking(u, c) => Slot(t) = Slot(u)
    BY OneTaking
  <2> QED  BY <2>1, <2>2, <2>3
<1>4. ASSUME NEW c \in Claims, c \in Begun
      PROVE  /\ \A s \in Slots : Has(s, c)' => c \in Begun'
             /\ \A s, q \in Slots : Has(s, c)' /\ Has(q, c)' => s = q
  <2>1. c \in Begun'
    BY <1>4, Uses, BegunStays
  <2> QED  BY <1>2, <1>4, <2>1 DEF HomeInv
<1> QED  BY <1>3, <1>4 DEF HomeInv

(***************************************************************************)
(* Who publishes: a stream's job, or the thread of a chunk, is at the claim *)
(* whose answer is on its way out.                                          *)
(***************************************************************************)
ByJob(s, i, c) == /\ s[2] = "stream" /\ i \in 1 .. Len(jobs[s])
                  /\ jobs[s][i].state = "completing"
                  /\ jobs[s][i].refs[jobs[s][i].next] = c

ByThread(t, c) == /\ phase[t] = "publish" /\ pos[t] <= Len(pack[EvalOf(t)])
                  /\ pack[EvalOf(t)][pos[t]] = c

PubInv ==
  \A c \in Claims : pc[c] \in {"stored", "set"} =>
    (\E s \in Slots : \E i \in 1 .. Len(jobs[s]) : ByJob(s, i, c)) \/ \E t \in Threads : ByThread(t, c)

(* Complete, once at a row, does not leave it before the row is done. *)
LEMMA CompleteOnce ==
  ASSUME TypeInv, NEW c \in Claims, CompleteStep(c), pc'[c] \in {"stored", "set"}
  PROVE  pc[c] # "set"
  BY DEF CompleteStep, Store, SetValue, Release, TypeInv, TypeOK

(* The jobs that move: all but the one that completes keep their claim. *)
LEMMA JobStays ==
  ASSUME JevInv, TypeInv, SaidInv, OpInv, [JevNext]_jevVars, NEW c \in Claims,
         {pc[c], pc'[c]} \subseteq {"stored", "set"},
         NEW s \in Slots, NEW i \in 1 .. Len(jobs[s]), ByJob(s, i, c)
  PROVE  i \in 1 .. Len(jobs'[s]) /\ ByJob(s, i, c)'
<1> USE DEF ByJob
<1>0. JobsInv /\ \A q \in Slots : jobs[q] \in Seq(GoodJob)
  BY DEF JevInv, JobsInv
<1> DEFINE Goal == i \in 1 .. Len(jobs'[s]) /\ ByJob(s, i, c)'
<1>1. ASSUME jobs'[s] = jobs[s] PROVE Goal
  BY <1>1
<1>2. Locked(s) /\ s[2] = "stream"
  BY <1>0 DEF Locked
<1>3. ASSUME NEW t \in Threads, ThreadStep(t) PROVE Goal
  <2>1. CASE Begin(t)
    <3>1. jobs' = jobs \/ jobs' = [jobs EXCEPT ![EvalOf(t)] = <<>>]
      BY <2>1 DEF Begin, jobVars, EvalOf
    <3> QED  BY <1>0, <1>1, <1>2, <3>1 DEF EvalOf, JobsInv
  <2>2. CASE EvalSubmit(t)
    <3>1. Slot(t) = EvalOf(t)
      BY <2>2, EvalSlot DEF EvalSubmit, EvalPhases
    <3>2. Slot(t) # s
      BY <1>2, <3>1 DEF EvalOf
    <3> QED  BY <1>0, <1>1, <2>2, <3>2 DEF EvalSubmit, JobsInv
  <2>3. CASE StreamFlush(t) \/ EmitEnd(t)
    <3>1. jobs' = jobs \/ Slot(t) # s
      BY <1>2, <2>3 DEF StreamFlush, EmitEnd, Check
    <3> QED  BY <1>0, <1>1, <2>3, <3>1 DEF StreamFlush, EmitEnd, JobsInv
  <2>4. CASE EvalStep(t) /\ ~EvalSubmit(t)
    BY <1>1, <2>4 DEF EvalStep, EvalAcquire, EvalReserve, EvalRefused, EvalJoin, EvalPublish,
                      EvalAwait, EvalFails, EvalUnwind, jobVars
  <2>5. CASE StreamStep(t) /\ ~StreamFlush(t) /\ ~EmitEnd(t)
    BY <1>1, <2>5 DEF StreamStep, StreamAdd, StreamEmit, EmitRow, Resume, StreamFails, jobVars
  <2>6. CASE Close(t) \/ Clear(t)
    BY <1>1, <2>6 DEF Close, Clear, jobVars
  <2> QED  BY <1>3, <2>1, <2>2, <2>3, <2>4, <2>5, <2>6 DEF ThreadStep
<1>4. ASSUME NEW q \in Slots, NEW k \in DOMAIN jobs[q], NEW job, OneJob(q, k, job), ~(q = s /\ k = i)
      PROVE  Goal
  BY <1>0, <1>4 DEF OneJob
<1>5. ASSUME NEW q \in Slots, NEW k \in DOMAIN jobs[q], JobStep(q, k) PROVE Goal
  <2>1. CASE q = s /\ k = i
    <3>1. ~JobStart(q, k) /\ ~JobAnswered(q, k) /\ ~JobFails(q, k) /\ ~JobError(q, k)
      BY <2>1 DEF JobStart, JobAnswered, JobFails, JobError
    <3>2. JobComplete(q, k)
      BY <1>5, <3>1 DEF JobStep
    <3>3. CompleteStep(c)
      BY <2>1, <3>2 DEF JobComplete
    <3>4. pc[c] # "set"
      BY <3>3, CompleteOnce
    <3> QED  BY <1>1, <2>1, <3>2, <3>4 DEF JobComplete
  <2>2. CASE ~(q = s /\ k = i)
    <3>1. ASSUME NEW state, SetJob(q, k, state) PROVE Goal
      BY <1>0, <1>4, <2>2, <3>1, SetIsOne
    <3>2. ASSUME NEW job, PutJob(q, k, job) PROVE Goal
      BY <1>0, <1>4, <2>2, <3>2, PutIsOne
    <3> HIDE DEF Goal
    <3>3. CASE JobComplete(q, k)
      <4>1. UNCHANGED jobs \/ SetJob(q, k, "done") \/ \E job : PutJob(q, k, job)
        BY <3>3 DEF JobComplete
      <4> QED  BY <1>1, <3>1, <3>2, <4>1
    <3>4. CASE JobStart(q, k) \/ JobAnswered(q, k) \/ JobFails(q, k) \/ JobError(q, k)
      BY <3>1, <3>4 DEF JobStart, JobAnswered, JobFails, JobError
    <3> QED  BY <1>5, <3>3, <3>4 DEF JobStep
  <2> QED  BY <2>1, <2>2
<1>6. ASSUME NEW d \in Claims, LateDrop(d) PROVE jobs' = jobs
  BY <1>6 DEF LateDrop, evalVars, jobVars
<1>7. CASE Interrupt \/ Over \/ UNCHANGED jevVars
  BY <1>1, <1>7 DEF Interrupt, Over, jevVars, evalVars, jobVars
<1> QED  BY <1>1, <1>3, <1>5, <1>6, <1>7 DEF JevNext

LEMMA NotThread ==
  ASSUME [JevNext]_jevVars, ~\E t \in Threads : ThreadStep(t)
  PROVE  UNCHANGED <<phase, pos, rows, pack>>
<1>1. ASSUME NEW q \in Slots, NEW k \in DOMAIN jobs[q], JobStep(q, k)
      PROVE  UNCHANGED <<phase, pos, rows, pack>>
  BY <1>1 DEF JobStep, JobStart, JobAnswered, JobComplete, JobFails, JobError, control
<1>2. ASSUME NEW d \in Claims, LateDrop(d) PROVE UNCHANGED <<phase, pos, rows, pack>>
  BY <1>2 DEF LateDrop, evalVars, control
<1>3. CASE Interrupt \/ Over \/ UNCHANGED jevVars
  BY <1>3 DEF Interrupt, Over, jevVars, evalVars, control
<1> QED  BY <1>1, <1>2, <1>3 DEF JevNext

LEMMA ThreadStays ==
  ASSUME JevInv, TypeInv, OpInv, [JevNext]_jevVars, NEW c \in Claims,
         {pc[c], pc'[c]} \subseteq {"stored", "set"}, NEW t \in Threads, ByThread(t, c)
  PROVE  ByThread(t, c)'
<1> DEFINE s == EvalOf(t)
<1>0. phase[t] = "publish" /\ phase[t] \in EvalPhases /\ Slot(t) = EvalOf(t)
  BY EvalSlot DEF ByThread, EvalPhases
<1>1. ASSUME phase'[t] = phase[t], pos'[t] = pos[t], pack'[s] = pack[s] PROVE ByThread(t, c)'
  BY <1>1 DEF ByThread, EvalOf
<1>2. ASSUME NEW u \in Threads, u # t, ThreadStep(u) PROVE ByThread(t, c)'
  BY <1>1, <1>2, OtherChunk
<1>3. CASE ThreadStep(t)
  <2>1. EvalPublish(t)
    BY <1>0, <1>3 DEF ThreadStep, EvalStep, StreamStep, Begin, EvalAcquire, EvalReserve, EvalSubmit,
         EvalRefused, EvalJoin, EvalAwait, EvalFails, EvalUnwind, StreamAdd, StreamEmit, StreamFlush,
         EmitRow, EmitEnd, Resume, StreamFails, Close, Clear
  <2>2. pos[t] <= Len(pack[Slot(t)]) /\ pack[Slot(t)][pos[t]] = c
    BY <1>0 DEF ByThread
  <2>3. CompleteStep(c) /\ (pc[c] # "set" => pos' = pos) /\ phase' = phase /\ pack' = pack
    BY <2>1, <2>2 DEF EvalPublish
  <2> QED  BY <1>1, <2>3, CompleteOnce
<1>4. CASE ~\E u \in Threads : ThreadStep(u)
  BY <1>1, <1>4, NotThread
<1> QED  BY <1>2, <1>3, <1>4

LEMMA PubNext == JevInv /\ TypeInv /\ SaidInv /\ OpInv /\ PubInv /\ [JevNext]_jevVars => PubInv'
<1> SUFFICES ASSUME JevInv, TypeInv, SaidInv, OpInv, PubInv, [JevNext]_jevVars,
                    NEW c \in Claims, pc'[c] \in {"stored", "set"}
             PROVE  \/ \E s \in Slots : \E i \in 1 .. Len(jobs'[s]) : ByJob(s, i, c)'
                    \/ \E t \in Threads : ByThread(t, c)'
  BY DEF PubInv
<1>1. CASE pc[c] \in {"stored", "set"}
  <2>1. \/ \E s \in Slots : \E i \in 1 .. Len(jobs[s]) : ByJob(s, i, c)
        \/ \E t \in Threads : ByThread(t, c)
    BY <1>1 DEF PubInv
  <2> QED  BY <1>1, <2>1, JobStays, ThreadStays
<1>2. CASE pc[c] \notin {"stored", "set"}
  <2>1. Storing(c)
    <3>1. CASE c \in Begun
      <4>1. ClaimMove(c)
        BY <3>1, Uses, BegunMoves
      <4> QED  BY <1>2, <4>1 DEF ClaimMove, Storing
    <3>2. CASE c \notin Begun
      <4>1. ASSUME NEW t \in Threads, Taking(t, c) PROVE FALSE
        BY <4>1, TakingShape DEF Taking
      <4> QED  BY <3>2, <4>1, FreshMoves DEF Begun
    <3> QED  BY <3>1, <3>2
  <2>2. ASSUME NEW t \in Threads, EvalPublish(t), pos[t] <= Len(pack[Slot(t)]),
               c = pack[Slot(t)][pos[t]]
        PROVE  ByThread(t, c)'
    <3>1. phase[t] = "publish" /\ Slot(t) = EvalOf(t)
      BY <2>2, EvalSlot DEF EvalPublish, EvalPhases
    <3>2. phase' = phase /\ pos' = pos /\ pack' = pack
      BY <2>1, <2>2 DEF EvalPublish, Storing
    <3> QED  BY <2>2, <3>1, <3>2 DEF ByThread, EvalOf
  <2>3. ASSUME NEW s \in Slots, NEW i \in DOMAIN jobs[s], JobComplete(s, i),
               c = jobs[s][i].refs[jobs[s][i].next]
        PROVE  i \in 1 .. Len(jobs'[s]) /\ ByJob(s, i, c)'
    <3>1. jobs' = jobs /\ jobs[s][i].state = "completing" /\ i \in 1 .. Len(jobs[s])
      BY <2>1, <2>3 DEF JobComplete, Storing, JevInv, JobsInv
    <3>2. s[2] = "stream"
      BY <3>1 DEF SaidInv, JobSaid, Says
    <3> QED  BY <2>3, <3>1, <3>2 DEF ByJob
  <2> QED  BY <2>1, <2>2, <2>3, StoringIsCompleting
<1> QED  BY <1>1, <1>2

(***************************************************************************)
(* What the owned rows of a chunk wait for: from the row at pos on, they    *)
(* are still to be published; when the followers are awaited, none is left. *)
(***************************************************************************)
Sending == {"acquire", "submit", "join", "publish", "await"}

PackedRow(t, c) ==
  /\ phase[t] # "await"
  /\ \E j \in 1 .. Len(pack[EvalOf(t)]) :
       pack[EvalOf(t)][j] = c /\ (phase[t] = "publish" => pos[t] <= j)

PackedInv ==
  \A t \in Threads : \A c \in Claims :
    phase[t] \in Sending /\ c \in ToSet(rows[EvalOf(t)]) /\ pc[c] \in Live => PackedRow(t, c)

LEMMA PackedNext ==
  JevInv /\ TypeInv /\ OpInv /\ OwnerInv /\ HomeInv /\ PackedInv /\ [JevNext]_jevVars => PackedInv'
<1> SUFFICES ASSUME JevInv, TypeInv, OpInv, OwnerInv, HomeInv, PackedInv, [JevNext]_jevVars,
                    NEW t \in Threads, NEW c \in Claims,
                    phase'[t] \in Sending, c \in ToSet(rows'[EvalOf(t)]), pc'[c] \in Live
             PROVE  PackedRow(t, c)'
  BY DEF PackedInv, EvalOf
<1> DEFINE s == EvalOf(t)
<1> USE DEF PackedRow
<1>0. /\ rows \in [Slots -> Seq(Claims)] /\ pack \in [Slots -> Seq(Claims)] /\ s \in Slots
      /\ phase \in [Threads -> Phases] /\ pos \in [Threads -> Nat \ {0}]
  BY DEF JevInv, JevTypeOK, EvalOf, Slots
<1>1. CASE \E u \in Threads : Taking(u, c)
  <2>1. c \notin Begun
    BY <1>1, TakingShape DEF Taking, Begun
  <2>2. c \notin ToSet(rows[s])
    BY <1>0, <2>1 DEF HomeInv, Has
  <2>3. PICK u \in Threads : Taking(u, c) /\ s = Slot(u)
    BY <1>0, <2>2, RowFrom
  <2>4. u = t
    BY <2>3 DEF Slot, EvalOf
  <2>5. EvalAcquire(t)
    <3>1. CASE StreamAdd(t)
      <4>1. Slot(t) = StreamOf(t)
        BY <3>1, StreamSlot DEF StreamAdd, StreamPhases
      <4> QED  BY <2>3, <2>4, <4>1 DEF StreamOf, EvalOf
    <3> QED  BY <2>3, <2>4, <3>1 DEF Taking
  <2>6. phase'[t] = "acquire"
    BY <2>5 DEF EvalAcquire
  <2>7. promise'[c] = Open
    BY <2>1, <2>3, Taken, OwnersBegun DEF OwnerInv, Live
  <2>8. pack' = [pack EXCEPT ![s] = Append(@, c)]
    BY <2>3, <2>4, <2>5, <2>7 DEF EvalAcquire, AcquireRow, Taking
  <2>9. pack'[s] = Append(pack[s], c) /\ Len(pack[s]) \in Nat
    BY <1>0, <2>8
  <2>10. Len(pack'[s]) = Len(pack[s]) + 1 /\ pack'[s][Len(pack[s]) + 1] = c
    BY <1>0, <2>9, AppendProperties
  <2> QED  BY <2>6, <2>9, <2>10 DEF EvalOf
<1>2. CASE ~\E u \in Threads : Taking(u, c)
  <2>1. c \in ToSet(rows[s]) /\ pc[c] \in Live
    BY <1>0, <1>2, RowFrom, LiveOnce
  <2>2. phase[t] \in Sending => PackedRow(t, c)
    BY <2>1 DEF PackedInv
  <2>3. ASSUME phase'[t] = phase[t], pos'[t] = pos[t], pack'[s] = pack[s] PROVE PackedRow(t, c)'
    BY <2>2, <2>3 DEF EvalOf
  <2>4. ASSUME NEW u \in Threads, ThreadStep(u), u # t PROVE PackedRow(t, c)'
    BY <2>3, <2>4, OtherChunk
  <2>5. CASE ~\E u \in Threads : ThreadStep(u)
    BY <2>3, <2>5, NotThread
  <2>6. CASE Begin(t)
    <3> DEFINE op == Calls[t][call[t] + 1].op
    <3>1. Go(t, FirstPhase(op)) /\ (op = "eval" => rows' = [rows EXCEPT ![s] = <<>>])
      BY <2>6 DEF Begin, EvalOf
    <3>2. op # "eval"
      BY <1>0, <3>1, EmptySet
    <3>3. op \in Ops
      <4>0. call \in [Threads -> Nat]
        BY DEF JevInv, JevTypeOK
      <4>1. call[t] + 1 \in DOMAIN Calls[t]
        BY <2>6, <4>0, JevAssumption DEF Begin
      <4> QED  BY <4>1, CallType
    <3> HIDE DEF op
    <3>4. phase'[t] \in {"add", "flushemit"}
      BY <1>0, <3>1, <3>2, <3>3 DEF Go, FirstPhase, BeforeEmit, Ops
    <3> QED  BY <3>4 DEF Sending
  <2>7. CASE EvalAcquire(t)
    <3>1. phase' = phase /\ phase[t] = "acquire"
      BY <2>7 DEF EvalAcquire
    <3>2. pack'[s] = pack[s] \/ \E d \in Claims : pack'[s] = Append(pack[s], d)
      <4>1. AcquireRow(t) /\ Cur(t).rows[pos[t]] \in Claims
        BY <2>7, TakingShape
      <4>2. pack' = pack \/ pack' = [pack EXCEPT ![Slot(t)] = Append(@, Cur(t).rows[pos[t]])]
        BY <4>1 DEF AcquireRow
      <4> QED  BY <1>0, <4>1, <4>2
    <3>3. PackedRow(t, c)
      BY <2>2, <3>1 DEF Sending
    <3>4. PICK j \in 1 .. Len(pack[s]) : pack[s][j] = c
      BY <3>3
    <3>5. ASSUME NEW d \in Claims, pack'[s] = Append(pack[s], d)
          PROVE  j \in 1 .. Len(pack'[s]) /\ pack'[s][j] = c
      <4> DEFINE p == pack[s]
      <4>1. p \in Seq(Claims) /\ pack'[s] = Append(p, d) /\ j \in 1 .. Len(p) /\ p[j] = c
        BY <1>0, <3>4, <3>5
      <4> HIDE DEF p, s
      <4> QED  BY <4>1, AppendProperties
    <3>6. j \in 1 .. Len(pack'[s]) /\ pack'[s][j] = c
      BY <3>2, <3>4, <3>5
    <3> QED  BY <3>1, <3>6 DEF EvalOf
  <2>8. CASE EvalReserve(t) \/ EvalSubmit(t) \/ EvalRefused(t) \/ EvalFails(t) \/ EvalUnwind(t)
    <3>1. (pack' = pack /\ phase[t] \notin {"publish", "await"}) \/ phase'[t] \notin Sending
      BY <1>0, <2>8 DEF EvalReserve, EvalSubmit, EvalRefused, EvalFails, EvalUnwind, Go, Sending
    <3>2. phase'[t] \in {"submit", "join"} /\ phase[t] \in {"acquire", "submit"}
      BY <1>0, <2>8 DEF EvalReserve, EvalSubmit, EvalRefused, EvalFails, EvalUnwind, Go, Sending
    <3> QED  BY <2>2, <3>1, <3>2 DEF Sending, EvalOf
  <2>9. CASE EvalJoin(t)
    <3>1. pack' = pack /\ phase[t] = "join" /\ phase'[t] = "publish" /\ pos'[t] = 1
      BY <1>0, <2>9 DEF EvalJoin, Go, Restart, After, Sending
    <3> QED  BY <2>2, <3>1 DEF Sending, EvalOf
  <2>10. CASE EvalPublish(t)
    <3>1. phase[t] = "publish" /\ Slot(t) = s /\ pack' = pack
      BY <2>10, EvalSlot DEF EvalPublish, EvalPhases
    <3>0. PackedRow(t, c)
      BY <2>2, <3>1 DEF Sending
    <3>2. PICK j \in 1 .. Len(pack[s]) : pack[s][j] = c /\ pos[t] <= j
      BY <3>0, <3>1
    <3> HIDE DEF s
    <3>3. pos[t] <= Len(pack[s]) /\ Len(pack[s]) \in Nat /\ pos[t] \in Nat
      BY <1>0, <3>2
    <3> DEFINE d == pack[s][pos[t]]
    <3>4. phase' = phase /\ CompleteStep(d) /\ (IF pc[d] = "set" THEN NextRow(t) ELSE UNCHANGED pos)
      BY <2>10, <3>1, <3>3 DEF EvalPublish
    <3> HIDE DEF d
    <3>5. CASE pc[d] # "set"
      BY <2>3, <3>1, <3>4, <3>5
    <3>6. CASE pc[d] = "set"
      <4>0. d \in Claims /\ pc \in [Claims -> ClaimPc] /\ pos[t] \in 1 .. Len(pack[s])
        BY <1>0, <3>3 DEF d, s, TypeInv, TypeOK
      <4>4. pc'[d] = "done"
        BY <3>4, <3>6, <4>0 DEF CompleteStep, Store, SetValue, Release
      <4>1. pc'[d] = "done" /\ pos'[t] = pos[t] + 1
        BY <1>0, <3>4, <3>6, <4>4 DEF NextRow
      <4>2. j # pos[t]
        BY <3>2, <4>1 DEF d, Live
      <4>3. pos'[t] <= j
        BY <3>2, <3>3, <4>1, <4>2
      <4> QED  BY <3>1, <3>2, <3>4, <4>3 DEF s
    <3> QED  BY <3>5, <3>6
  <2>11. CASE EvalAwait(t)
    <3>1. phase[t] = "await"
      BY <2>11 DEF EvalAwait
    <3> QED  BY <2>2, <3>1 DEF Sending
  <2>12. CASE StreamStep(t) \/ Close(t) \/ Clear(t)
    <3>1. CASE Resume(t)
      <4>1. Cur(t).op # "eval" /\ Cur(t).op \in Ops
        BY <3>1, CurType DEF OpInv, Resume, JevInv, InCall, StreamPhases
      <4>2. phase'[t] \in {"add", "flushemit"}
        BY <1>0, <3>1, <4>1 DEF Resume, Go, FirstPhase, BeforeEmit, Ops
      <4> QED  BY <4>2 DEF Sending
    <3>2. CASE ~Resume(t)
      BY <1>0, <2>12, <3>2
         DEF StreamStep, StreamAdd, StreamEmit, StreamFlush, AfterFlush, EmitRow, EmitEnd,
             StreamFails, Close, Clear, Go, BeforeEmit, Sending
    <3> QED  BY <3>1, <3>2
  <2> QED  BY <2>4, <2>5, <2>6, <2>7, <2>8, <2>9, <2>10, <2>11, <2>12 DEF ThreadStep, EvalStep
<1> QED  BY <1>1, <1>2

(***************************************************************************)
(* Every live owner is a row of a slot whose thread will unwind or close.   *)
(***************************************************************************)
Alive(s) == IF s[2] = "eval" THEN phase[s[1]] \in EvalPhases ELSE phase[s[1]] # "closed"

RowInv == \A c \in Claims : pc[c] \in Live => \E s \in Slots : c \in ToSet(rows[s]) /\ Alive(s)

LEMMA DropKeeps ==
  ASSUME JevInv, TypeInv, NEW q \in Slots, DropRow(q), NEW s \in Slots, NEW c \in ToSet(rows[s]),
         pc[c] \in Live, pc'[c] \in Live
  PROVE  c \in ToSet(rows'[s])
<1>0. rows \in [Slots -> Seq(Claims)] /\ pc \in [Claims -> ClaimPc]
  BY DEF JevInv, JevTypeOK, TypeInv, TypeOK
<1> DEFINE d == Head(rows[q])
<1>1. CASE rows' = rows
  BY <1>1
<1>2. CASE rows' = [rows EXCEPT ![q] = Tail(@)] /\ rows' # rows
  <2>1. /\ rows[q] # <<>>
        /\ \/ pc[d] = "broken" /\ Release(d)
           \/ pc[d] = "waiting" /\ Leave(d)
           \/ Orphan(d)
           \/ pc[d] = "done"
    BY <1>2 DEF DropRow
  <2>2. d \in Claims /\ ToSet(rows[q]) = ToSet(Tail(rows[q])) \cup {d}
    BY <1>0, <2>1, TailSet
  <2> HIDE DEF d
  <2>3. pc[d] \notin Live \/ pc'[d] \notin Live
    BY <1>0, <2>1, <2>2 DEF Release, Orphan, Live
  <2> QED  BY <1>0, <1>2, <2>2, <2>3
<1> QED  BY <1>1, <1>2 DEF DropRow

(* A row is not emitted before its owner has released it. *)
LEMMA EmitKeeps ==
  ASSUME JevInv, TypeInv, OpInv, OwnerInv, HomeInv, PubInv, NEW t \in Threads, EmitRow(t),
         NEW s \in Slots, NEW c \in ToSet(rows[s]), pc[c] \in Live
  PROVE  c \in ToSet(rows'[s])
<1> DEFINE q == Slot(t)
           d == Head(rows[q])
<1>0. /\ rows \in [Slots -> Seq(Claims)] /\ pack \in [Slots -> Seq(Claims)] /\ q \in Slots
      /\ jobs \in [Slots -> Seq(GoodJob)] /\ pos \in [Threads -> Nat \ {0}]
  BY SlotType DEF JevInv, JevTypeOK, JobsInv
<1>1. /\ rows[q] # <<>> /\ rows' = [rows EXCEPT ![q] = Tail(@)]
      /\ ~Locked(q) /\ promise[flight[d]] \in Answer /\ q = StreamOf(t)
  BY StreamSlot DEF EmitRow, Check, StreamPhases
<1>2. d \in Claims /\ ToSet(rows[q]) = ToSet(Tail(rows[q])) \cup {d}
  BY <1>0, <1>1, TailSet
<1> HIDE DEF d, q
<1>3. pc[d] \notin Live
  <2> SUFFICES ASSUME pc[d] \in Live PROVE FALSE
    OBVIOUS
  <2>1. d \in Begun
    BY <1>2 DEF Begun, Live
  <2>2. d \in owners
    BY <1>2, <2>1 DEF OwnerInv, Live
  <2>3. OwnerOK(d)
    BY <1>2, <2>2 DEF OwnerInv
  <2>4. pc[d] = "set"
    BY <1>1, <2>3 DEF OwnerOK, Live
  <2>5. Has(q, d)
    BY <1>2 DEF Has
  <2>6. ASSUME NEW p \in Slots, NEW i \in 1 .. Len(jobs[p]), ByJob(p, i, d) PROVE FALSE
    <3>1. jobs[p] \in Seq(GoodJob)
      BY <1>0
    <3>2. jobs[p][i] \in GoodJob
      BY <3>1
    <3>3. d \in ToSet(jobs[p][i].refs)
      BY <2>6, <3>2 DEF ByJob, GoodJob, ToSet
    <3>4. p = q
      BY <1>0, <1>2, <2>5, <3>3 DEF HomeInv, Has
    <3> QED  BY <1>1, <2>6, <3>1, <3>4 DEF ByJob, Locked
  <2>7. ASSUME NEW u \in Threads, ByThread(u, d) PROVE FALSE
    <3>1. EvalOf(u) \in Slots
      BY DEF EvalOf, Slots
    <3>2. d \in ToSet(pack[EvalOf(u)])
      <4>1. pack[EvalOf(u)] \in Seq(Claims) /\ pos[u] \in 1 .. Len(pack[EvalOf(u)])
        BY <1>0, <2>7, <3>1 DEF ByThread
      <4> QED  BY <2>7, <4>1 DEF ByThread, ToSet
    <3>3. EvalOf(u) = q
      BY <1>0, <1>2, <2>5, <3>1, <3>2 DEF HomeInv, Has
    <3> QED  BY <1>1, <3>3 DEF EvalOf, StreamOf
  <2> QED  BY <1>2, <2>4, <2>6, <2>7 DEF PubInv
<1> QED  BY <1>0, <1>1, <1>2, <1>3

LEMMA RowNext ==
  /\ JevInv /\ TypeInv /\ OpInv /\ OwnerInv /\ HomeInv /\ PubInv /\ PackedInv /\ RowInv
  /\ [JevNext]_jevVars
  => RowInv'
<1> SUFFICES ASSUME JevInv, TypeInv, OpInv, OwnerInv, HomeInv, PubInv, PackedInv, RowInv,
                    [JevNext]_jevVars, NEW c \in Claims, pc'[c] \in Live
             PROVE  \E s \in Slots : c \in ToSet(rows'[s]) /\ Alive(s)'
  BY DEF RowInv
<1>0. /\ rows \in [Slots -> Seq(Claims)] /\ phase \in [Threads -> Phases]
  BY DEF JevInv, JevTypeOK
<1>1. ASSUME NEW t \in Threads, Taking(t, c)
      PROVE  \E s \in Slots : c \in ToSet(rows'[s]) /\ Alive(s)'
  <2>0. PICK s \in Slots : s = Slot(t)
    BY SlotType
  <2>1. s \in Slots /\ rows' = [rows EXCEPT ![s] = Append(@, c)]
    BY <1>1, <2>0, TakingShape DEF Taking, AcquireRow
  <2>2. c \in ToSet(rows'[s])
    BY <1>0, <2>1, AppendSet
  <2>3. CASE EvalAcquire(t)
    <3>1. s = EvalOf(t) /\ phase'[t] \in EvalPhases
      BY <2>0, <2>3, EvalSlot DEF EvalAcquire, EvalPhases
    <3> QED  BY <2>1, <2>2, <3>1 DEF Alive, EvalOf
  <2>4. CASE StreamAdd(t)
    <3>1. s = StreamOf(t) /\ phase'[t] # "closed"
      BY <1>0, <2>0, <2>4, StreamSlot DEF StreamAdd, StreamPhases, Go
    <3> QED  BY <2>1, <2>2, <3>1 DEF Alive, StreamOf
  <2> QED  BY <1>1, <2>3, <2>4 DEF Taking
<1>2. CASE ~\E t \in Threads : Taking(t, c)
  <2>1. pc[c] \in Live
    BY <1>2, LiveOnce
  <2>2. PICK s \in Slots : c \in ToSet(rows[s]) /\ Alive(s)
    BY <2>1 DEF RowInv
  <2>3. PICK u \in Threads : s \in {EvalOf(u), StreamOf(u)} /\ s[1] = u
    BY DEF Slots, EvalOf, StreamOf
  <2>4. rows[s] # <<>>
    BY <2>2, EmptySet
  <2>5. ASSUME NEW q \in Slots, DropRow(q) PROVE c \in ToSet(rows'[s])
    BY <2>1, <2>2, <2>5, DropKeeps
  <2>6. ASSUME NEW t \in Threads, ThreadStep(t) PROVE c \in ToSet(rows'[s])
    <3>1. CASE EvalAcquire(t) \/ StreamAdd(t)
      <4>1. AcquireRow(t) /\ Cur(t).rows[pos[t]] \in Claims
        BY <3>1, TakingShape
      <4>2. rows' = [rows EXCEPT ![Slot(t)] = Append(@, Cur(t).rows[pos[t]])]
        BY <4>1 DEF AcquireRow
      <4> QED  BY <1>0, <2>2, <4>1, <4>2, AppendSet
    <3>2. CASE Begin(t)
      <4>1. rows' = rows \/ rows' = [rows EXCEPT ![EvalOf(t)] = <<>>]
        BY <3>2 DEF Begin, EvalOf
      <4>2. s # EvalOf(t)
        BY <2>2, <3>2 DEF Begin, Alive, EvalOf, EvalPhases
      <4> QED  BY <1>0, <2>2, <4>1, <4>2
    <3>3. CASE EvalUnwind(t) \/ Clear(t)
      BY <2>2, <2>5, <3>3, SlotType DEF EvalUnwind, Clear
    <3>4. CASE EmitRow(t)
      BY <2>1, <2>2, <3>4, EmitKeeps
    <3>5. CASE EvalStep(t) /\ ~EvalAcquire(t) /\ ~EvalUnwind(t)
      BY <2>2, <3>5 DEF EvalStep, EvalReserve, EvalSubmit, EvalRefused, EvalJoin, EvalPublish,
                  EvalAwait, EvalFails
    <3>6. CASE StreamEmit(t) \/ StreamFlush(t) \/ EmitEnd(t) \/ Resume(t) \/ StreamFails(t) \/ Close(t)
      BY <2>2, <3>6 DEF StreamEmit, StreamFlush, EmitEnd, Resume, StreamFails, Close
    <3> QED  BY <2>6, <3>1, <3>2, <3>3, <3>4, <3>5, <3>6 DEF ThreadStep, StreamStep
  <2>7. ASSUME NEW t \in Threads, ThreadStep(t), t # u PROVE phase'[u] = phase[u]
    BY <2>7, OtherChunk DEF JevInv
  <2>8. CASE s = StreamOf(u)
    <3>1. phase[u] # "closed"
      BY <2>2, <2>3, <2>8 DEF Alive, StreamOf
    <3>2. ASSUME ThreadStep(u) PROVE phase'[u] # "closed"
      <4>1. CASE Begin(u)
        <5>0. call \in [Threads -> Nat]
          BY DEF JevInv, JevTypeOK
        <5>1. call[u] + 1 \in DOMAIN Calls[u]
          BY <4>1, <5>0, JevAssumption DEF Begin
        <5>2. Calls[u][call[u] + 1].op \in Ops /\ Go(u, FirstPhase(Calls[u][call[u] + 1].op))
          BY <4>1, <5>1, CallType DEF Begin
        <5> QED  BY <1>0, <5>2 DEF Go, FirstPhase, BeforeEmit, Ops
      <4>2. CASE EvalStep(u)
        BY <1>0, <3>1, <4>2 DEF EvalStep, EvalAcquire, EvalReserve, EvalSubmit, EvalRefused, EvalJoin,
              EvalPublish, EvalAwait, EvalFails, EvalUnwind, After, Go
      <4>3. CASE Resume(u)
        <5>1. Cur(u).op \in Ops
          BY <4>3, CurType DEF Resume, InCall, JevInv
        <5> QED  BY <1>0, <4>3, <5>1 DEF Resume, Go, FirstPhase, BeforeEmit, Ops
      <4>4. CASE StreamStep(u) /\ ~Resume(u)
        BY <1>0, <3>1, <4>4 DEF StreamStep, StreamAdd, StreamEmit, StreamFlush, AfterFlush, EmitRow,
              EmitEnd, StreamFails, BeforeEmit, Go
      <4>5. CASE Close(u)
        BY <1>0, <4>5 DEF Close, Go
      <4>6. CASE Clear(u)
        BY <2>4, <2>8, <3>1, <4>6 DEF Clear
      <4> QED  BY <3>2, <4>1, <4>2, <4>3, <4>4, <4>5, <4>6 DEF ThreadStep
    <3>3. phase'[u] # "closed"
      BY <2>7, <3>1, <3>2, NotThread
    <3> QED  BY <2>2, <2>3, <2>6, <2>8, <3>3, NotThread DEF Alive, StreamOf
  <2>9. CASE s = EvalOf(u)
    <3>1. phase[u] \in EvalPhases
      BY <2>2, <2>3, <2>9 DEF Alive, EvalOf
    <3>2. ASSUME ThreadStep(u) PROVE phase'[u] \in EvalPhases
      <4>1. EvalStep(u)
        BY <3>1, <3>2 DEF EvalPhases, ThreadStep, StreamStep, Begin, StreamAdd, StreamEmit, StreamFlush,
             EmitRow, EmitEnd, Resume, StreamFails, Close, Clear
      <4>2. CASE EvalAwait(u)
        <5>1. phase[u] \in Sending /\ phase[u] = "await"
          BY <4>2 DEF EvalAwait, Sending
        <5> QED  BY <2>1, <2>2, <2>9, <5>1 DEF PackedInv, PackedRow
      <4>3. CASE EvalUnwind(u)
        <5>1. Slot(u) = s
          BY <2>9, <3>1, EvalSlot
        <5> QED  BY <2>4, <3>1, <4>3, <5>1 DEF EvalUnwind
      <4>4. CASE ~EvalAwait(u) /\ ~EvalUnwind(u)
        BY <1>0, <3>1, <4>1, <4>4 DEF EvalStep, EvalAcquire, EvalReserve, EvalSubmit, EvalRefused, EvalJoin,
              EvalPublish, EvalFails, After, Go, EvalPhases
      <4> QED  BY <4>2, <4>3, <4>4
    <3>3. phase'[u] \in EvalPhases
      BY <2>7, <3>1, <3>2, NotThread
    <3> QED  BY <2>2, <2>3, <2>6, <2>9, <3>3, NotThread DEF Alive, EvalOf
  <2> QED  BY <2>3, <2>8, <2>9
<1> QED  BY <1>1, <1>2

(* The inductive invariant. *)
LeftInv == OpInv /\ SaidInv /\ OwnerInv /\ HomeInv /\ PubInv /\ PackedInv /\ RowInv /\ RegistryInv

(***************************************************************************)
(* Nothing is left behind: when the threads of a query have ended and its  *)
(* late rows are gone, every promise is settled and the registry is empty, *)
(* whatever was cut short, failed or cancelled.                            *)
(***************************************************************************)
THEOREM NothingLeft == JevSpec => []NothingLeftBehind
<1>1. JevInit => LeftInv
  <2> SUFFICES ASSUME JevInit PROVE LeftInv
    OBVIOUS
  <2>1. /\ \A c \in Claims : pc[c] = "idle" /\ promise[c] = None
        /\ owners = {} /\ enrolled = {} /\ flights = [k \in Keys |-> None]
        /\ \A s \in Slots : rows[s] = <<>> /\ pack[s] = <<>> /\ jobs[s] = <<>> /\ Len(jobs[s]) = 0
        /\ \A t \in Threads : phase[t] = "next"
    BY DEF JevInit, Init
  <2>2. OpInv /\ SaidInv
    BY <2>1 DEF OpInv, SaidInv, EvalPhases, StreamPhases
  <2>3. OwnerInv
    BY <2>1, NoneAssumption DEF OwnerInv, Begun
  <2>4. HomeInv
    BY <2>1, EmptySet DEF HomeInv, Has
  <2>5. PubInv /\ RowInv
    BY <2>1 DEF PubInv, RowInv, Live
  <2>6. PackedInv
    BY <2>1 DEF PackedInv, Sending
  <2>7. RegistryInv
    BY <2>1, NoneAssumption DEF RegistryInv, RegistryExact
  <2> QED  BY <2>2, <2>3, <2>4, <2>5, <2>6, <2>7 DEF LeftInv
<1>2. JevInv /\ TypeInv /\ AnsweredInv /\ LeftInv /\ [JevNext]_jevVars => LeftInv'
  <2> SUFFICES ASSUME JevInv, TypeInv, AnsweredInv, LeftInv, [JevNext]_jevVars PROVE LeftInv'
    OBVIOUS
  <2>1. RegistryInv'
    BY Uses, UseIsNext, RegistryNext DEF LeftInv
  <2> QED  BY <2>1, OpNext, SaidNext, OwnerNext, HomeNext, PubNext, PackedNext, RowNext DEF LeftInv
<1>3. JevInv /\ TypeInv /\ LeftInv => NothingLeftBehind
  <2> SUFFICES ASSUME JevInv, TypeInv, LeftInv, \A t \in Threads : phase[t] = "closed",
                      \A c \in Claims : pc[c] \notin {"orphan", "late"}
               PROVE  /\ \A c \in owners : promise[c] # Open /\ pc[c] = "done"
                      /\ Held(flights) = {}
    BY DEF NothingLeftBehind
  <2>1. ASSUME NEW c \in Claims PROVE pc[c] \notin Live
    <3>1. ASSUME NEW s \in Slots, Alive(s) PROVE FALSE
      BY <3>1 DEF Alive, Slots, EvalPhases
    <3> QED  BY <3>1 DEF LeftInv, RowInv
  <2>2. ASSUME NEW c \in owners PROVE promise[c] # Open /\ pc[c] = "done"
    <3>1. c \in Claims
      BY DEF JevInv, JevTypeOK
    <3> QED  BY <2>1, <3>1 DEF LeftInv, OwnerInv, OwnerOK
  <2>3. ASSUME NEW k \in Keys, flights[k] # None PROVE FALSE
    <3>1. flights[k] \in Claims
      BY <2>3 DEF TypeInv, TypeOK
    <3>2. flights[k] \in enrolled
      BY <3>1 DEF LeftInv, RegistryInv, RegistryExact
    <3>3. pc[flights[k]] \in Unreleased
      BY <3>2 DEF LeftInv, RegistryInv
    <3> QED  BY <2>1, <3>1, <3>3 DEF Unreleased, Live
  <2> QED  BY <2>2, <2>3 DEF Held
<1> QED  BY <1>1, <1>2, <1>3, JevInvariant, AnsweredInvariant, PTL DEF JevSpec

-----------------------------------------------------------------------------
(***************************************************************************)
(* Cycles.                                                                 *)
(***************************************************************************)
(* No pipeline evaluates scalar functions and a jev_stream.                *)
Makes(t, op) == \E i \in DOMAIN Calls[t] : Calls[t][i].op = op
Apart == \A t \in Threads : ~(Makes(t, "eval") /\ Makes(t, "input"))

(* A stream's pack is filled by input only, and is empty when Emit blocks. *)
SentInv ==
  \A t \in Threads :
    /\ phase[t] = "add" => Cur(t).op = "input"
    /\ phase[t] = "flushadd" => Cur(t).op = "input"
    /\ phase[t] = "emit" \/ ~Makes(t, "input") => pack[StreamOf(t)] = <<>>

LEMMA SentNext == JevInv /\ TypeInv /\ OpInv /\ SentInv /\ [JevNext]_jevVars => SentInv'
<1> SUFFICES ASSUME JevInv, TypeInv, OpInv, SentInv, [JevNext]_jevVars, NEW t \in Threads
             PROVE  /\ phase'[t] \in {"add", "flushadd"} => Cur(t)'.op = "input"
                    /\ phase'[t] = "emit" \/ ~Makes(t, "input") => pack'[StreamOf(t)] = <<>>
  BY DEF SentInv, StreamOf
<1>0. /\ call \in [Threads -> Nat] /\ phase \in [Threads -> Phases]
      /\ pack \in [Slots -> Seq(Claims)] /\ StreamOf(t) \in Slots
  BY SlotType DEF JevInv, JevTypeOK
<1>1. ASSUME NEW u \in Threads, ThreadStep(u), u # t PROVE phase'[t] = phase[t]
  BY <1>1, OtherChunk
<1>2. ASSUME NEW u \in Threads, ThreadStep(u), ~Begin(u) PROVE call' = call
  BY <1>2 DEF ThreadStep, EvalStep, EvalAcquire, EvalReserve, EvalSubmit, EvalRefused, EvalJoin,
     EvalPublish, EvalAwait, EvalFails, EvalUnwind, StreamStep, StreamAdd, StreamEmit, StreamFlush,
     EmitRow, EmitEnd, Resume, StreamFails, Close, Clear
<1>3. CASE Begin(t)
  <2> DEFINE op == Calls[t][call[t] + 1].op
  <2>1. op \in Ops
    <3>1. call[t] + 1 \in DOMAIN Calls[t]
      BY <1>0, <1>3, JevAssumption DEF Begin
    <3> QED  BY <3>1, CallType
  <2>2. Cur(t)'.op = op /\ Go(t, FirstPhase(op))
    BY <1>0, <1>3 DEF Begin, Cur
  <2>3. pack'[StreamOf(t)] = pack[StreamOf(t)]
    <3>1. pack' = pack \/ pack' = [pack EXCEPT ![EvalOf(t)] = <<>>]
      BY <1>3 DEF Begin, EvalOf
    <3> QED  BY <1>0, <3>1 DEF EvalOf, StreamOf
  <2> HIDE DEF op
  <2>4. phase'[t] # "emit" /\ (phase'[t] \in {"add", "flushadd"} => op = "input")
    BY <1>0, <2>1, <2>2 DEF Go, FirstPhase, BeforeEmit, Ops
  <2> QED  BY <2>2, <2>3, <2>4 DEF SentInv
<1>4. CASE StreamFlush(t) \/ Resume(t) \/ StreamAdd(t)
  <2>1. Cur(t)' = Cur(t) /\ Cur(t).op \in Ops /\ call[t] \in DOMAIN Calls[t]
    BY <1>0, <1>4, CurType DEF StreamFlush, Resume, StreamAdd, Cur, InCall, JevInv
  <2>2. phase'[t] \in {"add", "flushadd"} => Cur(t).op = "input"
    BY <1>0, <1>4, <2>1 DEF StreamFlush, AfterFlush, Resume, StreamAdd, Go, FirstPhase, BeforeEmit, Ops, SentInv
  <2>3. CASE StreamFlush(t)
    <3>1. Slot(t) = StreamOf(t)
      BY <2>3, StreamSlot DEF StreamFlush, StreamPhases
    <3> QED  BY <1>0, <2>1, <2>2, <2>3, <3>1 DEF StreamFlush
  <2>4. CASE Resume(t)
    <3>1. pack' = pack /\ phase'[t] # "emit"
      BY <1>0, <2>1, <2>4 DEF Resume, Go, FirstPhase, BeforeEmit, Ops
    <3> QED  BY <2>1, <2>2, <3>1 DEF SentInv
  <2>5. CASE StreamAdd(t)
    <3>1. Makes(t, "input") /\ phase'[t] # "emit"
      BY <1>0, <2>1, <2>5 DEF StreamAdd, SentInv, Makes, Cur, Go
    <3> QED  BY <2>1, <2>2, <3>1
  <2> QED  BY <1>4, <2>3, <2>4, <2>5
<1>5. ASSUME ~Begin(t), ~StreamFlush(t), ~Resume(t), ~StreamAdd(t)
      PROVE  /\ phase'[t] \in {"add", "flushadd", "emit"} => phase'[t] = phase[t]
             /\ Cur(t)' = Cur(t)
  <2>1. ASSUME ThreadStep(t) PROVE phase'[t] \in {"add", "flushadd", "emit"} => phase'[t] = phase[t]
    BY <1>0, <1>5, <2>1
       DEF ThreadStep, EvalStep, EvalAcquire, EvalReserve, EvalSubmit, EvalRefused, EvalJoin,
           EvalPublish, EvalAwait, EvalFails, EvalUnwind, StreamStep, StreamEmit, EmitRow, EmitEnd,
           StreamFails, Close, Clear, After, Go, BeforeEmit
  <2>2. ASSUME NEW u \in Threads, Begin(u) PROVE Cur(t)' = Cur(t)
    BY <1>0, <1>5, <2>2 DEF Begin, Cur
  <2>3. ASSUME NEW u \in Threads, ThreadStep(u) PROVE Cur(t)' = Cur(t)
    BY <1>2, <2>2, <2>3 DEF Cur
  <2>4. CASE ~\E u \in Threads : ThreadStep(u)
    <3>1. ASSUME NEW q \in Slots, NEW k \in DOMAIN jobs[q], JobStep(q, k) PROVE call' = call
      BY <3>1 DEF JobStep, JobStart, JobAnswered, JobComplete, JobFails, JobError, control
    <3>2. ASSUME NEW d \in Claims, LateDrop(d) PROVE call' = call
      BY <3>2 DEF LateDrop, evalVars, control
    <3>3. ASSUME Interrupt \/ Over \/ UNCHANGED jevVars PROVE call' = call
      BY <3>3 DEF Interrupt, Over, jevVars, evalVars, control
    <3>4. call' = call
      BY <2>4, <3>1, <3>2, <3>3 DEF JevNext
    <3> QED  BY <2>4, <3>4, NotThread DEF Cur
  <2> QED  BY <1>1, <2>1, <2>3, <2>4
<1>6. CASE ~Begin(t) /\ ~StreamFlush(t) /\ ~Resume(t) /\ ~StreamAdd(t)
  <2>1. pack'[StreamOf(t)] = pack[StreamOf(t)] \/ pack'[StreamOf(t)] = <<>>
    <3>1. ASSUME NEW u \in Threads, NEW c \in Claims, Taking(u, c), StreamOf(t) = Slot(u) PROVE FALSE
      <4>1. u = t
        BY <3>1 DEF StreamOf, Slot
      <4>2. EvalAcquire(t)
        BY <1>6, <3>1, <4>1 DEF Taking
      <4>3. Slot(t) = EvalOf(t)
        BY <4>2, EvalSlot DEF EvalAcquire, EvalPhases
      <4> QED  BY <3>1, <4>1, <4>3 DEF EvalOf, StreamOf
    <3> QED  BY <1>0, <3>1, PackTaking
  <2> QED  BY <1>5, <1>6, <2>1 DEF SentInv
<1> QED  BY <1>3, <1>4, <1>6

(***************************************************************************)
(* While no pipeline has both a scalar function and a jev_stream, nobody   *)
(* waits in a cycle for unsent questions: who waits has sent its own (the  *)
(* flush at the head of Emit, the publication before the wait).  Without   *)
(* the hypothesis run jev_pipeline finds the cycle.                        *)
(***************************************************************************)
THEOREM NoCycleApart == ASSUME Apart PROVE JevSpec => []NoUnsentCycle
<1>1. JevInit => SentInv
  <2>1. \A t \in Threads : StreamOf(t) \in Slots
    BY SlotType
  <2> QED  BY <2>1 DEF JevInit, SentInv
<1>2. JevInv /\ TypeInv /\ AnsweredInv /\ SentInv /\ [JevNext]_jevVars => SentInv'
  BY SentNext DEF AnsweredInv
<1>3. JevInv /\ AnsweredInv /\ SentInv => NoUnsentCycle
  <2> SUFFICES ASSUME JevInv, AnsweredInv, SentInv, NEW T \in (SUBSET Threads) \ {{}}
               PROVE  \E t \in T : \A u \in T : ~WaitsOn(t, u)
    BY DEF NoUnsentCycle
  <2>1. ASSUME NEW t \in Threads, Awaited(t) # {} PROVE pack[StreamOf(t)] = <<>>
    <3>1. CASE phase[t] = "emit"
      BY <3>1 DEF SentInv
    <3>2. CASE phase[t] = "await"
      <4>1. call[t] \in DOMAIN Calls[t] /\ Cur(t).op = "eval"
        BY <3>2, CurType DEF JevInv, InCall, AnsweredInv, OpInv, EvalPhases
      <4>2. Makes(t, "eval")
        BY <4>1 DEF Makes, Cur
      <4> QED  BY <4>2 DEF Apart, SentInv
    <3> QED  BY <2>1, <3>1, <3>2 DEF Awaited
  <2>2. ASSUME NEW t \in T, NEW u \in T, WaitsOn(t, u) PROVE \A v \in T : ~WaitsOn(u, v)
    <3>1. pack[StreamOf(u)] # <<>>
      BY <2>2, EmptySet DEF WaitsOn
    <3>2. Awaited(u) = {}
      BY <2>1, <3>1
    <3> QED  BY <3>2 DEF WaitsOn
  <2>3. T # {}
    OBVIOUS
  <2>4. PICK t : t \in T
    BY <2>3
  <2> QED  BY <2>2, <2>4
<1> QED  BY <1>1, <1>2, <1>3, JevInvariant, AnsweredInvariant, PTL DEF JevSpec
================================================================================
