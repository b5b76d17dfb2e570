------------------------------ MODULE QueryState ------------------------------
(***************************************************************************)
(* The per-connection QueryState of src/jev_extension.cpp: the options     *)
(* snapshot of a query, the in-query answer cache, the registry of flights *)
(* (one shared future per question set being asked), the connection's      *)
(* session LRU and the query budgets.                                      *)
(*                                                                         *)
(* A claim is one call of Acquire by an evaluator (a scalar jev_* chunk or *)
(* a jev_stream row).  A claim that owns a Flight gives its name to it.    *)
(* Every method of QueryState holds its mutex from its first statement to  *)
(* its last, so each is one action, except Complete and Abandon, which     *)
(* take the mutex only in the Store and the Release they call: these are   *)
(* split where other threads can get in between.                           *)
(***************************************************************************)
EXTENDS Integers, Sequences, FiniteSets, FiniteSetsExt

CONSTANTS
  Keys,          \* canonical JSON of (evidence, questions): what Acquire is called with
  KeySize,       \* key.size(), in bytes
  AnswerSizes,   \* the possible encoded->size() of an answer
  Claims,        \* calls of Acquire alive at the same time
  Settings,      \* what ReadOptions can return
  MaxAnswers,    \* entry bound of answers (4096)
  MaxFlights,    \* entry bound of flights (4096)
  MaxSession,    \* entry bound of session (4096)
  FlightBytes,   \* byte bound of the flights' keys (8 MiB)
  SizeMax,       \* 2^64: size_t arithmetic wraps there
  MaxTime,       \* the clock stops there
  None, NoScope, Open, Broken

(* A setting is the part of Options the state depends on.  The scope is    *)
(* the SHA-256 of endpoint, model and key, taken to be injective.          *)
Scopes == { o.scope : o \in Settings }

Answer == [key : Keys, scope : Scopes, stored : Nat, size : Nat]
Entry  == [answer : Answer, expires : Nat, bytes : Nat]

ASSUME ConstantsAssumption ==
  /\ IsFiniteSet(Claims)
  /\ KeySize \in [Keys -> Nat \ {0}]
  /\ AnswerSizes \subseteq Nat \ {0}
  /\ Settings \subseteq [scope : Scopes, cache_bytes : Nat, session_bytes : Nat,
                         session_ttl : Nat \ {0}, max_query_questions : Nat,
                         max_query_requests : Nat]
  /\ {MaxAnswers, MaxFlights, MaxTime, FlightBytes} \subseteq Nat
  /\ MaxSession \in Nat \ {0}
  /\ SizeMax \in Nat
  /\ FlightBytes < SizeMax /\ \A k \in Keys : KeySize[k] < SizeMax
  /\ \A o \in Settings : o.cache_bytes < SizeMax

ASSUME NoneAssumption ==
  /\ None \notin Settings \cup Claims \cup Answer \cup Entry
  /\ Open \notin Answer /\ Broken \notin Answer
  /\ None # Open /\ None # Broken /\ Open # Broken
  /\ NoScope \notin Scopes

VARIABLES
  (* the fields of QueryState *)
  options,          \* the snapshot of this query, or None
  answers,          \* in-query results
  bytes,            \* what answers is charged for
  flights,          \* key -> the claim whose Flight is registered
  flight_bytes,     \* what flights is charged for
  session,          \* the connection's opt-in cache
  lru,              \* its keys, most recently used first
  session_bytes, session_scope, session_budget, session_ttl,
  query_questions, query_requests,
  now,              \* steady_clock, in milliseconds
  (* the callers *)
  pc,               \* where each claim is
  key, opts,        \* its key and its evaluator's copy of the snapshot
  flight,           \* whose Flight it holds (its own, when it owns or was a hit)
  promise,          \* the shared state of the Flight of each claim
  encoded,          \* the answer Complete is publishing
  (* history variables: no action's guard reads them *)
  started,          \* when the query took its snapshot
  enrolled,         \* owners registered in this query and not yet released
  sent,             \* claims whose questions passed Reserve in this query
  unshared,         \* keys whose flight or answer found no room in this query
  recent            \* keys by last store into or hit of session

stateVars   == <<options, answers, bytes, flights, flight_bytes, query_questions,
                 query_requests>>
sessionVars == <<session, lru, session_bytes, recent>>
scopeVars   == <<session_scope, session_budget, session_ttl>>
claimVars   == <<key, opts, flight, promise, encoded>>
ghostVars   == <<started, enrolled, sent, unshared>>
vars == <<stateVars, sessionVars, scopeVars, now, pc, claimVars, ghostVars>>

-----------------------------------------------------------------------------
(* An unsigned difference: below zero it wraps to a huge value. *)
SizeT(n) == IF n >= 0 THEN n ELSE n + SizeMax

Held(f) == { k \in Keys : f[k] # None }

(* A sequence without its (first) occurrence of k. *)
Without(s, k) ==
  IF \E i \in DOMAIN s : s[i] = k
    THEN LET i == CHOOSE i \in DOMAIN s : s[i] = k
         IN  SubSeq(s, 1, i - 1) \o SubSeq(s, i + 1, Len(s))
    ELSE s

ToFront(s, k) == <<k>> \o Without(s, k)

SessionBytes(S) == SumFunction([k \in S |-> session[k].bytes])

(***************************************************************************)
(* Snapshot.  The first use in a query reads the settings, and drops the   *)
(* session cache when the credential scope, its budget or its TTL changed. *)
(* A ReadOptions that throws leaves every field as it was.                 *)
(***************************************************************************)
ClearSessionLocked == /\ session' = [k \in Keys |-> None]
                      /\ lru' = <<>>
                      /\ session_bytes' = 0
                      /\ UNCHANGED recent

(* mutants: forgetting one of the three comparisons *)
KeepsOnScopeChange(o) == o.session_bytes # session_budget \/ o.session_ttl # session_ttl
KeepsOnTtlChange(o)   == o.scope # session_scope \/ o.session_bytes # session_budget

SessionOutdated(o) == \/ o.scope # session_scope
                      \/ o.session_bytes # session_budget
                      \/ o.session_ttl # session_ttl

FirstSnapshot(o) ==
  /\ options = None
  /\ IF SessionOutdated(o)
       THEN ClearSessionLocked
       ELSE UNCHANGED sessionVars
  /\ session_scope' = o.scope
  /\ session_budget' = o.session_bytes
  /\ session_ttl' = o.session_ttl
  /\ options' = o
  /\ started' = now

LaterSnapshot(o) ==
  /\ options = o
  /\ UNCHANGED <<options, sessionVars, scopeVars, started>>

(* One evaluator takes one snapshot for all its rows S. *)
Snapshot(S) ==
  /\ S # {}
  /\ \A c \in S : pc[c] = "idle"
  /\ \E o \in Settings :
       /\ FirstSnapshot(o) \/ LaterSnapshot(o)
       /\ opts' = [c \in Claims |-> IF c \in S THEN o ELSE opts[c]]
  /\ pc' = [c \in Claims |-> IF c \in S THEN "ready" ELSE pc[c]]
  /\ UNCHANGED <<answers, bytes, flights, flight_bytes, query_questions,
                 query_requests, now, key, flight, promise, encoded, enrolled,
                 sent, unshared>>

(***************************************************************************)
(* Acquire: the in-query answers, then the session cache, then a flight    *)
(* somebody already owns, and failing all three a Flight of one's own.     *)
(***************************************************************************)
Expired(k) == session[k] # None /\ now >= session[k].expires
Fresh(k)   == session[k] # None /\ now < session[k].expires

DropExpired(k) ==
  IF Expired(k)
    THEN /\ session_bytes' = SizeT(session_bytes - session[k].bytes)
         /\ lru' = Without(lru, k)
         /\ session' = [session EXCEPT ![k] = None]
         /\ UNCHANGED recent
    ELSE UNCHANGED sessionVars

AnswerRoom(k, a, budget) ==
  /\ Cardinality(Held(answers)) < MaxAnswers
  /\ KeySize[k] + a.size <= SizeT(budget - bytes)

AddAnswer(k, a) == /\ answers' = [answers EXCEPT ![k] = a]
                   /\ bytes' = bytes + KeySize[k] + a.size

(* A Flight made ready on the spot, held by nobody else. *)
HoldReady(c, k, a) == /\ promise' = [promise EXCEPT ![c] = a]
                      /\ flight' = [flight EXCEPT ![c] = c]
                      /\ pc' = [pc EXCEPT ![c] = "waiting"]

HitAnswer(c, k) ==
  /\ answers[k] # None
  /\ HoldReady(c, k, answers[k])
  /\ UNCHANGED <<answers, bytes, flights, flight_bytes, sessionVars, enrolled, unshared>>

(* mutant: a hit does not move its key (first in, first out) *)
TouchNot(k) == UNCHANGED lru

Touch(k) == lru' = ToFront(lru, k)

HitSession(c, k) ==
  /\ answers[k] = None
  /\ Fresh(k)
  /\ Touch(k)
  /\ recent' = ToFront(recent, k)
  /\ IF AnswerRoom(k, session[k].answer, options.cache_bytes)
       THEN AddAnswer(k, session[k].answer)
       ELSE UNCHANGED <<answers, bytes>>
  /\ HoldReady(c, k, session[k].answer)
  /\ UNCHANGED <<session, session_bytes, flights, flight_bytes, enrolled, unshared>>

(* mutant: the registry is not looked up before its entry is used *)
JoinUnchecked(c, k) ==
  /\ answers[k] = None
  /\ ~Fresh(k)
  /\ DropExpired(k)
  /\ flight' = [flight EXCEPT ![c] = flights[k]]
  /\ pc' = [pc EXCEPT ![c] = "waiting"]
  /\ UNCHANGED <<answers, bytes, flights, flight_bytes, promise, enrolled, unshared>>

Join(c, k) ==
  /\ answers[k] = None
  /\ ~Fresh(k)
  /\ flights[k] # None
  /\ DropExpired(k)
  /\ flight' = [flight EXCEPT ![c] = flights[k]]
  /\ pc' = [pc EXCEPT ![c] = "waiting"]
  /\ UNCHANGED <<answers, bytes, flights, flight_bytes, promise, enrolled, unshared>>

(* mutant: off by one in the count *)
FlightRoomForOneMore(k) == /\ Cardinality(Held(flights)) <= MaxFlights
                           /\ KeySize[k] <= SizeT(FlightBytes - flight_bytes)

FlightRoom(k) == /\ Cardinality(Held(flights)) < MaxFlights
                 /\ KeySize[k] <= SizeT(FlightBytes - flight_bytes)

Own(c, k) ==
  /\ answers[k] = None
  /\ ~Fresh(k)
  /\ flights[k] = None
  /\ DropExpired(k)
  /\ flight' = [flight EXCEPT ![c] = c]
  /\ promise' = [promise EXCEPT ![c] = Open]
  /\ pc' = [pc EXCEPT ![c] = "owner"]
  /\ IF FlightRoom(k)
       THEN /\ flights' = [flights EXCEPT ![k] = c]
            /\ flight_bytes' = flight_bytes + KeySize[k]
            /\ enrolled' = enrolled \cup {c}
            /\ UNCHANGED unshared
       ELSE /\ unshared' = unshared \cup {k}
            /\ UNCHANGED <<flights, flight_bytes, enrolled>>
  /\ UNCHANGED <<answers, bytes>>

Acquire(c, k) ==
  /\ pc[c] = "ready"
  /\ HitAnswer(c, k) \/ HitSession(c, k) \/ Join(c, k) \/ Own(c, k)
  /\ key' = [key EXCEPT ![c] = k]
  /\ UNCHANGED <<options, query_questions, query_requests, scopeVars, now, opts,
                 encoded, started, sent>>

(***************************************************************************)
(* Reserve, for the owned rows S that one evaluator is about to ask in the *)
(* given number of requests: one question a row.  It throws before it has  *)
(* charged anything, and then the evaluator abandons what it owns.         *)
(***************************************************************************)
(* mutant: the limits are compared with what was spent before *)
BudgetSpent(questions, requests) == /\ query_questions <= options.max_query_questions
                                    /\ query_requests <= options.max_query_requests

BudgetLeft(questions, requests) ==
  /\ questions <= SizeT(options.max_query_questions - query_questions)
  /\ requests <= SizeT(options.max_query_requests - query_requests)

Reserve(S, requests) ==
  /\ S # {}
  /\ \A c \in S : pc[c] = "owner"
  /\ BudgetLeft(Cardinality(S), requests)
  /\ query_questions' = query_questions + Cardinality(S)
  /\ query_requests' = query_requests + requests
  /\ pc' = [c \in Claims |-> IF c \in S THEN "sent" ELSE pc[c]]
  /\ sent' = sent \cup S
  /\ UNCHANGED <<options, answers, bytes, flights, flight_bytes, sessionVars, scopeVars,
                 now, claimVars, started, enrolled, unshared>>

(***************************************************************************)
(* Store, the first half of Complete: the session cache, then the in-query *)
(* cache.  StoreSession replaces an older entry and then evicts from the   *)
(* back of the LRU the fewest entries that make room.                      *)
(***************************************************************************)
EntrySize(k, a) == 2 * KeySize[k] + a.size

(* mutant: the entry being replaced keeps its charge *)
ErasedButOld(k, rest, n) == { rest[i] : i \in Len(rest) - n + 1 .. Len(rest) }

Erased(k, rest, n) ==
  { j \in Held(session) : j = k } \cup { rest[i] : i \in Len(rest) - n + 1 .. Len(rest) }

Fits(k, a, rest, n) ==
  LET kept == SizeT(session_bytes - SessionBytes(Erased(k, rest, n)))
  IN  \/ n = Len(rest)
      \/ /\ Len(rest) - n < MaxSession
         /\ EntrySize(k, a) <= SizeT(session_budget - kept)

StoreSession(k, a) ==
  IF session_budget = 0 \/ EntrySize(k, a) > session_budget
    THEN UNCHANGED sessionVars
    ELSE LET rest == Without(lru, k)
         IN  \E n \in 0 .. Len(rest) :
               /\ Fits(k, a, rest, n)
               /\ \A m \in 0 .. n - 1 : ~Fits(k, a, rest, m)
               /\ session' = [j \in Keys |->
                     IF j = k THEN [answer |-> a, expires |-> now + session_ttl,
                                    bytes |-> EntrySize(k, a)]
                     ELSE IF j \in Erased(k, rest, n) THEN None ELSE session[j]]
               /\ lru' = <<k>> \o SubSeq(rest, 1, Len(rest) - n)
               /\ session_bytes' = SizeT(session_bytes - SessionBytes(Erased(k, rest, n)))
                                     + EntrySize(k, a)
               /\ recent' = ToFront(recent, k)

(* mutant: a key already answered is charged again *)
StorableAgain(c, a) == /\ opts[c].cache_bytes # 0
                       /\ AnswerRoom(key[c], a, opts[c].cache_bytes)

Storable(c, a) == /\ opts[c].cache_bytes # 0
                  /\ AnswerRoom(key[c], a, opts[c].cache_bytes)
                  /\ answers[key[c]] = None

Store(c) ==
  /\ pc[c] = "sent"
  /\ \E size \in AnswerSizes :
       LET a == [key |-> key[c], scope |-> opts[c].scope, stored |-> now, size |-> size]
       IN  /\ StoreSession(key[c], a)
           /\ IF Storable(c, a)
                THEN AddAnswer(key[c], a) /\ UNCHANGED unshared
                ELSE /\ unshared' = unshared \cup {key[c]}
                     /\ UNCHANGED <<answers, bytes>>
           /\ encoded' = [encoded EXCEPT ![c] = a]
  /\ pc' = [pc EXCEPT ![c] = "stored"]
  /\ UNCHANGED <<options, flights, flight_bytes, query_questions, query_requests,
                 scopeVars, now, key, opts, flight, promise, started, enrolled, sent>>

(* The second step of Complete: set_value and done. *)
SetValue(c) ==
  /\ pc[c] = "stored"
  /\ promise' = [promise EXCEPT ![c] = encoded[c]]
  /\ pc' = [pc EXCEPT ![c] = "set"]
  /\ UNCHANGED <<stateVars, sessionVars, scopeVars, now, key, opts, flight, encoded,
                 ghostVars>>

(***************************************************************************)
(* The first step of Abandon: set_exception and done.  FlightGuard and     *)
(* ~StreamRow call it for whatever is still owned when an evaluation fails *)
(* or is torn down.  "orphan" is a stream row whose evaluation is over and *)
(* whose last reference is the task object of a pool worker: ~StreamState  *)
(* waited for the job, not for the destruction of the job's closure.       *)
(***************************************************************************)
(* mutant: the flight is marked done and released, its promise forgotten *)
ForgetPromise(c) == UNCHANGED promise

BreakPromise(c) == promise' = [promise EXCEPT ![c] = Broken]

Abandon(c) ==
  /\ pc[c] \in {"owner", "sent", "orphan"}
  /\ BreakPromise(c)
  /\ pc' = [pc EXCEPT ![c] = IF pc[c] = "orphan" THEN "late" ELSE "broken"]
  /\ UNCHANGED <<stateVars, sessionVars, scopeVars, now, key, opts, flight, encoded,
                 ghostVars>>

Orphan(c) ==
  /\ pc[c] = "sent"
  /\ pc' = [pc EXCEPT ![c] = "orphan"]
  /\ UNCHANGED <<stateVars, sessionVars, scopeVars, now, claimVars, ghostVars>>

(***************************************************************************)
(* Release, the last step of both.  A registry that meanwhile holds        *)
(* another Flight for the key, or none, is left alone.                     *)
(***************************************************************************)
(* mutants: whatever flight is registered for the key goes; a failed one stays *)
UnregisterKey(c) ==
  IF flights[key[c]] # None
    THEN /\ flight_bytes' = SizeT(flight_bytes - KeySize[key[c]])
         /\ flights' = [flights EXCEPT ![key[c]] = None]
    ELSE UNCHANGED <<flights, flight_bytes>>
UnregisterAnswered(c) ==
  IF flights[key[c]] = c /\ pc[c] = "set"
    THEN /\ flight_bytes' = SizeT(flight_bytes - KeySize[key[c]])
         /\ flights' = [flights EXCEPT ![key[c]] = None]
    ELSE UNCHANGED <<flights, flight_bytes>>

Unregister(c) ==
  IF flights[key[c]] = c
    THEN /\ flight_bytes' = SizeT(flight_bytes - KeySize[key[c]])
         /\ flights' = [flights EXCEPT ![key[c]] = None]
    ELSE UNCHANGED <<flights, flight_bytes>>

Release(c) ==
  /\ pc[c] \in {"set", "broken", "late"}
  /\ Unregister(c)
  /\ enrolled' = enrolled \ {c}
  /\ pc' = [pc EXCEPT ![c] = "done"]
  /\ UNCHANGED <<options, answers, bytes, query_questions, query_requests, sessionVars,
                 scopeVars, now, claimVars, started, sent, unshared>>

(* AwaitFlight: the future of the flight is ready ... *)
AwaitFlight(c) ==
  /\ pc[c] = "waiting"
  /\ promise[flight[c]] # Open
  /\ pc' = [pc EXCEPT ![c] = "done"]
  /\ UNCHANGED <<stateVars, sessionVars, scopeVars, now, claimVars, ghostVars>>

(* ... or the evaluator gives up: cancelled, failed on another row, closed. *)
Leave(c) ==
  /\ pc[c] \in {"ready", "waiting"}
  /\ pc' = [pc EXCEPT ![c] = "done"]
  /\ UNCHANGED <<stateVars, sessionVars, scopeVars, now, claimVars, ghostVars>>

(* jev_cache_clear, from any statement of the connection. *)
ClearSession ==
  /\ ClearSessionLocked
  /\ UNCHANGED <<stateVars, scopeVars, now, pc, claimVars, ghostVars>>

(***************************************************************************)
(* QueryEnd.  DuckDB calls it when the query's operators are gone, so no   *)
(* claim is left but the orphans.  A finished claim is a new one in the    *)
(* next query.                                                             *)
(***************************************************************************)
QueryEnd ==
  /\ \A c \in Claims : pc[c] \in {"idle", "done", "orphan", "late"}
  /\ answers' = [k \in Keys |-> None]
  /\ flights' = [k \in Keys |-> None]
  /\ flight_bytes' = 0
  /\ options' = None
  /\ bytes' = 0
  /\ query_questions' = 0
  /\ query_requests' = 0
  /\ enrolled' = {}
  /\ sent' = {}
  /\ unshared' = {}
  /\ pc' = [c \in Claims |-> IF pc[c] = "done" THEN "idle" ELSE pc[c]]
  /\ LET fresh(f, v) == [c \in Claims |-> IF pc[c] = "done" THEN v ELSE f[c]]
     IN  /\ key' = fresh(key, None) /\ opts' = fresh(opts, None)
         /\ promise' = fresh(promise, None) /\ encoded' = fresh(encoded, None)
         /\ flight' = [c \in Claims |-> IF pc[c] = "done" THEN c ELSE flight[c]]
  /\ started' = 0
  /\ UNCHANGED <<sessionVars, scopeVars, now>>

Tick == /\ now < MaxTime
        /\ now' = now + 1
        /\ UNCHANGED <<stateVars, sessionVars, scopeVars, pc, claimVars, ghostVars>>

-----------------------------------------------------------------------------
Init ==
  /\ options = None
  /\ answers = [k \in Keys |-> None] /\ bytes = 0
  /\ flights = [k \in Keys |-> None] /\ flight_bytes = 0
  /\ session = [k \in Keys |-> None] /\ lru = <<>> /\ session_bytes = 0
  /\ session_scope = NoScope /\ session_budget = 0 /\ session_ttl = 0
  /\ query_questions = 0 /\ query_requests = 0
  /\ now = 0
  /\ pc = [c \in Claims |-> "idle"]
  /\ key = [c \in Claims |-> None] /\ opts = [c \in Claims |-> None]
  /\ flight = [c \in Claims |-> c] /\ promise = [c \in Claims |-> None]
  /\ encoded = [c \in Claims |-> None]
  /\ started = 0 /\ enrolled = {} /\ sent = {} /\ unshared = {} /\ recent = <<>>

OwnerStep(c) == Store(c) \/ SetValue(c) \/ Abandon(c) \/ Release(c)

ClaimStep(c) == \/ \E k \in Keys : Acquire(c, k)
                \/ OwnerStep(c)
                \/ Orphan(c) \/ AwaitFlight(c) \/ Leave(c)

Next == \/ \E S \in SUBSET Claims : Snapshot(S)
        \/ \E c \in Claims : ClaimStep(c)
        \/ \E S \in SUBSET Claims : \E requests \in 1 .. Cardinality(S) : Reserve(S, requests)
        \/ ClearSession
        \/ QueryEnd
        \/ Tick

Spec == Init /\ [][Next]_vars

(* An owner that has work to publish or to give up gets to do so, and a    *)
(* waiter polls its future every 20 ms.                                    *)
Fairness == \A c \in Claims : WF_vars(OwnerStep(c)) /\ WF_vars(AwaitFlight(c))
FairSpec == Spec /\ Fairness

-----------------------------------------------------------------------------
(* Properties *)

ClaimPc == {"idle", "ready", "waiting", "owner", "sent", "stored", "set", "broken",
            "orphan", "late", "done"}

(* Type invariant: every field holds a value of its kind.  session_bytes,  *)
(* a sum, is the business of SessionAccounting.                            *)
TypeOK ==
  /\ options \in Settings \cup {None}
  /\ answers \in [Keys -> Answer \cup {None}]
  /\ bytes \in Nat
  /\ flights \in [Keys -> Claims \cup {None}]
  /\ flight_bytes \in Nat
  /\ session \in [Keys -> Entry \cup {None}]
  /\ lru \in Seq(Keys) /\ recent \in Seq(Keys)
  /\ session_scope \in Scopes \cup {NoScope}
  /\ session_budget \in Nat /\ session_ttl \in Nat
  /\ query_questions \in Nat /\ query_requests \in Nat
  /\ now \in Nat /\ started \in Nat
  /\ pc \in [Claims -> ClaimPc]
  /\ key \in [Claims -> Keys \cup {None}]
  /\ opts \in [Claims -> Settings \cup {None}]
  /\ flight \in [Claims -> Claims]
  /\ promise \in [Claims -> Answer \cup {None, Open, Broken}]
  /\ encoded \in [Claims -> Answer \cup {None}]
  /\ enrolled \subseteq Claims /\ sent \subseteq Claims
  /\ unshared \subseteq Keys

(***************************************************************************)
(* Registry exactness (Acquire, Release, QueryEnd): the registry holds     *)
(* exactly the flights that were registered in this query and not yet      *)
(* released.  An abandoning row of an earlier query, released by a pool    *)
(* worker after QueryEnd, must not take out the flight a later query       *)
(* registered for the same key.                                            *)
(***************************************************************************)
RegistryExact ==
  \A k \in Keys, c \in Claims : flights[k] = c <=> c \in enrolled /\ key[c] = k

(***************************************************************************)
(* Byte counts (Acquire, Store, Release, QueryEnd): flight_bytes and bytes *)
(* are what the registered keys and the cached answers weigh, whoever      *)
(* stores or releases twice or late, so that the unsigned differences      *)
(* never wrap and the bounds of both registries are kept.                  *)
(***************************************************************************)
BytesExact ==
  /\ flight_bytes = SumFunctionOnSet(KeySize, Held(flights))
  /\ flight_bytes <= FlightBytes
  /\ Cardinality(Held(flights)) <= MaxFlights
  /\ bytes = SumFunction([k \in Held(answers) |-> KeySize[k] + answers[k].size])
  /\ options = None => bytes = 0
  /\ options # None => bytes <= options.cache_bytes
  /\ Cardinality(Held(answers)) <= MaxAnswers

(* A claim that asked, or is about to ask, its question in this query. *)
Asks(c) == \/ pc[c] \in {"owner", "sent", "stored", "set"}
           \/ pc[c] = "done" /\ c \in sent /\ promise[c] # Broken

(***************************************************************************)
(* Asked once (Complete stores the answer before it releases the flight):  *)
(* unless some answer or flight found no room, no two claims of a query    *)
(* ask the same question, however their calls interleave.                  *)
(***************************************************************************)
AskedOnce ==
  \A c, d \in Claims :
    Asks(c) /\ Asks(d) /\ key[c] = key[d] /\ key[c] \notin unshared => c = d

(* Session accounting (StoreSession, EraseSession): the map and the LRU    *)
(* list hold the same keys, once each, session_bytes is their weight, and  *)
(* it is within the budget.                                                *)
SessionAccounting ==
  /\ session_bytes = SessionBytes(Held(session))
  /\ session_bytes <= session_budget
  /\ Len(lru) = Cardinality(Held(session))
  /\ { lru[i] : i \in DOMAIN lru } = Held(session)
  /\ Len(lru) <= MaxSession

Before(s, j, k) == \E m, n \in DOMAIN s : m < n /\ s[m] = j /\ s[n] = k

(* Recency (Acquire's splice, StoreSession's eviction from the back): of   *)
(* any two cached keys the list holds first the one used last, whatever    *)
(* was replaced, expired, evicted or cleared in between.                   *)
LruIsRecency ==
  \A j, k \in Held(session) : Before(lru, j, k) <=> Before(recent, j, k)

(* Freshness (Acquire's expiry check, a TTL that hits do not extend, the   *)
(* clear on a TTL change): no answer a query serves was already older than *)
(* its TTL when the query took its snapshot.                               *)
NoExpiredAnswer ==
  options # None =>
    \A k \in Keys : answers[k] # None => started < answers[k].stored + options.session_ttl

(* Isolation (Snapshot's clear on a scope change, one snapshot per query): *)
(* what a claim is served answers its own key, and was obtained with the   *)
(* endpoint, model and credential of its own query.                        *)
ServedRight ==
  \A c \in Claims : pc[c] \in {"waiting", "done"} /\ promise[flight[c]] \in Answer =>
    /\ promise[flight[c]].key = key[c]
    /\ promise[flight[c]].scope = opts[c].scope

(* Budgets (Reserve, QueryEnd): no more questions are dispatched than the  *)
(* query's limits allow, counting the unsigned differences as they wrap.   *)
WithinBudget ==
  options # None => /\ Cardinality(sent) <= options.max_query_questions
                    /\ query_requests <= options.max_query_requests

(* Progress (Complete and Abandon settle every promise): whoever waits for *)
(* a flight is answered, or told that its owner failed.                    *)
FollowersAnswered == \A c \in Claims : pc[c] = "waiting" ~> pc[c] = "done"
=============================================================================
