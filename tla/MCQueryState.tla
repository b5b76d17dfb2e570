---------------------------- MODULE MCQueryState ----------------------------
(* Instances of QueryState for TLC. *)
EXTENDS QueryState, TLC

CONSTANTS k1, k2, k3, c1, c2, c3, scopeA, scopeB

Setting(scope, cache, session_size, ttl, questions, requests) ==
  [scope |-> scope, cache_bytes |-> cache, session_bytes |-> session_size,
   session_ttl |-> ttl, max_query_questions |-> questions,
   max_query_requests |-> requests]

ClaimSymmetry == Permutations(Claims)

(* Flights: the session cache is off (the default); caching on, too small for *)
(* two answers, and off; budgets for one, two or three questions.  k3 alone   *)
(* is over the byte bound of the registry, k1 and k2 meet its count.          *)
FlightSettings == { Setting(scopeA, 9, 0, 1, 3, 3), Setting(scopeA, 4, 0, 1, 2, 1),
                    Setting(scopeA, 0, 0, 1, 1, 2) }
FlightKeySize  == [k \in Keys |-> CASE k = k1 -> 1 [] k = k2 -> 2 [] OTHER -> 4]

(* Session: settings that differ in the credential, in the TTL and in the     *)
(* budget alone; storing k3 may have to evict both other keys.                *)
SessionSettings == { Setting(scopeA, 20, 14, 2, 3, 3), Setting(scopeB, 6, 14, 2, 3, 3),
                     Setting(scopeB, 20, 14, 1, 3, 3), Setting(scopeA, 0, 12, 2, 3, 3) }
SessionKeySize  == [k \in Keys |-> IF k = k3 THEN 4 ELSE 1]
=============================================================================
