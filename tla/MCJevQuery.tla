----------------------------- MODULE MCJevQuery -----------------------------
(* Instances of JevQuery for TLC. *)
EXTENDS JevQuery

CONSTANTS k1, k2, ra, rb, rc, rd, re, t1, t2, scopeA

Setting(cache, questions) ==
  [scope |-> scopeA, cache_bytes |-> cache, session_bytes |-> 0, session_ttl |-> 1,
   max_query_questions |-> questions, max_query_requests |-> 9]

(* With and without the in-query cache; a budget of two questions.           *)
TwoSettings == { Setting(9, 2), Setting(0, 9) }
AmpleSetting == { Setting(9, 9) }
OneByte     == [k \in Keys |-> 1]

Eval(rs)  == [op |-> "eval", rows |-> rs]
Input(rs) == [op |-> "input", rows |-> rs]
Final     == [op |-> "final", rows |-> <<>>]

(* Two threads that own opposite subsets of the same two keys. *)
ScalarCalls == [t \in Threads |-> IF t = t1 THEN <<Eval(<<ra, rb>>)>>
                                            ELSE <<Eval(<<rc, rd>>), Eval(<<re>>)>>]
ScalarKeys  == [r \in Claims |-> IF r \in {ra, rd, re} THEN k1 ELSE k2]

(* Two streams, one with a duplicate row and more rows than it may retain. *)
StreamCalls == [t \in Threads |-> IF t = t1 THEN <<Input(<<ra, rb, rc>>), Final>>
                                            ELSE <<Input(<<rd>>), Input(<<re>>), Final>>]
StreamKeys  == [r \in Claims |-> IF r \in {ra, rc, re} THEN k1 ELSE k2]

(* jev_stream((SELECT jev_eval(x), y, ...)) over the chunks (x, y) = (k2, k1) *)
(* and (k1, NULL): a scalar function and a stream in one pipeline.            *)
PipelineCalls == [t \in Threads |-> <<Eval(<<ra>>), Input(<<rb>>), Eval(<<rc>>), Final>>]
PipelineKeys  == [r \in Claims |-> IF r = ra THEN k2 ELSE k1]
=============================================================================
