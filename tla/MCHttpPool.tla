----------------------------- MODULE MCHttpPool -----------------------------
(* Instances of HttpPool for TLC. *)
EXTENDS HttpPool

CONSTANTS w1, w2, w3, x, y, a, b, c, d

(* x may run one task at a time, y two; a, b belong to x, c, d to y. *)
MCCtx   == [t \in Tasks |-> IF t \in {a, b} THEN x ELSE y]
MCLimit == [k \in Contexts |-> IF k = x THEN 1 ELSE 2]
=============================================================================
