-------------------------------- MODULE MCChunk --------------------------------
(* Instances of Chunk: a row of three questions over two packs, a repeated   *)
(* row and a NULL.                                                           *)
EXTENDS Chunk, TLC

CONSTANTS k1, k2, m1, m2

MCQuestions == (k1 :> 3) @@ (k2 :> 1)
MCInput     == <<k1, Null, k2, k1>>
================================================================================
