------------------------------ MODULE MCJevStream ------------------------------
(* Instances of JevStream. *)
EXTENDS JevStream, TLC

CONSTANTS k1, k2, k3, m1, m2

MCQuestions == (k1 :> 2) @@ (k2 :> 1) @@ (k3 :> 3)
MCKeyBytes  == (k1 :> 2) @@ (k2 :> 1) @@ (k3 :> 4) @@ (Null :> 1)
MCWireBytes == (k1 :> 1) @@ (k2 :> 2) @@ (k3 :> 1)

(* A row of three questions over two packs, a duplicate of the first row,  *)
(* a NULL row behind it.                                                   *)
MCInput == <<k1, k2, k1, Null, k3>>
MCEnds  == <<3, 5>>
================================================================================
