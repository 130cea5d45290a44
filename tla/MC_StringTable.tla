--------------------------- MODULE MC_StringTable ---------------------------
(* Five strings, one of them fixed, with hashes that collide or not as the  *)
(* table doubles from one chain to eight and is halved again.               *)
EXTENDS StringTable, TLC

CONSTANTS s1, s2, s3, s4, s5

MCHash == (s1 :> 0) @@ (s2 :> 2) @@ (s3 :> 4) @@ (s4 :> 5) @@ (s5 :> 9)
Symmetry == Permutations(Obj)
=============================================================================
