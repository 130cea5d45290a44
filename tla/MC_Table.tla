------------------------------ MODULE MC_Table ------------------------------
(* Table with small integers, whose hashes are those of the IEEE doubles   *)
(* (the sum of the two words), a string and an object that collide.        *)
EXTENDS Table, TLC

CONSTANTS s, o

MCIndex == 1 .. 3
MCHash == (1 :> 1072693248) @@ (2 :> 1073741824) @@ (3 :> 1074266112) @@ (s :> 3) @@ (o :> 6)
MCKeyHash == [k \in Key |-> MCHash[k]]
Symmetry == Permutations(Val)
=============================================================================
