----------------------------- MODULE MC_UpVals -----------------------------
(* UpVals with one coroutine, three closures and three upvalues.            *)
EXTENDS UpVals, TLC

Symmetry == Permutations(Clo) \cup Permutations(Uv) \cup Permutations(Data)
=============================================================================
