------------------------------- MODULE MC_Do -------------------------------
(* Do with two coroutines and a C stack of a few activations.               *)
EXTENDS Do, TLC

Symmetry == Permutations(Co)
=============================================================================
