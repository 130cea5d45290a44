------------------------------ MODULE TableMap ------------------------------
(***************************************************************************)
(* What a table promises: it is a map from keys to values, where nil is    *)
(* the absence of a value, and an assignment changes one key.              *)
(* Module Table implements it.                                             *)
(***************************************************************************)
CONSTANTS Key, Val, nil

VARIABLE map

Init == map = [k \in Key |-> nil]

Next == \E k \in Key, v \in Val \cup {nil} : map' = [map EXCEPT ![k] = v]

Spec == Init /\ [][Next]_map
=============================================================================
