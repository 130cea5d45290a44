----------------------------- MODULE Coroutines -----------------------------
(***************************************************************************)
(* What a coroutine promises: it is resumed by one thread at a time, gives *)
(* control back to the thread that resumed it, and never runs again once   *)
(* it has returned or failed.  The exception is one that returned more     *)
(* results than its resumer has room for: it is spoiled, and is resumed as *)
(* if it were new.  Module Do implements this one.                        *)
(***************************************************************************)
EXTENDS Naturals

CONSTANTS Main, Co

VARIABLES running,  \* the thread in control
          resumer,  \* resumer[c]: the thread that resumed c, of each active c
          state,    \* the state of each coroutine
          over      \* the main thread has returned

vars == <<running, resumer, state, over>>

Init ==
    /\ running = Main
    /\ resumer = [c \in {} |-> Main]
    /\ state = [c \in Co |-> "none"]
    /\ over = FALSE

Create(c) ==
    /\ ~over /\ state[c] = "none"
    /\ state' = [state EXCEPT ![c] = "fresh"]
    /\ UNCHANGED <<running, resumer, over>>

Resume(c) ==
    /\ ~over /\ state[c] \in {"fresh", "suspended", "spoiled"}
    /\ state' = [state EXCEPT ![c] = "active"]
    /\ resumer' = [d \in DOMAIN resumer \cup {c} |-> IF d = c THEN running ELSE resumer[d]]
    /\ running' = c
    /\ UNCHANGED over

\* control goes back to the thread that resumed c
Leave(c, s) ==
    /\ ~over /\ running = c
    /\ state' = [state EXCEPT ![c] = s]
    /\ running' = resumer[c]
    /\ resumer' = [d \in DOMAIN resumer \ {c} |-> resumer[d]]
    /\ UNCHANGED over

Yield(c) == Leave(c, "suspended")
End(c) == Leave(c, "dead") \/ Leave(c, "spoiled")

\* a coroutine that is to start when the C stack is exhausted is lost
Lose(c) ==
    /\ ~over /\ state[c] \in {"fresh", "spoiled"}
    /\ state' = [state EXCEPT ![c] = "dead"]
    /\ UNCHANGED <<running, resumer, over>>

Exit ==
    /\ ~over /\ running = Main
    /\ over' = TRUE
    /\ UNCHANGED <<running, resumer, state>>

Next ==
    \/ \E c \in Co : Create(c) \/ Resume(c) \/ Yield(c) \/ End(c) \/ Lose(c)
    \/ Exit

Spec == Init /\ [][Next]_vars
=============================================================================
