----------------------------- MODULE Variables -----------------------------
(***************************************************************************)
(* Lexical scoping, as the language promises it: every activation of a     *)
(* local variable is a cell of its own, a closure captures cells, and a    *)
(* read gives the value last assigned to the cell, through whatever name   *)
(* and on whatever coroutine the assignment was made.                      *)
(* UpVals implements this module.                                          *)
(***************************************************************************)
EXTENDS Naturals, Sequences

CONSTANTS Thread, Clo, Data, None,
          MaxCell      \* bound: variables declared in one run

VARIABLES val,    \* val[n]: the value of cell n
          scope,  \* scope[L]: the cells of the active local variables of L
          cap,    \* cap[c]: the cells closure c captured
          out     \* the last read: whose variable, which one, its value

vars == <<val, scope, cap, out>>

Init ==
    /\ val = <<>>
    /\ scope = [L \in Thread |-> <<>>]
    /\ cap = [c \in Clo |-> <<>>]
    /\ out = None

Declare(L, v) ==
    /\ Len(val) < MaxCell
    /\ val' = Append(val, v)
    /\ scope' = [scope EXCEPT ![L] = Append(@, Len(val) + 1)]
    /\ UNCHANGED <<cap, out>>

Leave(L, n) ==
    /\ scope' = [scope EXCEPT ![L] = SubSeq(@, 1, n)]
    /\ UNCHANGED <<val, cap, out>>

Assign(n, v) ==
    /\ val' = [val EXCEPT ![n] = v]
    /\ UNCHANGED <<scope, cap, out>>

\* a new closure captures local variables of L, or what a closure captured
Capture(L, c) ==
    /\ cap' = [cap EXCEPT ![c] = cap'[c]]
    /\ \A j \in DOMAIN cap'[c] :
          \/ \E i \in DOMAIN scope[L] : cap'[c][j] = scope[L][i]
          \/ \E d \in Clo : \E i \in DOMAIN cap[d] : cap'[c][j] = cap[d][i]
    /\ UNCHANGED <<val, scope, out>>

Read(x, i, n) ==
    /\ out' = <<x, i, val[n]>>
    /\ UNCHANGED <<val, scope, cap>>

Next ==
    \/ \E L \in Thread :
        \/ \E v \in Data : Declare(L, v)
        \/ \E n \in 0 .. Len(scope[L]) : Leave(L, n)
        \/ \E i \in DOMAIN scope[L] :
            (\E v \in Data : Assign(scope[L][i], v)) \/ Read(L, i, scope[L][i])
        \/ \E c \in Clo : Capture(L, c)
    \/ \E c \in Clo : \E j \in DOMAIN cap[c] :
        (\E v \in Data : Assign(cap[c][j], v)) \/ Read(c, j, cap[c][j])

Spec == Init /\ [][Next]_vars
=============================================================================
