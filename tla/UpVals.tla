------------------------------- MODULE UpVals -------------------------------
(***************************************************************************)
(* Upvalues (src/lua/lfunc.c): how closures share the local variables of   *)
(* running functions, on the stacks of several coroutines, while stacks    *)
(* move in memory, blocks and functions end, and the collector sweeps.     *)
(*                                                                         *)
(* An upvalue points to a stack slot while the variable is active, and     *)
(* holds the value itself afterwards.  A pointer names the memory block of *)
(* the stack it was taken in: once the stack is reallocated the block is   *)
(* gone.  Every closure has one upvalue here: OP_CLOSURE repeats, for the  *)
(* others, what it does for the first.  The collector is reduced to what   *)
(* it does to upvalues: what was unreachable in the last atomic, and is    *)
(* not swept yet, is in `dead'.                                            *)
(***************************************************************************)
EXTENDS Naturals, Sequences, FiniteSets, SequencesExt

CONSTANTS Thread,      \* coroutines
          Main,        \* the main thread, which is always reachable
          Clo,         \* addresses of closures
          Uv,          \* addresses of upvalues
          Data,        \* values of variables
          None,
          Garbage,     \* what a stale pointer gives
          MaxTop,      \* bound: active variables of a thread
          MaxCell      \* bound: variables declared in one run

ASSUME UpValAssumption ==
    /\ Main \in Thread
    /\ None \notin Uv \cup Data /\ Garbage \notin Data
    /\ Thread \cap Clo = {} /\ Thread \cap Uv = {} /\ Clo \cap Uv = {}
    /\ MaxTop \in Nat /\ MaxCell \in Nat

VARIABLES stack,     \* stack[L]: the values of the active variables of L
          block,     \* block[L]: the memory block of the stack of L
          uv,        \* uv[u]: the upvalue at u
          openupval, \* openupval[L]: open upvalues into L's stack, topmost first
          upval,     \* upval[c]: the upvalue of closure c
          held,      \* the closures and threads the program can still reach
          alive,     \* the threads that are not freed
          dead,      \* objects found unreachable and not swept yet
          unswept,   \* threads still to be swept in this cycle
          val, scope, cap, out  \* history: the cells of module Variables

stacks == <<stack, block>>
closures == <<uv, openupval, upval>>
gc == <<held, alive, dead, unswept>>
vars == <<stacks, closures, gc, val, scope, cap, out>>

Cells == INSTANCE Variables

----------------------------------------------------------------------------
Block == {0, 1}
Pointer == [thread : Thread, block : Block, level : 1 .. MaxTop]
UpVal == {None} \cup [st : {"open"}, v : Pointer] \cup [st : {"closed"}, v : Data]

ASSUME NoneAssumption == None \notin [st : {"open", "closed"}, v : Pointer \cup Data]

TypeOK ==
    /\ stack \in [Thread -> BoundedSeq(Data, MaxTop)]
    /\ block \in [Thread -> Block]
    /\ uv \in [Uv -> UpVal]
    /\ openupval \in [Thread -> BoundedSeq(Uv, MaxTop)]
    /\ upval \in [Clo -> Uv \cup {None}]
    /\ held \in SUBSET (Clo \cup Thread)
    /\ alive \in SUBSET Thread
    /\ dead \in SUBSET (Clo \cup Thread \cup Uv)
    /\ unswept \in SUBSET Thread

Init ==
    /\ stack = [L \in Thread |-> <<>>]
    /\ block = [L \in Thread |-> 0]
    /\ uv = [u \in Uv |-> None]
    /\ openupval = [L \in Thread |-> <<>>]
    /\ upval = [c \in Clo |-> None]
    /\ held = Thread
    /\ alive = Thread
    /\ dead = {}
    /\ unswept = {}
    /\ Cells!Init

----------------------------------------------------------------------------
(* Pointers and lists.                                                     *)

Slot(L, i) == [thread |-> L, block |-> block[L], level |-> i]

\* a pointer taken before the stack moved, or above its top, leads nowhere
Valid(p) == p.block = block[p.thread] /\ p.level <= Len(stack[p.thread])

IsOpen(u) == uv[u] # None /\ uv[u].st = "open"
Level(u) == uv[u].v.level

\* *uv->v
Deref(u) ==
    IF uv[u] = None THEN Garbage
    ELSE IF uv[u].st = "closed" THEN uv[u].v
    ELSE IF Valid(uv[u].v) THEN stack[uv[u].v.thread][uv[u].v.level]
    ELSE Garbage

\* how far the loops of luaF_findupval and luaF_close go: to the first
\* upvalue that is not above level n
Above(L, n) ==
    Cardinality({k \in DOMAIN openupval[L] :
        \A j \in 1 .. k : Level(openupval[L][j]) > n})

\* Mutant: the search stops at the first upvalue that is not below the level.
Found_NotBelow(L, i) == {u \in ToSet(openupval[L]) : Level(u) >= i}

\* the open upvalue of L that points to level i, if there is one
Found(L, i) == {u \in ToSet(openupval[L]) : uv[u].v = Slot(L, i)}

\* Mutant: a dead upvalue that is found stays dead.
luaF_findupval_StaysDead(L, i, u) ==
    IF Found(L, i) # {}
      THEN u \in Found(L, i) /\ UNCHANGED <<uv, openupval, dead>>
      ELSE /\ uv[u] = None
           /\ uv' = [uv EXCEPT ![u] = [st |-> "open", v |-> Slot(L, i)]]
           /\ openupval' = [openupval EXCEPT ![L] = InsertAt(@, Above(L, i) + 1, u)]
           /\ UNCHANGED dead
\* Mutant: the new upvalue is put at the head of the list.
luaF_findupval_AtHead(L, i, u) ==
    IF Found(L, i) # {}
      THEN u \in Found(L, i) /\ dead' = dead \ {u} /\ UNCHANGED <<uv, openupval>>
      ELSE /\ uv[u] = None
           /\ uv' = [uv EXCEPT ![u] = [st |-> "open", v |-> Slot(L, i)]]
           /\ openupval' = [openupval EXCEPT ![L] = <<u>> \o @]
           /\ UNCHANGED dead

\* luaF_findupval: the upvalue u of level i, brought back if it was dead, or
\* a new one in its place in the list
luaF_findupval(L, i, u) ==
    IF Found(L, i) # {}
      THEN u \in Found(L, i) /\ dead' = dead \ {u} /\ UNCHANGED <<uv, openupval>>
      ELSE /\ uv[u] = None
           /\ uv' = [uv EXCEPT ![u] = [st |-> "open", v |-> Slot(L, i)]]
           /\ openupval' = [openupval EXCEPT ![L] = InsertAt(@, Above(L, i) + 1, u)]
           /\ UNCHANGED dead

\* the upvalues above level n: the head of the list
Closing(L, n) == {openupval[L][k] : k \in 1 .. Above(L, n)}

\* Mutant: the value of the variable is not copied into the upvalue.
luaF_close_NoCopy(L, n, D) ==
    LET C == Closing(L, n) IN
    /\ uv' = [u \in Uv |-> IF u \notin C THEN uv[u]
                           ELSE IF u \in D THEN None
                           ELSE [st |-> "closed", v |-> Garbage]]
    /\ openupval' = [openupval EXCEPT ![L] = SubSeq(@, Above(L, n) + 1, Len(@))]

\* luaF_close, above level n: the upvalues leave the list with the value of
\* their slot; the ones in D, which are dead, are freed
luaF_close(L, n, D) ==
    LET C == Closing(L, n) IN
    /\ uv' = [u \in Uv |-> IF u \notin C THEN uv[u]
                           ELSE IF u \in D THEN None
                           ELSE [st |-> "closed", v |-> Deref(u)]]
    /\ openupval' = [openupval EXCEPT ![L] = SubSeq(@, Above(L, n) + 1, Len(@))]

----------------------------------------------------------------------------
(* The program: L is a thread whose frames it runs.                        *)

\* a local variable becomes active
Declare(L, v) ==
    /\ L \in held
    /\ Len(stack[L]) < MaxTop
    /\ stack' = [stack EXCEPT ![L] = Append(@, v)]
    /\ Cells!Declare(L, v)
    /\ UNCHANGED <<block, closures, gc>>

\* OP_CLOSE, OP_RETURN, or an error that unwinds the stack (luaD_pcall):
\* the variables above level n end
Leave(L, n) ==
    /\ L \in held
    /\ n < Len(stack[L])
    /\ luaF_close(L, n, dead)
    /\ dead' = {x \in dead : x \in Uv => uv'[x] # None}
    /\ stack' = [stack EXCEPT ![L] = SubSeq(@, 1, n)]
    /\ Cells!Leave(L, n)
    /\ UNCHANGED <<block, upval, held, alive, unswept>>

SetLocal(L, i, v) ==
    /\ L \in held
    /\ stack' = [stack EXCEPT ![L][i] = v]
    /\ Cells!Assign(scope[L][i], v)
    /\ UNCHANGED <<block, closures, gc>>

GetLocal(L, i) ==
    /\ L \in held
    /\ out' = <<L, i, stack[L][i]>>
    /\ UNCHANGED <<stacks, closures, gc, val, scope, cap>>

\* OP_CLOSURE
NewClosure(c, u, cell) ==
    /\ upval[c] = None
    /\ upval' = [upval EXCEPT ![c] = u]
    /\ held' = held \cup {c}
    /\ cap' = [cap EXCEPT ![c] = <<cell>>]
    /\ UNCHANGED <<stacks, alive, unswept, val, scope, out>>

\* ... of a function that refers to a local variable of the running one
ClosureOfLocal(L, c, i, u) ==
    /\ L \in held
    /\ luaF_findupval(L, i, u)
    /\ NewClosure(c, u, scope[L][i])

\* ... of one that refers to an upvalue of the running one, f
ClosureOfUpvalue(f, c) ==
    /\ f \in held
    /\ NewClosure(c, upval[f], cap[f][1])
    /\ UNCHANGED <<uv, openupval, dead>>

\* OP_SETUPVAL
SetUpval(c, v) ==
    LET u == upval[c] IN
    /\ c \in held
    /\ IF IsOpen(u)
         THEN /\ Valid(uv[u].v)
              /\ stack' = [stack EXCEPT ![uv[u].v.thread][Level(u)] = v]
              /\ UNCHANGED uv
         ELSE uv' = [uv EXCEPT ![u].v = v] /\ UNCHANGED stack
    /\ Cells!Assign(cap[c][1], v)
    /\ UNCHANGED <<block, openupval, upval, gc>>

\* OP_GETUPVAL
GetUpval(c) ==
    /\ c \in held
    /\ out' = <<c, 1, Deref(upval[c])>>
    /\ UNCHANGED <<stacks, closures, gc, val, scope, cap>>

\* Mutant: correctstack forgets the upvalues.
luaD_reallocstack_NoUpvals(L) ==
    /\ L \in held
    /\ block' = [block EXCEPT ![L] = 1 - @]
    /\ UNCHANGED <<stack, closures, gc, val, scope, cap, out>>

\* luaD_reallocstack and correctstack: the stack grows, or shrinks in a
\* collection, and moves; the open upvalues of L follow
luaD_reallocstack(L) ==
    /\ L \in held
    /\ block' = [block EXCEPT ![L] = 1 - @]
    /\ uv' = [u \in Uv |-> IF u \in ToSet(openupval[L])
                             THEN [uv[u] EXCEPT !.v.block = block'[L]] ELSE uv[u]]
    /\ UNCHANGED <<stack, openupval, upval, gc, val, scope, cap, out>>

\* the program drops its last reference to a closure or to a coroutine
Forget(x) ==
    /\ held' = held \ {x}
    /\ UNCHANGED <<stacks, closures, alive, dead, unswept, val, scope, cap, out>>

----------------------------------------------------------------------------
(* The collector.                                                          *)

\* atomic: an upvalue is kept by the closures that have it, and by nothing
\* else; an open one does not keep the thread it points into
atomic ==
    /\ dead = {} /\ unswept = {}
    /\ dead' = {x \in alive \cup {c \in Clo : upval[c] # None} : x \notin held}
                 \cup {u \in Uv : uv[u] # None /\ \A c \in held \cap Clo : upval[c] # u}
    /\ unswept' = alive
    /\ UNCHANGED <<stacks, closures, held, alive, val, scope, cap, out>>

\* the n-th smallest element of K
Nth(K, n) == CHOOSE k \in K : Cardinality({j \in K : j <= k}) = n

\* what is left of a list when the elements in D leave it
Without(s, D) ==
    LET K == {k \in DOMAIN s : s[k] \notin D}
    IN  [n \in 1 .. Cardinality(K) |-> s[Nth(K, n)]]

Swept(L) == Without(openupval[L], dead)

\* sweeplist at a live thread: the dead upvalues leave its list
SweepThread(L) ==
    /\ L \in unswept \ dead
    /\ uv' = [u \in Uv |-> IF u \in ToSet(openupval[L]) \cap dead THEN None ELSE uv[u]]
    /\ openupval' = [openupval EXCEPT ![L] = Swept(L)]
    /\ dead' = dead \ ToSet(openupval[L])
    /\ unswept' = unswept \ {L}
    /\ UNCHANGED <<stacks, upval, held, alive, val, scope, cap, out>>

\* Mutant: luaE_freethread does not close the upvalues of the stack it frees.
FreeThread_Open(L) ==
    /\ L \in unswept \cap dead
    /\ openupval' = [openupval EXCEPT ![L] = <<>>]
    /\ stack' = [stack EXCEPT ![L] = <<>>]
    /\ scope' = [scope EXCEPT ![L] = <<>>]
    /\ alive' = alive \ {L}
    /\ dead' = dead \ {L}
    /\ unswept' = unswept \ {L}
    /\ UNCHANGED <<block, uv, upval, held, val, cap, out>>

\* ... and at a dead one, luaE_freethread: the others are closed, because a
\* closure may outlive the coroutine that made it
FreeThread(L) ==
    /\ L \in unswept \cap dead
    /\ luaF_close(L, 0, dead)
    /\ stack' = [stack EXCEPT ![L] = <<>>]
    /\ scope' = [scope EXCEPT ![L] = <<>>]
    /\ alive' = alive \ {L}
    /\ dead' = {x \in dead \ {L} : x \in Uv => uv'[x] # None}
    /\ unswept' = unswept \ {L}
    /\ UNCHANGED <<block, upval, held, val, cap, out>>

\* sweeplist at a dead closure or closed upvalue
FreeClosure(c) ==
    /\ c \in dead
    /\ upval' = [upval EXCEPT ![c] = None]
    /\ cap' = [cap EXCEPT ![c] = <<>>]
    /\ dead' = dead \ {c}
    /\ UNCHANGED <<stacks, uv, openupval, held, alive, unswept, val, scope, out>>

FreeUpval(u) ==
    /\ u \in dead /\ ~IsOpen(u)
    /\ uv' = [uv EXCEPT ![u] = None]
    /\ dead' = dead \ {u}
    /\ UNCHANGED <<stacks, openupval, upval, held, alive, unswept, val, scope, cap, out>>

Collector ==
    \/ atomic
    \/ \E L \in Thread : SweepThread(L) \/ FreeThread(L)
    \/ \E c \in Clo : FreeClosure(c)
    \/ \E u \in Uv : FreeUpval(u)

Program ==
    \/ \E L \in Thread :
        \/ \E v \in Data : Declare(L, v)
        \/ \E n \in 0 .. MaxTop : Leave(L, n)
        \/ luaD_reallocstack(L)
        \/ \E i \in DOMAIN stack[L] :
            \/ GetLocal(L, i)
            \/ \E v \in Data : SetLocal(L, i, v)
            \/ \E c \in Clo, u \in Uv : ClosureOfLocal(L, c, i, u)
    \/ \E c \in Clo :
        \/ GetUpval(c)
        \/ \E v \in Data : SetUpval(c, v)
        \/ \E f \in Clo : ClosureOfUpvalue(f, c)
    \/ \E x \in held \ {Main} : Forget(x)

Next == Program \/ Collector

Spec == Init /\ [][Next]_vars

(* Two states that differ in the last read, in the value of a variable     *)
(* nobody can name any more, or in the names of the memory blocks, go on   *)
(* alike: the runs compare states up to that.                              *)
Nameable == UNION {Range(f) : f \in Range(scope) \cup Range(cap)}

View ==
    <<stack, openupval, upval, gc, scope, cap,
      [u \in Uv |-> IF IsOpen(u) THEN <<uv[u].v.thread, Level(u), Valid(uv[u].v)>> ELSE uv[u]],
      [n \in DOMAIN val |-> IF n \in Nameable THEN val[n] ELSE None]>>

----------------------------------------------------------------------------
(* Properties.                                                             *)

\* Every list is in the order of the stack, topmost first, with one upvalue
\* for a slot, and holds exactly the open upvalues, which point into the
\* memory the stack is in now.
OpenLists ==
    /\ \A L \in Thread : \A j, k \in DOMAIN openupval[L] :
          j < k => Level(openupval[L][j]) > Level(openupval[L][k])
    /\ \A L \in Thread : ToSet(openupval[L]) =
          {u \in Uv : IsOpen(u) /\ uv[u].v.thread = L}
    /\ \A u \in Uv : IsOpen(u) => uv[u].v.thread \in alive /\ Valid(uv[u].v)

\* The upvalue of a closure the program holds is neither freed nor about to
\* be, even if the collector found it unreachable in this very cycle.
UpvalsLive == \A c \in held \cap Clo : uv[upval[c]] # None /\ upval[c] \notin dead

\* Closures read what lexical scoping says: the sharing of variables is that
\* of module Variables, whatever moves, ends or is collected.
LexicalScoping == Cells!Spec
=============================================================================
