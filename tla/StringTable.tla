---------------------------- MODULE StringTable ----------------------------
(***************************************************************************)
(* The string table (src/lua/lstring.c) under the incremental collector.   *)
(*                                                                         *)
(* Two strings of a Lua program are equal when they are the same object:   *)
(* luaS_newlstr looks every new string up in a hash table and returns the  *)
(* object that is there.  The collector sweeps the same table chain by     *)
(* chain, between steps of the program, and the table grows and shrinks.   *)
(* A chain is a set here: its order is never observed.  Of the collector   *)
(* only what touches strings is here; module LuaGC has the rest.           *)
(***************************************************************************)
EXTENDS Integers, FiniteSets

CONSTANTS Str,      \* contents of strings
          Obj,      \* addresses of string objects
          None,
          Hash,     \* Hash[s]: the hash of contents s
          Fixed,    \* contents fixed at start (luaS_fix): reserved words
          MinSize,  \* MINSTRTABSIZE, a power of two
          MaxSize   \* bound: the greatest size that may still double

ASSUME StringTableAssumption ==
    /\ None \notin Str
    /\ Hash \in [Str -> Nat]
    /\ Fixed \subseteq Str
    /\ MinSize \in Nat \ {0} /\ MaxSize \in Nat
    /\ IsFiniteSet(Obj)                     \* the addresses of a machine

VARIABLES hash,         \* strt.hash: the chains, by index
          size,         \* strt.size
          nuse,         \* strt.nuse
          str,          \* str[o]: the contents of the object at o
          mark,         \* mark[o]: a white, or "gray" for marked
          currentwhite, \* the white of what is alive
          gcstate,
          sweepstrgc,   \* the next chain to sweep
          full,         \* where luaC_fullgc is, "no" outside of it
          held          \* the strings the program can reach

table == <<hash, size, nuse, str>>
gc == <<currentwhite, gcstate, sweepstrgc, full>>
vars == <<table, mark, gc, held>>

White == {"white0", "white1"}
otherwhite == IF currentwhite = "white0" THEN "white1" ELSE "white0"
isdead(o) == mark[o] = otherwhite

InTable == UNION {hash[i] : i \in DOMAIN hash}
lmod(s, n) == Hash[s] % n

TypeOK ==
    /\ size \in Nat \ {0}
    /\ hash \in [0 .. size - 1 -> SUBSET Obj]
    /\ nuse \in Nat
    /\ str \in [Obj -> Str \cup {None}]
    /\ mark \in [Obj -> White \cup {"gray"}]
    /\ currentwhite \in White
    /\ gcstate \in {"pause", "propagate", "sweepstring", "sweep", "finalize"}
    /\ sweepstrgc \in 0 .. size
    /\ full \in {"no", "sweep", "collect"}
    /\ held \subseteq Obj

\* f_luaopen sizes the table before luaX_init makes the fixed strings
Init ==
    /\ size = MinSize
    /\ str \in [Obj -> Fixed \cup {None}]
    /\ \A s \in Fixed : Cardinality({o \in Obj : str[o] = s}) = 1
    /\ hash = [i \in 0 .. size - 1 |->
                 {o \in Obj : str[o] \in Fixed /\ lmod(str[o], size) = i}]
    /\ nuse = Cardinality(Fixed)
    /\ mark = [o \in Obj |-> "white0"]
    /\ currentwhite = "white0"
    /\ gcstate = "pause"
    /\ sweepstrgc = 0
    /\ full = "no"
    /\ held = {}

----------------------------------------------------------------------------
(* The table.                                                              *)

\* Mutant: the chains are rehashed for the size the table had.
Rehashed_OldSize(h, n, S) ==
    [i \in 0 .. n - 1 |->
        {o \in UNION {h[j] : j \in DOMAIN h} : lmod(S[o], size) = i}]

\* the chains h rehashed for n indices; S is the contents by then
Rehashed(h, n, S) ==
    [i \in 0 .. n - 1 |->
        {o \in UNION {h[j] : j \in DOMAIN h} : lmod(S[o], n) = i}]

\* luaS_resize: nothing during the sweep of the strings
luaS_resize(h, n, S) ==
    IF gcstate = "sweepstring"
      THEN hash' = h /\ size' = size
      ELSE /\ hash' = Rehashed(h, n, S)
           /\ size' = n

\* the objects luaS_newlstr finds for s in its chain
Lookup(s) == {o \in hash[lmod(s, size)] : str[o] = s}

\* Mutant: a dead string that is found stays dead.
Found_StaysDead(o) == UNCHANGED mark

\* luaS_newlstr, the string is there: changewhite if it is dead
Found(o) == mark' = [mark EXCEPT ![o] = IF isdead(o) THEN currentwhite ELSE @]

\* Mutant: the string is created with the white that is being swept.
newlstr_OtherWhite(s, o) ==
    LET h == [hash EXCEPT ![lmod(s, size)] = @ \cup {o}] IN
    /\ str' = [str EXCEPT ![o] = s]
    /\ mark' = [mark EXCEPT ![o] = otherwhite]
    /\ nuse' = nuse + 1
    /\ IF nuse + 1 > size /\ size <= MaxSize
         THEN luaS_resize(h, 2 * size, str')
         ELSE hash' = h /\ UNCHANGED size

\* newlstr: a new object; the table doubles when it has more strings than chains
newlstr(s, o) ==
    LET h == [hash EXCEPT ![lmod(s, size)] = @ \cup {o}] IN
    /\ str' = [str EXCEPT ![o] = s]
    /\ mark' = [mark EXCEPT ![o] = currentwhite]
    /\ nuse' = nuse + 1
    /\ IF nuse + 1 > size /\ size <= MaxSize
         THEN luaS_resize(h, 2 * size, str')
         ELSE hash' = h /\ UNCHANGED size

\* luaS_newlstr, by any operation that makes a string
luaS_newlstr(s, o) ==
    /\ full = "no"
    /\ \/ /\ o \in Lookup(s)
          /\ Found(o)
          /\ UNCHANGED table
       \/ /\ Lookup(s) = {} /\ str[o] = None
          /\ newlstr(s, o)
    /\ held' = held \cup {o}
    /\ UNCHANGED gc

\* the program loses its last reference to a string
Forget(o) ==
    /\ full = "no"
    /\ held' = held \ {o}
    /\ UNCHANGED <<table, mark, gc>>

----------------------------------------------------------------------------
(* The collector.                                                          *)

\* markroot: a cycle starts, or the one luaC_fullgc runs after its sweep
markroot ==
    /\ \/ gcstate = "pause" /\ UNCHANGED full
       \/ gcstate = "finalize" /\ full = "sweep" /\ full' = "collect"
    /\ gcstate' = "propagate"
    /\ UNCHANGED <<table, mark, currentwhite, sweepstrgc, held>>

\* reallymarkobject on a string
MarkString(o) ==
    /\ gcstate = "propagate"
    /\ o \in held /\ mark[o] \in White
    /\ mark' = [mark EXCEPT ![o] = "gray"]
    /\ UNCHANGED <<table, gc, held>>

\* atomic: what is reachable is marked, and the whites are exchanged
atomic ==
    /\ gcstate = "propagate"
    /\ mark' = [o \in Obj |-> IF o \in held THEN "gray" ELSE mark[o]]
    /\ currentwhite' = otherwhite
    /\ sweepstrgc' = 0
    /\ gcstate' = "sweepstring"
    /\ UNCHANGED <<table, full, held>>

\* Mutant: the sweep forgets that a string may be fixed.
Kept_EvenFixed(o) == mark[o] # otherwhite

\* sweeplist keeps what is not of the other white, and fixed strings: the
\* fixed bit of currentwhite makes it part of the mask
Kept(o) == mark[o] # otherwhite \/ str[o] \in Fixed

\* Mutant: freed strings are not counted.
SweepChain_Uncounted ==
    LET freed == {o \in hash[sweepstrgc] : ~Kept(o)} IN
    /\ hash' = [hash EXCEPT ![sweepstrgc] = @ \ freed]
    /\ str' = [o \in Obj |-> IF o \in freed THEN None ELSE str[o]]
    /\ mark' = [o \in Obj |-> IF o \in hash[sweepstrgc] \ freed THEN currentwhite
                            ELSE IF o \in freed THEN "white0" ELSE mark[o]]
    /\ UNCHANGED nuse

\* sweepwholelist and freeobj on the next chain
SweepChain ==
    LET freed == {o \in hash[sweepstrgc] : ~Kept(o)} IN
    /\ hash' = [hash EXCEPT ![sweepstrgc] = @ \ freed]
    /\ str' = [o \in Obj |-> IF o \in freed THEN None ELSE str[o]]
    /\ mark' = [o \in Obj |-> IF o \in hash[sweepstrgc] \ freed THEN currentwhite
                            ELSE IF o \in freed THEN "white0" ELSE mark[o]]
    /\ nuse' = nuse - Cardinality(freed)

\* singlestep in GCSsweepstring
sweepstring ==
    /\ gcstate = "sweepstring"
    /\ SweepChain
    /\ sweepstrgc' = sweepstrgc + 1
    /\ gcstate' = IF sweepstrgc' >= size THEN "sweep" ELSE gcstate
    /\ UNCHANGED <<size, currentwhite, full, held>>

\* Mutant: the table is halved without a check of its size.
checkSizes_Always ==
    /\ gcstate = "sweep"
    /\ luaS_resize(hash, size \div 2, str) /\ sweepstrgc' = size'
    /\ gcstate' = "finalize"
    /\ UNCHANGED <<nuse, str, mark, currentwhite, full, held>>

\* the end of GCSsweep: checkSizes halves a table that is mostly empty
checkSizes ==
    /\ gcstate = "sweep"
    /\ IF nuse < size \div 4 /\ size > MinSize * 2
         THEN luaS_resize(hash, size \div 2, str) /\ sweepstrgc' = size'
         ELSE UNCHANGED <<hash, size, sweepstrgc>>
    /\ gcstate' = "finalize"
    /\ UNCHANGED <<nuse, str, mark, currentwhite, full, held>>

\* the end of GCSfinalize
EndCycle ==
    /\ gcstate = "finalize" /\ full # "sweep"
    /\ gcstate' = "pause"
    /\ full' = "no"
    /\ UNCHANGED <<table, mark, currentwhite, sweepstrgc, held>>

\* luaC_fullgc: a cycle that has not reached its sweep is thrown away, and
\* everything is swept back to white, without a change of white
luaC_fullgc ==
    /\ full = "no"
    /\ full' = "sweep"
    /\ IF gcstate \in {"pause", "propagate"}
         THEN gcstate' = "sweepstring" /\ sweepstrgc' = 0
         ELSE UNCHANGED <<gcstate, sweepstrgc>>
    /\ UNCHANGED <<table, mark, currentwhite, held>>

Next ==
    \/ \E o \in Obj :
        \/ \E s \in Str : luaS_newlstr(s, o)
        \/ Forget(o)
        \/ MarkString(o)
    \/ markroot \/ atomic \/ sweepstring \/ checkSizes \/ EndCycle
    \/ luaC_fullgc

Spec == Init /\ [][Next]_vars

----------------------------------------------------------------------------
(* Properties.                                                             *)

\* Equality of strings by address is right: every object is in the chain its
\* hash gives for the present size, no two have the same contents, and the
\* count that makes the table grow and shrink is that of its strings.
Interned ==
    /\ nuse = Cardinality(InTable)
    /\ \A i \in DOMAIN hash : \A o \in hash[i] : str[o] # None /\ lmod(str[o], size) = i
    /\ \A o, p \in InTable : str[o] = str[p] => o = p

\* A string the program holds, and a fixed one, is in the table, even if the
\* collector found it dead and it was looked up again before its chain was
\* swept.
StringsLive ==
    /\ held \subseteq InTable
    /\ \A s \in Fixed : \E o \in InTable : str[o] = s

\* No sweep misses a dead string: only chains still to be swept have any, so
\* that the next cycle, which exchanges the whites, begins without.
DeadOnlyUnswept ==
    \A i \in DOMAIN hash : \A o \in hash[i] :
        isdead(o) => gcstate = "sweepstring" /\ i >= sweepstrgc
=============================================================================
