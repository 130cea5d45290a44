------------------------------- MODULE LuaGC -------------------------------
(***************************************************************************)
(* The incremental tri-colour collector of the Lua core (src/lua/lgc.c)    *)
(* and the operations of a running program that it must survive.           *)
(*                                                                         *)
(* An object is an element of Obj.  Its outgoing references are a set      *)
(* refs[o] (metatable, environment, upvalues, constants, stack slots) and, *)
(* for a table, a set entries[o] of <<key, value>> pairs that its weak     *)
(* mode may exclude from marking.  A prototype and the upvalues of a       *)
(* closure are part of the closure.  The lists that thread through gclist  *)
(* are sets: every order of traversal is allowed.                          *)
(*                                                                         *)
(* The collector and the program interleave: each step of the program may  *)
(* fall between any two calls of singlestep, except inside atomic and in   *)
(* the first half of luaC_fullgc, where no Lua code runs.                  *)
(***************************************************************************)
EXTENDS Integers, FiniteSets

CONSTANTS Obj,       \* addresses of collectable objects
          M,         \* the main thread
          R,         \* the registry, together with the globals table
          Data,      \* any value that is not collectable
          None,
          Kinds,     \* bound: Kinds[o] are the kinds of object created at o
          MaxStack,  \* bound: objects on a stack before it takes another
          MaxRefs,   \* bound: references of any other object
          MaxEntries,  \* bound: entries of a table
          KeySet,      \* bound: values the program uses as keys
          Metatables,  \* bound: Metatables[k] are the tables used as metatables
                       \* of "table", "udata" and values of "basic" types
          ModeSet      \* bound: weak modes the program gives to tables

AllKinds == {"table", "closure", "udata", "thread", "string"}
Modes == {"strong", "k", "v", "kv"}
Whites == {"white0", "white1"}
Colors == Whites \cup {"gray", "black"}
GCStates == {"pause", "propagate", "sweepstring", "sweep", "finalize"}

ASSUME GCAssumption ==
    /\ M \in Obj /\ R \in Obj /\ M # R
    /\ Data \notin Obj /\ None \notin Obj
    /\ Kinds \in [Obj -> SUBSET AllKinds]
    /\ KeySet \subseteq Obj \cup {Data}
    /\ Metatables \in [{"table", "udata", "basic"} -> SUBSET Obj]
    /\ ModeSet \subseteq Modes
    /\ MaxStack \in Nat /\ MaxRefs \in Nat /\ MaxEntries \in Nat

VARIABLES kind,         \* kind[o], "free" when o is not allocated
          refs,         \* refs[o]: references that are always strong
          entries,      \* entries[o]: the pairs in table o
          mode,         \* mode[o]: __mode of the metatable of table o
          hasgc,        \* hasgc[o]: the metatable of userdata o has __gc
          mt,           \* metatable shared by the values of a basic type
          color,        \* the mark bits
          finalized,    \* userdata whose FINALIZEDBIT is set
          currentwhite,
          gcstate,
          gray, grayagain, weak, \* the lists of the mark phase
          unswept,      \* objects at and after sweepstrgc and sweepgc
          tmudata,      \* userdata waiting for their finalizer
          full,         \* inside luaC_fullgc, before its finalizers
          calls         \* history: finalizer calls each object received

heap == <<kind, refs, entries, mode, hasgc, mt>>
lists == <<gray, grayagain, weak>>
vars == <<heap, color, finalized, currentwhite, gcstate, lists, unswept,
          tmudata, full, calls>>

----------------------------------------------------------------------------
Value == Obj \cup {Data}
Alloc == {o \in Obj : kind[o] # "free"}
OfKind(K) == {o \in Obj : kind[o] \in K}

TypeOK ==
    /\ kind \in [Obj -> AllKinds \cup {"free"}]
    /\ refs \in [Obj -> SUBSET Obj]
    /\ entries \in [Obj -> SUBSET (Value \X Value)]
    /\ mode \in [Obj -> Modes]
    /\ hasgc \in [Obj -> BOOLEAN]
    /\ mt \in Obj \cup {None}
    /\ color \in [Obj -> Colors]
    /\ finalized \in SUBSET Obj
    /\ currentwhite \in Whites
    /\ gcstate \in GCStates
    /\ gray \in SUBSET Obj
    /\ grayagain \in SUBSET Obj
    /\ weak \in SUBSET Obj
    /\ unswept \in SUBSET Obj
    /\ tmudata \in SUBSET Obj
    /\ full \in BOOLEAN
    /\ calls \in [Obj -> Nat]

otherwhite == IF currentwhite = "white0" THEN "white1" ELSE "white0"
iswhite(o) == color[o] \in Whites
isblack(o) == color[o] = "black"
isdead(o) == kind[o] # "free" /\ color[o] = otherwhite

Keys(o) == {e[1] : e \in entries[o]} \ {Data}
Vals(o) == {e[2] : e \in entries[o]} \ {Data}
WeakKeys(o) == mode[o] \in {"k", "kv"}
WeakVals(o) == mode[o] \in {"v", "kv"}
IsWeak(o) == mode[o] # "strong"

\* everything stored in o, and the part of it that o keeps alive
Fields(o) == refs[o] \cup Keys(o) \cup Vals(o)
Children(o) == refs[o] \cup (IF WeakKeys(o) THEN {} ELSE Keys(o))
                       \cup (IF WeakVals(o) THEN {} ELSE Vals(o))

MtSet == {mt} \ {None}

\* the least set that holds S and, with x, every element of F[x]: o is in it
\* unless a set without o is closed in that way
Grow(S, F) ==
    {o \in Obj : \A T \in SUBSET (Obj \ {o}) :
        S \subseteq T => \E x \in T : ~(F[x] \subseteq T)}

Roots == {M, R} \cup MtSet
Reachable == Grow(Roots, [o \in Obj |-> Children(o)])
Accessible == Grow(Roots, [o \in Obj |-> Fields(o)])

Init ==
    /\ kind = [o \in Obj |-> CASE o = M -> "thread" [] o = R -> "table" [] OTHER -> "free"]
    /\ refs = [o \in Obj |-> {}]
    /\ entries = [o \in Obj |-> {}]
    /\ mode = [o \in Obj |-> "strong"]
    /\ hasgc = [o \in Obj |-> FALSE]
    /\ mt = None
    /\ color = [o \in Obj |-> "white0"]
    /\ finalized = {}
    /\ currentwhite = "white0"
    /\ gcstate = "pause"
    /\ gray = {} /\ grayagain = {} /\ weak = {}
    /\ unswept = {}
    /\ tmudata = {}
    /\ full = FALSE
    /\ calls = [o \in Obj |-> 0]

----------------------------------------------------------------------------
(* Marking.                                                                *)

\* reallymarkobject of every white object of S under colours c: userdata go
\* straight to black and mark their metatable and environment, the rest is
\* gray; strings are in no list.
MarkClosure(c, S) ==
    LET W == {o \in S : c[o] \in Whites}
    IN W \cup {r \in UNION {refs[u] : u \in W \cap OfKind({"udata"})} : c[r] \in Whites}
Marked(c, T) == [o \in Obj |-> IF o \in T
                                 THEN IF kind[o] = "udata" THEN "black" ELSE "gray"
                                 ELSE c[o]]
Listed(T) == T \cap OfKind({"table", "closure", "thread"})

\* markroot, from colours c
markroot(c) ==
    LET T == MarkClosure(c, Roots) IN
    /\ color' = Marked(c, T)
    /\ gray' = Listed(T)
    /\ grayagain' = {}
    /\ weak' = {}
    /\ gcstate' = "propagate"

\* singlestep in GCSpause
StartCycle ==
    /\ gcstate = "pause"
    /\ markroot(color)
    /\ UNCHANGED <<heap, finalized, currentwhite, unswept, tmudata, full, calls>>

\* the colour an object keeps once it is traversed: threads and weak tables
\* stay gray, in grayagain and weak
Traversed(o) ==
    IF kind[o] \in {"thread", "string"} \/ IsWeak(o) THEN "gray" ELSE "black"

\* propagatemark
propagatemark(o) ==
    LET T == MarkClosure(color, Children(o)) IN
    /\ gcstate = "propagate"
    /\ o \in gray
    /\ color' = [Marked(color, T) EXCEPT ![o] = Traversed(o)]
    /\ gray' = (gray \ {o}) \cup Listed(T)
    /\ grayagain' = IF kind[o] = "thread" THEN grayagain \cup {o} ELSE grayagain
    /\ weak' = IF IsWeak(o) THEN weak \cup {o} ELSE weak
    /\ UNCHANGED <<heap, finalized, currentwhite, gcstate, unswept, tmudata, full, calls>>

----------------------------------------------------------------------------
(* atomic, in the order of the code.                                       *)

\* 1. traverse again the weak tables, the running thread, the basic
\*    metatables, and what the barriers and the threads left in grayagain
Pending == gray \cup weak \cup grayagain
WhiteChildren == [o \in Obj |-> {r \in Children(o) : iswhite(r)}]
\* Mutant: atomic does not mark the basic metatables again.
Remarked_NoMt ==
    Grow({r \in {M} \cup UNION {Children(o) : o \in Pending} : iswhite(r)}, WhiteChildren)
Remarked ==
    Grow({r \in {M} \cup MtSet \cup UNION {Children(o) : o \in Pending} : iswhite(r)},
         WhiteChildren)
\* Mutant: userdata are separated before the lists are traversed again.
Mark1_TooEarly == {o \in Alloc : ~iswhite(o)}
Mark1 == {o \in Alloc : ~iswhite(o)} \cup Remarked

\* 2. luaC_separateudata(L, 0): the unmarked userdata outside tmudata whose
\*    finalizer was not called yet; the ones without __gc only get the bit
\* Mutant: isfinalized is not asked.
Separable_Again == OfKind({"udata"}) \ (Mark1 \cup tmudata)
Separable == OfKind({"udata"}) \ (Mark1 \cup tmudata \cup finalized)
ToFinalize == tmudata \cup {u \in Separable : hasgc[u]}

\* 3. marktmu, and the marks of everything a finalizer can reach
Unmarked == [o \in Obj |-> Children(o) \ Mark1]
Preserved == Grow(UNION {Unmarked[u] : u \in ToFinalize}, Unmarked)
Mark2 == Mark1 \cup ToFinalize \cup Preserved

\* 4. cleartable for every table that was traversed as weak
\* Mutant: only the tables found weak before atomic are cleared.
WeakList_Stale == {t \in weak : IsWeak(t)}
WeakList == {t \in weak \cup grayagain \cup Remarked \cup Preserved : IsWeak(t)}
\* Mutant: the white of the moment decides, not the white left by the remarks.
iscleared_TooEarly(v, iskey) == v # Data /\ kind[v] # "string" /\ iswhite(v)
iscleared(v, iskey) ==
    /\ v # Data
    /\ kind[v] # "string"
    /\ v \notin Mark2 \/ (kind[v] = "udata" /\ ~iskey /\ v \in finalized \cup Separable)
\* Mutant: the value is set to nil but its node is left in the table.
Kept_Node(t) == {IF iscleared(e[1], TRUE) \/ iscleared(e[2], FALSE) THEN <<e[1], None>> ELSE e
                   : e \in entries[t]}
Kept(t) == {e \in entries[t] : ~iscleared(e[1], TRUE) /\ ~iscleared(e[2], FALSE)}
\* Mutant: strings are not marked by iscleared.
StringsMarked_None == {}
StringsMarked == {s \in OfKind({"string"}) : \E t \in WeakList : \E e \in entries[t] :
                    e[1] = s \/ (e[2] = s /\ ~iscleared(e[1], TRUE))}

\* 5. flip the white; everything on the root list is to be swept.  What is
\*    left in the mark lists is never read: markroot empties them.
atomic ==
    /\ gcstate = "propagate"
    /\ gray = {}
    /\ color' = [o \in Obj |->
                   IF o \in ToFinalize THEN "black"
                   ELSE IF o \in Remarked \cup Preserved \cup weak \cup grayagain THEN Traversed(o)
                   ELSE IF o \in StringsMarked THEN "gray"
                   ELSE color[o]]
    /\ entries' = [t \in Obj |-> IF t \in WeakList THEN Kept(t) ELSE entries[t]]
    /\ finalized' = finalized \cup Separable
    /\ tmudata' = ToFinalize
    /\ currentwhite' = otherwhite
    /\ gcstate' = "sweepstring"
    /\ unswept' = Alloc \ ToFinalize
    /\ gray' = {} /\ grayagain' = {} /\ weak' = {}
    /\ UNCHANGED <<kind, refs, mode, hasgc, mt, full, calls>>

----------------------------------------------------------------------------
(* Sweeping and finalizing.                                                *)

\* the heap without the objects of D
Freed(D) ==
    /\ kind' = [o \in Obj |-> IF o \in D THEN "free" ELSE kind[o]]
    /\ refs' = [o \in Obj |-> IF o \in D THEN {} ELSE refs[o]]
    /\ entries' = [o \in Obj |-> IF o \in D THEN {} ELSE entries[o]]
    /\ mode' = [o \in Obj |-> IF o \in D THEN "strong" ELSE mode[o]]
    /\ hasgc' = [o \in Obj |-> IF o \in D THEN FALSE ELSE hasgc[o]]
    /\ finalized' = finalized \ D
    /\ calls' = [o \in Obj |-> IF o \in D THEN 0 ELSE calls[o]]

\* sweeplist: free the dead objects of S, whiten the others
sweeplist(S) ==
    /\ color' = [o \in Obj |-> IF o \in S THEN currentwhite ELSE color[o]]
    /\ unswept' = unswept \ S
    /\ Freed({o \in S : isdead(o)})

\* strings are swept first, one bucket of the string table at a time
sweepstring(o) ==
    /\ gcstate = "sweepstring"
    /\ o \in unswept \cap OfKind({"string"})
    /\ sweeplist({o})
    /\ UNCHANGED <<mt, currentwhite, gcstate, lists, tmudata, full>>

EndSweepString ==
    /\ gcstate = "sweepstring"
    /\ unswept \cap OfKind({"string"}) = {}
    /\ gcstate' = "sweep"
    /\ UNCHANGED <<heap, color, finalized, currentwhite, lists, unswept, tmudata, full, calls>>

sweep(o) ==
    /\ gcstate = "sweep"
    /\ o \in unswept
    /\ sweeplist({o})
    /\ UNCHANGED <<mt, currentwhite, gcstate, lists, tmudata, full>>

\* Mutant: the phase may end before the end of the list.
EndSweep_Early ==
    /\ gcstate = "sweep"
    /\ gcstate' = "finalize"
    /\ full' = FALSE
    /\ UNCHANGED <<heap, color, finalized, currentwhite, lists, unswept, tmudata, calls>>

EndSweep ==
    /\ gcstate = "sweep"
    /\ unswept = {}
    /\ gcstate' = "finalize"
    /\ full' = FALSE
    /\ UNCHANGED <<heap, color, finalized, currentwhite, lists, unswept, tmudata, calls>>

\* GCTM: the udata goes back to the root list and on the stack of its
\* finalizer; the metatable may have lost its __gc meanwhile
GCTM(u) ==
    /\ gcstate = "finalize"
    /\ u \in tmudata
    /\ tmudata' = tmudata \ {u}
    /\ color' = [color EXCEPT ![u] = currentwhite]
    /\ IF hasgc[u]
         THEN /\ refs' = [refs EXCEPT ![M] = @ \cup {u}]
              /\ calls' = [calls EXCEPT ![u] = @ + 1]
         ELSE UNCHANGED <<refs, calls>>
    /\ UNCHANGED <<kind, entries, mode, hasgc, mt, finalized, currentwhite,
                   gcstate, lists, unswept, full>>

EndCycle ==
    /\ gcstate = "finalize"
    /\ tmudata = {}
    /\ gcstate' = "pause"
    /\ UNCHANGED <<heap, color, finalized, currentwhite, lists, unswept, tmudata, full, calls>>

\* luaC_fullgc up to its markroot: a cycle that is still marking is thrown
\* away by whitening every object; a sweep is finished first.  The steps that
\* follow are the ordinary ones; `full' keeps the program out until the
\* finalizers run.
FullGC ==
    LET S == IF gcstate \in {"pause", "propagate"} THEN Alloc \ tmudata ELSE unswept IN
    /\ ~full
    /\ full' = TRUE
    /\ Freed({o \in S : isdead(o)})
    /\ unswept' = {}
    /\ markroot([o \in Obj |-> IF o \in S THEN currentwhite ELSE color[o]])
    /\ UNCHANGED <<mt, currentwhite, tmudata>>

GCStep ==
    \/ StartCycle \/ atomic \/ EndSweepString \/ EndSweep \/ EndCycle
    \/ \E o \in Obj : propagatemark(o) \/ sweepstring(o) \/ sweep(o) \/ GCTM(o)

----------------------------------------------------------------------------
(* The running program.  Its operands are on its stack, in the registry    *)
(* and globals, or a basic metatable; fetching one from a global and using *)
(* it is one step here.  A stack is written without a barrier.             *)

Held == refs[M] \cup {R} \cup Fields(R) \cup MtSet
Room(o) == Cardinality(refs[o]) < IF o = M THEN MaxStack ELSE MaxRefs

program == <<currentwhite, gcstate, unswept, tmudata, full>>

\* luaC_link: objects are born in the current white
NewObject(k, o) ==
    /\ ~full
    /\ kind[o] = "free"
    /\ Room(M)
    /\ kind' = [kind EXCEPT ![o] = k]
    /\ color' = [color EXCEPT ![o] = currentwhite]
    /\ refs' = [refs EXCEPT ![M] = @ \cup {o}]
    /\ UNCHANGED <<entries, mode, hasgc, mt, finalized, lists, program, calls>>

\* Mutant: the string found is not looked at for being dead.
InternString_Dead(s) ==
    /\ ~full
    /\ kind[s] = "string"
    /\ Room(M)
    /\ refs' = [refs EXCEPT ![M] = @ \cup {s}]
    /\ UNCHANGED <<kind, entries, mode, hasgc, mt, color, finalized, lists, program, calls>>

\* luaS_newlstr finds the string in the table: a dead one is brought back
InternString(s) ==
    /\ ~full
    /\ kind[s] = "string"
    /\ Room(M)
    /\ color' = IF isdead(s) THEN [color EXCEPT ![s] = currentwhite] ELSE color
    /\ refs' = [refs EXCEPT ![M] = @ \cup {s}]
    /\ UNCHANGED <<kind, entries, mode, hasgc, mt, finalized, lists, program, calls>>

\* a value is read onto the stack of the running thread
Load(o, v) ==
    /\ ~full
    /\ o \in Held
    /\ v \in Fields(o)
    /\ Room(M)
    /\ refs' = [refs EXCEPT ![M] = @ \cup {v}]
    /\ UNCHANGED <<kind, entries, mode, hasgc, mt, color, finalized, lists, program, calls>>

Pop(v) ==
    /\ ~full
    /\ v \in refs[M]
    /\ refs' = [refs EXCEPT ![M] = @ \ {v}]
    /\ UNCHANGED <<kind, entries, mode, hasgc, mt, color, finalized, lists, program, calls>>

\* lua_xmove and resume: a value goes to the stack of a coroutine, or leaves it
XMove(t, v) ==
    /\ ~full
    /\ t \in Held /\ kind[t] = "thread"
    /\ \/ v \in Held /\ Room(t) /\ refs' = [refs EXCEPT ![t] = @ \cup {v}]
       \/ v \in refs[t] /\ refs' = [refs EXCEPT ![t] = @ \ {v}]
    /\ UNCHANGED <<kind, entries, mode, hasgc, mt, color, finalized, lists, program, calls>>

\* Mutant: the table is listed but stays black.
barrierback_StaysBlack(t, S) ==
    IF isblack(t) /\ \E v \in S : iswhite(v)
      THEN grayagain' = grayagain \cup {t} /\ UNCHANGED <<color, gray, weak>>
      ELSE UNCHANGED <<color, lists>>
\* Mutant: a table that is gray already is listed again.
barrierback_Again(t, S) ==
    IF ~iswhite(t) /\ \E v \in S : iswhite(v)
      THEN /\ color' = [color EXCEPT ![t] = "gray"]
           /\ grayagain' = grayagain \cup {t}
           /\ UNCHANGED <<gray, weak>>
      ELSE UNCHANGED <<color, lists>>

\* luaC_objbarriert and luaC_barrierback, after the values of S went into t
barrierback(t, S) ==
    IF isblack(t) /\ \E v \in S : iswhite(v)
      THEN /\ color' = [color EXCEPT ![t] = "gray"]
           /\ grayagain' = grayagain \cup {t}
           /\ UNCHANGED <<gray, weak>>
      ELSE UNCHANGED <<color, lists>>

\* luaC_objbarrier and luaC_barrierf, after v went into o
barrierf(o, v) ==
    IF isblack(o) /\ iswhite(v)
      THEN IF gcstate = "propagate"
             THEN LET T == MarkClosure(color, {v}) IN
                  /\ color' = Marked(color, T)
                  /\ gray' = gray \cup Listed(T)
                  /\ UNCHANGED <<grayagain, weak>>
             ELSE /\ color' = [color EXCEPT ![o] = currentwhite]
                  /\ UNCHANGED lists
      ELSE UNCHANGED <<color, lists>>

\* luaH_set and settable: t[k] = v (a pair without objects is left out); luaH_newkey has its own barrier for k
SetTable(t, k, v) ==
    LET other == {e \in entries[t] : e[1] # k} IN
    /\ ~full
    /\ t \in Held /\ kind[t] = "table"
    /\ k \in KeySet /\ {k, v} \subseteq Held \cup {Data} /\ {k, v} # {Data}
    /\ Cardinality(other) < MaxEntries
    /\ entries' = [entries EXCEPT ![t] = other \cup {<<k, v>>}]
    /\ barrierback(t, {k, v} \ {Data})
    /\ UNCHANGED <<kind, refs, mode, hasgc, mt, finalized, program, calls>>

\* t[k] = nil
ClearEntry(t, e) ==
    /\ ~full
    /\ t \in Held
    /\ e \in entries[t]
    /\ entries' = [entries EXCEPT ![t] = @ \ {e}]
    /\ UNCHANGED <<kind, refs, mode, hasgc, mt, color, finalized, lists, program, calls>>

\* lua_setmetatable of a table; a later change of __mode in the metatable is
\* the case m = the old one
SetMetatable(t, m, md) ==
    /\ ~full
    /\ t \in Held /\ kind[t] = "table"
    /\ m \in Held \cap Metatables["table"] /\ kind[m] = "table"
    /\ refs' = [refs EXCEPT ![t] = {m}]
    /\ mode' = [mode EXCEPT ![t] = md]
    /\ barrierback(t, {m})
    /\ UNCHANGED <<kind, entries, hasgc, mt, finalized, program, calls>>

\* lua_setmetatable of a userdata, or a change of __gc in its metatable
SetUserMetatable(u, m, gc) ==
    /\ ~full
    /\ u \in Held /\ kind[u] = "udata"
    /\ m \in Held \cap Metatables["udata"] /\ kind[m] = "table"
    /\ refs' = [refs EXCEPT ![u] = {m}]
    /\ hasgc' = [hasgc EXCEPT ![u] = gc]
    /\ barrierf(u, m)
    /\ UNCHANGED <<kind, entries, mode, mt, finalized, program, calls>>

\* lua_setupvalue, lua_replace and lua_setfenv on a function: one of its
\* references is replaced
SetUpvalue(f, x, v) ==
    /\ ~full
    /\ f \in Held /\ kind[f] = "closure"
    /\ x \subseteq refs[f] /\ v \in Held
    /\ Cardinality(refs[f] \ x) < MaxRefs
    /\ refs' = [refs EXCEPT ![f] = (@ \ x) \cup {v}]
    /\ barrierf(f, v)
    /\ UNCHANGED <<kind, entries, mode, hasgc, mt, finalized, program, calls>>

\* lua_setmetatable of a value of a basic type: G(L)->mt, no barrier
SetBasicMetatable(m) ==
    /\ ~full
    /\ m = None \/ (m \in Held \cap Metatables["basic"] /\ kind[m] = "table")
    /\ mt' = m
    /\ UNCHANGED <<kind, refs, entries, mode, hasgc, color, finalized, lists, program, calls>>

Mutator ==
    \/ \E o \in Obj :
        \/ \E k \in Kinds[o] : NewObject(k, o)
        \/ InternString(o)
        \/ Pop(o)
        \/ \E v \in Obj : Load(o, v) \/ XMove(o, v)
        \/ \E k \in KeySet, v \in Value : SetTable(o, k, v)
        \/ \E e \in entries[o] : ClearEntry(o, e)
        \/ \E m \in Metatables["table"], md \in ModeSet : SetMetatable(o, m, md)
        \/ \E m \in Metatables["udata"], gc \in BOOLEAN : SetUserMetatable(o, m, gc)
        \/ \E x \in SUBSET refs[o], v \in Obj : SetUpvalue(o, x, v)
    \/ \E m \in Metatables["basic"] \cup {None} : SetBasicMetatable(m)

Next == GCStep \/ FullGC \/ Mutator

Spec == Init /\ [][Next]_vars

\* Allocation makes the collector step (luaC_checkGC), and every collection
\* calls the finalizers that wait, first in first out, before it ends.
FairSpec == /\ Spec
            /\ WF_vars(GCStep)
            /\ \A u \in Obj \ {M, R} : SF_vars(GCTM(u))

----------------------------------------------------------------------------
(* Properties.                                                             *)

\* Whatever the program can reach, weak entries included, is allocated and
\* is not about to be freed.  This is what checkliveness asserts on every
\* value the core copies.
NoDangling == \A o \in Accessible : kind[o] # "free" /\ ~isdead(o)

\* While marking, nothing already traversed holds an unmarked object, for all
\* the writes of the program meanwhile.  Userdata that wait for a finalizer
\* are excepted: marktmu traverses them again.
TriColor ==
    gcstate = "propagate" =>
        \A o \in Alloc \ tmudata : isblack(o) => \A r \in Fields(o) : ~iswhite(r)

\* gclist is one field: while marking, every gray object but a string is in
\* exactly one of the three lists that run through it, and no userdata is.
OneList ==
    gcstate = "propagate" =>
        /\ gray \cap grayagain = {} /\ gray \cap weak = {} /\ weak \cap grayagain = {}
        /\ gray \cup grayagain \cup weak
             = {o \in OfKind({"table", "closure", "thread"}) : color[o] = "gray"}

\* Between two cycles nothing has a mark left from the first, so the second
\* cannot skip it: the invariant luaC_barrierf and luaC_barrierback assert
\* outside the mark phase.
CleanPause ==
    gcstate \in {"pause", "finalize"} =>
        \A o \in Alloc \ tmudata : color[o] = currentwhite

\* A finalizer runs at most once in the life of a userdata, whatever it and
\* the program do with the object afterwards.
FinalizedOnce == \A o \in Obj : calls[o] <= 1

\* atomic takes an entry out of a weak table only if its key or its value was
\* garbage, or its value is a userdata whose finalizer is due or was called.
WeakOnlyGarbage ==
    [][\A t \in Obj : gcstate = "propagate" /\ gcstate' = "sweepstring" =>
         \A e \in entries[t] \ entries'[t] :
            \/ e[1] \in Obj \ Reachable
            \/ e[2] \in Obj \ Reachable
            \/ e[2] \in OfKind({"udata"}) \cap finalized']_vars

\* What the program can reach without passing through a userdata that already
\* waits for its finalizer is never finalized.
SafelyReachable ==
    Grow(Roots, [o \in Obj |-> IF o \in tmudata THEN {} ELSE Children(o)])
FinalizeOnlyGarbage ==
    [][\A u \in tmudata' \ tmudata : u \notin SafelyReachable]_vars

\* Garbage is freed in the end, unless a finalizer brings it back (strings
\* are left out: the program can always bring one back by its text; the main
\* thread and the registry never are garbage).
Reclaimed ==
    \A o \in Obj \ {M, R} : (kind[o] \notin {"free", "string"} /\ o \notin Accessible)
                     ~> (kind[o] = "free" \/ o \in Accessible)

----------------------------------------------------------------------------
(* The inductive invariant behind NoDangling and CleanPause.               *)

Live == {o \in Alloc : color[o] # otherwhite}

ShapeInv ==
    /\ kind[M] = "thread" /\ kind[R] = "table"
    /\ \A o \in Obj : kind[o] \in {"free", "string"} => refs[o] = {}
    /\ \A o \in Obj : kind[o] # "table" => entries[o] = {} /\ mode[o] = "strong"
    /\ \A u \in Live : kind[u] = "udata" => \A r \in refs[u] : kind[r] = "table"
    /\ finalized \subseteq OfKind({"udata"})
    /\ tmudata \subseteq OfKind({"udata"})
    /\ \A o \in Obj : kind[o] = "udata" => color[o] # "gray"
    /\ \A o \in Obj : kind[o] = "thread" => color[o] # "black"

\* only what is still to be swept may have the old white or a mark
SweepInv ==
    /\ unswept \subseteq Alloc \ tmudata
    /\ gcstate \notin {"sweepstring", "sweep"} => unswept = {}
    /\ \A o \in Alloc : color[o] = otherwhite => o \in unswept
    /\ gcstate # "propagate" =>
         \A o \in Alloc \ (tmudata \cup unswept) : color[o] = currentwhite

\* while marking, what is gray is still to be traversed, and what is black
\* needs no second look
MarkInv ==
    gcstate = "propagate" =>
        /\ ~iswhite(M) /\ ~iswhite(R)
        /\ \A o \in Alloc : color[o] = "gray" /\ kind[o] # "string" => o \in Pending
        /\ \A o \in Alloc \ tmudata : isblack(o) => \A r \in Fields(o) : ~iswhite(r)

LiveInv ==
    /\ Roots \subseteq Live
    /\ \A o \in Live : Fields(o) \subseteq Live

\* The strengthening of NoDangling that every step preserves.
IInv == TypeOK /\ ShapeInv /\ SweepInv /\ MarkInv /\ LiveInv

\* The strengthening of FinalizedOnce: the bit is set before a userdata enters
\* tmudata, and lasts as long as the userdata.
OnceInv ==
    /\ tmudata \subseteq finalized
    /\ \A o \in Obj : /\ calls[o] <= 1
                      /\ o \in tmudata \/ o \notin finalized => calls[o] = 0

----------------------------------------------------------------------------
(* What a comment of lgc.c says, and the code does not do.                  *)

\* "move `dead' udata that need finalization to list `tmudata'"
FinalizeOnlyDead == [][\A u \in tmudata' \ tmudata : u \notin Reachable]_vars
=============================================================================
