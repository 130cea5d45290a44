---------------------------- MODULE LuaGC_proofs ----------------------------
(***************************************************************************)
(* Proofs about LuaGC: type correctness, and that IInv is inductive, for   *)
(* any heap, any shape of its objects and any bounds.  NoDangling, TriColor*)
(* and CleanPause follow.                                                  *)
(***************************************************************************)
EXTENDS LuaGC, TLAPS

----------------------------------------------------------------------------
(* Grow(S, F) is the least set that holds S and is closed under F.         *)

\* Grow is inside every closed set that holds S.
LEMMA GrowLeast ==
    ASSUME NEW S, NEW F, NEW T \in SUBSET Obj,
           S \subseteq T, \A x \in T : F[x] \subseteq T
    PROVE  Grow(S, F) \subseteq T
<1>1. SUFFICES ASSUME NEW o \in Grow(S, F), o \notin T PROVE FALSE
  OBVIOUS
<1>2. T \in SUBSET (Obj \ {o})
  BY <1>1
<1> QED BY <1>1, <1>2 DEF Grow

\* Grow holds S.
LEMMA GrowBase ==
    ASSUME NEW S \in SUBSET Obj, NEW F
    PROVE  S \subseteq Grow(S, F)
BY DEF Grow

\* Grow is closed under F.
LEMMA GrowStep ==
    ASSUME NEW S, NEW F, NEW x \in Grow(S, F), NEW r \in F[x], r \in Obj
    PROVE  r \in Grow(S, F)
<1>1. SUFFICES ASSUME NEW T \in SUBSET (Obj \ {r}), S \subseteq T,
                      \A y \in T : F[y] \subseteq T
               PROVE  FALSE
  BY DEF Grow
<1>2. x \in T
  BY <1>1, GrowLeast
<1> QED BY <1>1, <1>2

----------------------------------------------------------------------------
(* Type correctness.                                                       *)

USE DEF vars, heap, lists, program

\* What an object refers to is a set of objects.
LEMMA FieldsType ==
    ASSUME TypeOK, NEW o \in Obj
    PROVE  /\ Keys(o) \subseteq Obj /\ Vals(o) \subseteq Obj
           /\ Children(o) \subseteq Fields(o) /\ Fields(o) \subseteq Obj
<1>1. entries[o] \subseteq Value \X Value /\ refs[o] \subseteq Obj
  BY DEF TypeOK
<1>2. \A e \in entries[o] : e[1] \in Value /\ e[2] \in Value
  BY <1>1
<1>3. Keys(o) \subseteq Obj /\ Vals(o) \subseteq Obj
  BY <1>2 DEF Keys, Vals, Value
<1> QED BY <1>1, <1>3 DEF Fields, Children

\* The whites change places.
LEMMA WhiteType ==
    ASSUME TypeOK
    PROVE  /\ currentwhite \in Whites /\ otherwhite \in Whites
           /\ otherwhite # currentwhite
           /\ \A c \in Whites : c = currentwhite \/ c = otherwhite
BY DEF TypeOK, Whites, otherwhite

\* Held values are objects.
LEMMA HeldType ==
    ASSUME TypeOK
    PROVE  Held \subseteq Obj
<1>1. Fields(R) \subseteq Obj
  BY GCAssumption, FieldsType
<1> QED BY <1>1, GCAssumption DEF Held, TypeOK, MtSet

\* The colours after a MarkClosure are colours.
LEMMA MarkedType ==
    ASSUME NEW c \in [Obj -> Colors], NEW T
    PROVE  Marked(c, T) \in [Obj -> Colors] /\ Listed(T) \subseteq Obj
BY DEF Marked, Listed, OfKind, Colors

\* The initial state is well typed.
LEMMA TypeInit == Init => TypeOK
<1>1. SUFFICES ASSUME Init PROVE TypeOK
  OBVIOUS
<1>2. kind \in [Obj -> AllKinds \cup {"free"}]
  BY <1>1 DEF Init, AllKinds
<1> QED BY <1>1, <1>2, GCAssumption DEF Init, TypeOK, Modes, Colors, Whites, GCStates

\* Freeing a set of objects keeps the types.
LEMMA FreedType ==
    ASSUME TypeOK, NEW D, Freed(D)
    PROVE  /\ kind' \in [Obj -> AllKinds \cup {"free"}]
           /\ refs' \in [Obj -> SUBSET Obj]
           /\ entries' \in [Obj -> SUBSET (Value \X Value)]
           /\ mode' \in [Obj -> Modes]
           /\ hasgc' \in [Obj -> BOOLEAN]
           /\ finalized' \in SUBSET Obj
           /\ calls' \in [Obj -> Nat]
<1>1. kind' \in [Obj -> AllKinds \cup {"free"}]
  BY DEF TypeOK, Freed
<1>2. refs' \in [Obj -> SUBSET Obj]
  BY DEF TypeOK, Freed
<1>3. entries' \in [Obj -> SUBSET (Value \X Value)]
  BY DEF TypeOK, Freed
<1>4. mode' \in [Obj -> Modes] /\ hasgc' \in [Obj -> BOOLEAN]
  BY DEF TypeOK, Freed, Modes
<1>5. finalized' \in SUBSET Obj /\ calls' \in [Obj -> Nat]
  BY DEF TypeOK, Freed
<1> QED BY <1>1, <1>2, <1>3, <1>4, <1>5

\* Every step of the collector keeps the types.
LEMMA TypeGCStep == ASSUME TypeOK, GCStep PROVE TypeOK'
<1> USE GCAssumption DEF TypeOK
<1>w. currentwhite \in Colors /\ otherwhite \in Whites
  BY WhiteType DEF Colors
<1>1. ASSUME StartCycle PROVE TypeOK'
  <2> DEFINE T == MarkClosure(color, Roots)
  <2>1. color' = Marked(color, T) /\ gray' = Listed(T)
    BY <1>1 DEF StartCycle, markroot
  <2> HIDE DEF T
  <2> QED BY <1>1, <2>1, MarkedType DEF StartCycle, markroot, GCStates
<1>2. ASSUME NEW o \in Obj, propagatemark(o) PROVE TypeOK'
  <2> DEFINE T == MarkClosure(color, Children(o))
  <2>1. /\ color' = [Marked(color, T) EXCEPT ![o] = Traversed(o)]
        /\ gray' = (gray \ {o}) \cup Listed(T)
    BY <1>2 DEF propagatemark
  <2>2. Traversed(o) \in Colors
    BY DEF Traversed, Colors
  <2> HIDE DEF T
  <2>3. color' \in [Obj -> Colors] /\ gray' \in SUBSET Obj
    BY <2>1, <2>2, MarkedType
  <2> QED BY <1>2, <2>3 DEF propagatemark
<1>3. ASSUME atomic PROVE TypeOK'
  <2>1. ToFinalize \in SUBSET Obj /\ Separable \in SUBSET Obj
    BY DEF ToFinalize, Separable, OfKind
  <2>2. color' \in [Obj -> Colors]
    BY <1>3 DEF atomic, Traversed, Colors
  <2>3. entries' \in [Obj -> SUBSET (Value \X Value)]
    <3>1. \A t \in Obj : Kept(t) \in SUBSET (Value \X Value)
      BY DEF Kept
    <3> QED BY <1>3, <3>1 DEF atomic
  <2> QED BY <1>3, <1>w, <2>1, <2>2, <2>3 DEF atomic, Alloc, GCStates
<1>4. ASSUME NEW o \in Obj, sweepstring(o) \/ sweep(o) PROVE TypeOK'
  <2>1. sweeplist({o}) /\ UNCHANGED <<mt, currentwhite, gcstate, lists, tmudata, full>>
    BY <1>4 DEF sweepstring, sweep
  <2>2. color' \in [Obj -> Colors] /\ unswept' \in SUBSET Obj
    BY <1>w, <2>1 DEF sweeplist
  <2>3. Freed({x \in {o} : isdead(x)})
    BY <2>1 DEF sweeplist
  <2> QED BY <2>1, <2>2, <2>3, FreedType
<1>5. ASSUME EndSweepString \/ EndSweep \/ EndCycle PROVE TypeOK'
  BY <1>5 DEF EndSweepString, EndSweep, EndCycle, GCStates
<1>6. ASSUME NEW u \in Obj, GCTM(u) PROVE TypeOK'
  <2>1. color' \in [Obj -> Colors] /\ tmudata' \in SUBSET Obj
    BY <1>6, <1>w DEF GCTM
  <2>2. refs' \in [Obj -> SUBSET Obj] /\ calls' \in [Obj -> Nat]
    BY <1>6 DEF GCTM
  <2> QED BY <1>6, <2>1, <2>2 DEF GCTM
<1> QED BY <1>1, <1>2, <1>3, <1>4, <1>5, <1>6 DEF GCStep

\* luaC_fullgc keeps the types.
LEMMA TypeFullGC == ASSUME TypeOK, FullGC PROVE TypeOK'
<1>w. currentwhite \in Colors
  BY DEF TypeOK, Colors
<1> DEFINE S == IF gcstate \in {"pause", "propagate"} THEN Alloc \ tmudata ELSE unswept
           c == [o \in Obj |-> IF o \in S THEN currentwhite ELSE color[o]]
           T == MarkClosure(c, Roots)
<1>1. Freed({o \in S : isdead(o)})
  BY DEF FullGC
<1>2. /\ color' = Marked(c, T) /\ gray' = Listed(T)
      /\ grayagain' = {} /\ weak' = {} /\ gcstate' = "propagate"
      /\ unswept' = {} /\ full' = TRUE /\ UNCHANGED <<mt, currentwhite, tmudata>>
  BY DEF FullGC, markroot
<1>3. c \in [Obj -> Colors]
  BY <1>w DEF TypeOK
<1> HIDE DEF S, c, T
<1> QED BY <1>1, <1>2, <1>3, MarkedType, FreedType DEF TypeOK, GCStates

\* Both write barriers keep the types of the colours and of the lists.
LEMMA TypeBarriers ==
    ASSUME TypeOK, NEW o \in Obj, NEW v, NEW S,
           barrierback(o, S) \/ barrierf(o, v)
    PROVE  /\ color' \in [Obj -> Colors] /\ gray' \in SUBSET Obj
           /\ grayagain' \in SUBSET Obj /\ weak' \in SUBSET Obj
<1> USE DEF TypeOK
<1>1. currentwhite \in Colors /\ "gray" \in Colors
  BY DEF Colors
<1>2. CASE barrierback(o, S)
  BY <1>1, <1>2 DEF barrierback
<1>3. CASE barrierf(o, v)
  <2> DEFINE T == MarkClosure(color, {v})
  <2>1. CASE isblack(o) /\ iswhite(v) /\ gcstate = "propagate"
    <3>1. color' = Marked(color, T) /\ gray' = gray \cup Listed(T) /\ UNCHANGED <<grayagain, weak>>
      BY <1>3, <2>1 DEF barrierf
    <3> HIDE DEF T
    <3> QED BY <3>1, MarkedType
  <2>2. CASE ~(isblack(o) /\ iswhite(v) /\ gcstate = "propagate")
    BY <1>1, <1>3, <2>2 DEF barrierf
  <2> QED BY <2>1, <2>2
<1> QED BY <1>2, <1>3

\* Every step of the program keeps the types.
LEMMA TypeMutator == ASSUME TypeOK, Mutator PROVE TypeOK'
<1> USE GCAssumption DEF TypeOK
<1>h. Held \subseteq Obj
  BY HeldType
<1>w. currentwhite \in Colors
  BY DEF Colors
<1>1. ASSUME NEW o \in Obj, NEW k \in Kinds[o], NewObject(k, o) PROVE TypeOK'
  <2>1. k \in AllKinds
    OBVIOUS
  <2> QED BY <1>1, <1>w, <2>1 DEF NewObject
<1>2. ASSUME NEW o \in Obj, InternString(o) PROVE TypeOK'
  BY <1>2, <1>w DEF InternString
<1>3. ASSUME NEW o \in Obj, Pop(o) PROVE TypeOK'
  BY <1>3 DEF Pop
<1>4. ASSUME NEW o \in Obj, NEW v \in Obj, Load(o, v) PROVE TypeOK'
  BY <1>4 DEF Load
<1>5. ASSUME NEW o \in Obj, NEW v \in Obj, XMove(o, v) PROVE TypeOK'
  BY <1>5 DEF XMove
<1>6. ASSUME NEW o \in Obj, NEW k \in KeySet, NEW v \in Value, SetTable(o, k, v) PROVE TypeOK'
  <2>1. entries' \in [Obj -> SUBSET (Value \X Value)]
    <3>1. k \in Value
      BY DEF Value
    <3> QED BY <1>6, <3>1 DEF SetTable
  <2>2. barrierback(o, {k, v} \ {Data})
    BY <1>6 DEF SetTable
  <2> QED BY <1>6, <2>1, <2>2, TypeBarriers DEF SetTable
<1>7. ASSUME NEW o \in Obj, NEW e \in entries[o], ClearEntry(o, e) PROVE TypeOK'
  BY <1>7 DEF ClearEntry
<1>8. ASSUME NEW o \in Obj, NEW m \in Metatables["table"], NEW md \in ModeSet,
             SetMetatable(o, m, md)
      PROVE  TypeOK'
  <2>1. m \in Obj /\ md \in Modes
    BY <1>8, <1>h DEF SetMetatable
  <2>2. barrierback(o, {m})
    BY <1>8 DEF SetMetatable
  <2> QED BY <1>8, <2>1, <2>2, TypeBarriers DEF SetMetatable
<1>9. ASSUME NEW o \in Obj, NEW m \in Metatables["udata"], NEW gc \in BOOLEAN,
             SetUserMetatable(o, m, gc)
      PROVE  TypeOK'
  <2>1. m \in Obj
    BY <1>9, <1>h DEF SetUserMetatable
  <2>2. barrierf(o, m)
    BY <1>9 DEF SetUserMetatable
  <2> QED BY <1>9, <2>1, <2>2, TypeBarriers DEF SetUserMetatable
<1>10. ASSUME NEW o \in Obj, NEW x \in SUBSET refs[o], NEW v \in Obj, SetUpvalue(o, x, v)
       PROVE  TypeOK'
  <2>1. barrierf(o, v)
    BY <1>10 DEF SetUpvalue
  <2> QED BY <1>10, <2>1, TypeBarriers DEF SetUpvalue
<1>11. ASSUME NEW m \in Metatables["basic"] \cup {None}, SetBasicMetatable(m) PROVE TypeOK'
  BY <1>11, <1>h DEF SetBasicMetatable
<1> HIDE GCAssumption DEF TypeOK
<1> QED BY <1>1, <1>2, <1>3, <1>4, <1>5, <1>6, <1>7, <1>8, <1>9, <1>10, <1>11 DEF Mutator

\* Every step keeps the types.
LEMMA TypeNext == ASSUME TypeOK, [Next]_vars PROVE TypeOK'
<1>1. CASE UNCHANGED vars
  BY <1>1 DEF TypeOK
<1> QED BY <1>1, TypeGCStep, TypeFullGC, TypeMutator DEF Next

\* Every variable keeps its type: the collector and the program never leave
\* the states the model is about.
THEOREM TypeCorrect == Spec => []TypeOK
BY TypeInit, TypeNext, PTL DEF Spec
----------------------------------------------------------------------------
(* The inductive invariant: facts about the live objects.                  *)

\* Only tables have entries; free objects and strings refer to nothing.
LEMMA NoEntries ==
    ASSUME ShapeInv, NEW o \in Obj
    PROVE  /\ kind[o] # "table" => Fields(o) = refs[o] /\ Children(o) = refs[o] /\ ~IsWeak(o)
           /\ kind[o] \in {"free", "string"} => Fields(o) = {} /\ Children(o) = {}
           /\ ~IsWeak(o) => Children(o) = Fields(o)
<1>1. ASSUME entries[o] = {} PROVE Fields(o) = refs[o] /\ Children(o) = refs[o]
  BY <1>1 DEF Fields, Children, Keys, Vals
<1>2. kind[o] # "table" => entries[o] = {} /\ mode[o] = "strong"
  BY DEF ShapeInv
<1>3. kind[o] \in {"free", "string"} => refs[o] = {}
  BY DEF ShapeInv
<1>4. ~IsWeak(o) => Children(o) = Fields(o)
  BY DEF IsWeak, Children, Fields, WeakKeys, WeakVals
<1> QED BY <1>1, <1>2, <1>3, <1>4 DEF IsWeak

\* What the program holds is live.
LEMMA HeldLive ==
    ASSUME TypeOK, LiveInv
    PROVE  Held \subseteq Live /\ Live \subseteq Obj
<1>1. R \in Live /\ MtSet \subseteq Live /\ M \in Live
  BY DEF LiveInv, Roots
<1>2. Fields(R) \subseteq Live /\ Fields(M) \subseteq Live
  BY <1>1 DEF LiveInv
<1> QED BY <1>1, <1>2 DEF Held, Fields, Live, Alloc

\* Nothing is dead unless a sweep is under way.
LEMMA AllLive ==
    ASSUME SweepInv, gcstate \notin {"sweepstring", "sweep"}
    PROVE  Live = Alloc /\ unswept = {}
BY DEF SweepInv, Live

\* MarkClosure(c, S) is what reallymarkobject reaches from S: the white ones
\* among S, and what the userdata among them refer to.
LEMMA MarkFacts ==
    ASSUME TypeOK, ShapeInv, LiveInv,
           NEW c \in [Obj -> Colors], NEW S \in SUBSET Live,
           NEW T, T = MarkClosure(c, S), NEW d, d = Marked(c, T)
    PROVE  /\ T \subseteq Live
           /\ d \in [Obj -> Colors]
           /\ \A x \in T : c[x] \in Whites /\ d[x] \notin Whites
           /\ \A x \in Obj \ T : d[x] = c[x]
           /\ \A x \in S : d[x] \notin Whites
           /\ \A x \in T : d[x] = "gray" => kind[x] # "udata"
           /\ \A x \in T : d[x] = "gray" /\ kind[x] # "string" => x \in Listed(T)
           /\ \A x \in T : d[x] = "black" =>
                 kind[x] = "udata" /\ \A r \in Fields(x) : d[r] \notin Whites
<1> DEFINE W == {o \in S : c[o] \in Whites}
           U == UNION {refs[u] : u \in W \cap OfKind({"udata"})}
<1>0. Live \subseteq Obj
  BY DEF Live, Alloc
<1>1. T = W \cup {r \in U : c[r] \in Whites}
  BY DEF MarkClosure
<1>2. \A u \in W \cap OfKind({"udata"}) :
          refs[u] \subseteq Live /\ \A r \in refs[u] : kind[r] = "table"
  BY DEF LiveInv, ShapeInv, Fields, OfKind
<1>3. U \subseteq Live /\ \A r \in U : kind[r] = "table"
  BY <1>2
<1>4. T \subseteq Live /\ T \subseteq Obj
  BY <1>0, <1>1, <1>3
<1>5. \A x \in Obj : d[x] = IF x \in T THEN IF kind[x] = "udata" THEN "black" ELSE "gray" ELSE c[x]
  BY DEF Marked
<1>6. \A x \in T : c[x] \in Whites /\ d[x] \notin Whites
  BY <1>1, <1>4, <1>5 DEF Whites
<1>7. \A x \in S : d[x] \notin Whites
  <2>1. SUFFICES ASSUME NEW x \in S PROVE d[x] \notin Whites
    OBVIOUS
  <2>2. CASE x \in W
    BY <1>1, <1>6, <2>2
  <2>3. CASE x \notin W
    <3>1. c[x] \notin Whites /\ x \notin T /\ x \in Obj
      BY <1>0, <1>6, <2>3
    <3> QED BY <1>5, <3>1
  <2> QED BY <2>2, <2>3
<1>8. \A x \in T : d[x] = "gray" /\ kind[x] # "string" => kind[x] # "udata" /\ x \in Listed(T)
  <2>1. SUFFICES ASSUME NEW x \in T, d[x] = "gray", kind[x] # "string"
                 PROVE  kind[x] # "udata" /\ x \in Listed(T)
    OBVIOUS
  <2>2. x \in Obj /\ kind[x] # "udata" /\ kind[x] # "free" /\ kind[x] \in AllKinds \cup {"free"}
    BY <1>4, <1>5, <2>1 DEF Live, Alloc, TypeOK
  <2> QED BY <2>1, <2>2 DEF Listed, OfKind, AllKinds
<1>9. \A x \in T : d[x] = "black" => kind[x] = "udata" /\ \A r \in Fields(x) : d[r] \notin Whites
  <2>1. SUFFICES ASSUME NEW x \in T, d[x] = "black"
                 PROVE  kind[x] = "udata" /\ \A r \in Fields(x) : d[r] \notin Whites
    OBVIOUS
  <2>2. x \in Obj /\ kind[x] = "udata"
    BY <1>4, <1>5, <2>1
  <2>3. x \in W \cap OfKind({"udata"})
    BY <1>1, <1>3, <2>2 DEF OfKind
  <2>4. Fields(x) = refs[x] /\ refs[x] \subseteq U /\ refs[x] \subseteq Obj
    BY <2>2, <2>3, NoEntries DEF TypeOK
  <2>5. \A r \in refs[x] : c[r] \in Whites => r \in T
    BY <1>1, <2>4
  <2> QED BY <1>5, <1>6, <2>2, <2>4, <2>5
<1>10. d \in [Obj -> Colors]
  BY MarkedType
<1> QED BY <1>4, <1>5, <1>6, <1>7, <1>8, <1>9, <1>10
----------------------------------------------------------------------------
(* Every step preserves the invariant.                                     *)

\* A step of the collector that changes no reference and no mark.
LEMMA PhaseStep ==
    ASSUME IInv, EndSweepString \/ EndSweep \/ EndCycle
    PROVE  ShapeInv' /\ SweepInv' /\ MarkInv' /\ LiveInv'
<1>1. /\ UNCHANGED <<heap, color, finalized, currentwhite, lists, unswept, tmudata>>
      /\ gcstate \in {"sweepstring", "sweep", "finalize"} /\ gcstate' \in {"sweep", "finalize", "pause"}
      /\ gcstate' = "sweep" \/ unswept = {}
  BY DEF EndSweepString, EndSweep, EndCycle, IInv, SweepInv
<1>2. Live' = Live /\ Alloc' = Alloc
  BY <1>1 DEF Live, Alloc, otherwhite
<1>3. ShapeInv'
  BY <1>1, <1>2 DEF IInv, ShapeInv, OfKind
<1>4. SweepInv'
  BY <1>1, <1>2 DEF IInv, SweepInv, otherwhite
<1>5. MarkInv'
  BY <1>1 DEF MarkInv
<1>6. LiveInv'
  BY <1>1, <1>2 DEF IInv, LiveInv, Roots, MtSet, Fields, Keys, Vals
<1> QED BY <1>3, <1>4, <1>5, <1>6

\* markroot starts a mark phase from colours c in which every live object is
\* in the current white, except userdata that wait for their finalizer.
LEMMA MarkRoot ==
    ASSUME IInv, NEW c \in [Obj -> Colors], markroot(c),
           \A o \in Live \ tmudata : c[o] = currentwhite,
           \A u \in Live \cap tmudata : c[u] \notin {"gray", otherwhite},
           UNCHANGED <<currentwhite, tmudata, mt>>, unswept' = {},
           Live = Alloc',
           \A o \in Live : kind'[o] = kind[o] /\ Fields(o)' = Fields(o)
    PROVE  SweepInv' /\ MarkInv' /\ LiveInv'
<1> DEFINE T == MarkClosure(c, Roots)
<1>1. /\ color' = Marked(c, T) /\ gray' = Listed(T) /\ gcstate' = "propagate"
      /\ otherwhite' = otherwhite
  BY DEF markroot, otherwhite
<1>2. Roots \subseteq Live /\ Live \subseteq Obj
  BY HeldLive DEF IInv, LiveInv
<1> DEFINE d == color'
<1>3. /\ T \subseteq Live
      /\ \A x \in T : c[x] \in Whites /\ d[x] \notin Whites
      /\ \A x \in Obj \ T : d[x] = c[x]
      /\ \A x \in Roots : d[x] \notin Whites
      /\ \A x \in T : d[x] = "gray" => kind[x] # "udata"
      /\ \A x \in T : d[x] = "gray" /\ kind[x] # "string" => x \in Listed(T)
      /\ \A x \in T : d[x] = "black" => \A r \in Fields(x) : d[r] \notin Whites
  BY <1>1, <1>2, MarkFacts DEF IInv
<1> HIDE DEF T
<1>4. currentwhite # otherwhite /\ currentwhite \in Whites /\ otherwhite \in Whites
  BY WhiteType DEF IInv
<1>5. \A o \in Live : d[o] # otherwhite
  BY <1>2, <1>3, <1>4
<1>6. Live' = Live
  BY <1>1, <1>2, <1>5 DEF Live
<1>7. SweepInv'
  <2>1. unswept' \subseteq Alloc' \ tmudata' /\ (gcstate' = "propagate") /\ unswept' = {}
    BY <1>1
  <2>2. \A o \in Alloc' : color'[o] # otherwhite'
    BY <1>1, <1>5
  <2> QED BY <2>1, <2>2 DEF SweepInv
<1>8. MarkInv'
  <2>1. color'[M] \notin Whites /\ color'[R] \notin Whites
    BY <1>3 DEF Roots
  <2>2. ASSUME NEW o \in Alloc', color'[o] = "gray", kind'[o] # "string"
        PROVE  o \in Pending'
    <3>1. kind[o] # "string" /\ o \in Obj
      BY <1>2, <2>2
    <3>2. o \in T
      <4>1. SUFFICES ASSUME o \notin T PROVE FALSE
        OBVIOUS
      <4>2. c[o] = "gray"
        BY <1>3, <2>2, <3>1, <4>1
      <4> QED BY <4>2, <1>4 DEF Whites
    <3>3. o \in gray'
      BY <1>1, <1>3, <2>2, <3>1, <3>2
    <3> QED BY <3>3 DEF Pending
  <2>3. ASSUME NEW o \in Alloc' \ tmudata', color'[o] = "black"
        PROVE  \A r \in Fields(o)' : color'[r] \notin Whites
    <3>1. o \in T
      <4>1. SUFFICES ASSUME o \notin T PROVE FALSE
        OBVIOUS
      <4>2. c[o] = "black"
        BY <1>2, <1>3, <2>3, <4>1
      <4> QED BY <4>2, <1>4, <2>3 DEF Whites
    <3> QED BY <1>3, <2>3, <3>1
  <2> QED BY <2>1, <2>2, <2>3 DEF MarkInv, iswhite, isblack
<1>9. LiveInv'
  BY <1>2, <1>6 DEF IInv, LiveInv, Roots, MtSet
<1> QED BY <1>7, <1>8, <1>9

\* While a mark phase has not started, live objects have the current white.
LEMMA CleanLive ==
    ASSUME IInv, NEW o \in Live
    PROVE  /\ gcstate # "propagate" /\ o \notin tmudata \cup unswept => color[o] = currentwhite
           /\ o \in tmudata => color[o] \notin {"gray", otherwhite}
<1>1. o \in Alloc /\ o \in Obj /\ color[o] # otherwhite
  BY DEF Live, Alloc
<1>2. o \in tmudata => kind[o] = "udata" /\ color[o] # "gray"
  BY <1>1 DEF IInv, ShapeInv, OfKind
<1> QED BY <1>1, <1>2 DEF IInv, SweepInv

\* A cycle started by singlestep.
LEMMA StartCycleStep ==
    ASSUME IInv, StartCycle
    PROVE  ShapeInv' /\ SweepInv' /\ MarkInv' /\ LiveInv'
<1>1. /\ markroot(color) /\ gcstate = "pause"
      /\ UNCHANGED <<heap, finalized, currentwhite, unswept, tmudata>>
  BY DEF StartCycle
<1>2. Live = Alloc /\ unswept = {} /\ Alloc' = Alloc
  BY <1>1, AllLive DEF IInv, Alloc
<1>3. \A o \in Live : kind'[o] = kind[o] /\ Fields(o)' = Fields(o)
  BY <1>1 DEF Fields, Keys, Vals
<1>4. color \in [Obj -> Colors]
  BY DEF IInv, TypeOK
<1>5. /\ \A o \in Live \ tmudata : color[o] = currentwhite
      /\ \A u \in Live \cap tmudata : color[u] \notin {"gray", otherwhite}
  BY <1>1, <1>2, CleanLive
<1>6. SweepInv' /\ MarkInv' /\ LiveInv'
  BY <1>1, <1>2, <1>3, <1>4, <1>5, MarkRoot
<1>7. ShapeInv'
  <2> DEFINE T == MarkClosure(color, Roots)
  <2>1. color' = Marked(color, T)
    BY <1>1 DEF markroot
  <2>2. /\ \A x \in Obj \ T : color'[x] = color[x]
        /\ \A x \in T : kind[x] # "thread" \/ color'[x] # "black"
        /\ \A x \in T : kind[x] # "udata" \/ color'[x] # "gray"
    BY <2>1, <1>4, HeldLive, MarkFacts DEF IInv, LiveInv
  <2>3. Live' \subseteq Live
    BY <1>2 DEF Live
  <2> HIDE DEF T
  <2>4. ASSUME NEW o \in Obj
        PROVE  /\ kind[o] = "udata" => color'[o] # "gray"
               /\ kind[o] = "thread" => color'[o] # "black"
    BY <2>2, <2>4 DEF IInv, ShapeInv
  <2> QED BY <1>1, <2>3, <2>4 DEF IInv, ShapeInv, OfKind
<1> QED BY <1>6, <1>7

\* luaC_fullgc frees exactly the dead objects, whatever phase it interrupts.
LEMMA FullGCStep ==
    ASSUME IInv, TypeOK', FullGC
    PROVE  ShapeInv' /\ SweepInv' /\ MarkInv' /\ LiveInv'
<1> DEFINE S == IF gcstate \in {"pause", "propagate"} THEN Alloc \ tmudata ELSE unswept
           c == [o \in Obj |-> IF o \in S THEN currentwhite ELSE color[o]]
           D == {o \in S : isdead(o)}
<1>1. Freed(D) /\ markroot(c) /\ unswept' = {} /\ UNCHANGED <<mt, currentwhite, tmudata>>
  BY DEF FullGC
<1>2. S \subseteq Alloc /\ S \cap tmudata = {} /\ unswept \subseteq S
  BY DEF IInv, SweepInv
<1>3. D = Alloc \ Live
  BY <1>2 DEF IInv, SweepInv, isdead, Alloc, Live
<1>4. c \in [Obj -> Colors]
  BY DEF IInv, TypeOK, Colors
<1>5. \A o \in Live \ tmudata : c[o] = currentwhite
  <2>1. SUFFICES ASSUME NEW o \in Live \ tmudata, o \notin S PROVE color[o] = currentwhite
    BY DEF Live, Alloc
  <2>2. gcstate \notin {"pause", "propagate"} /\ o \notin unswept
    BY <1>2, <2>1 DEF Live
  <2> QED BY <2>1, <2>2, CleanLive
<1>6. \A u \in Live \cap tmudata : c[u] \notin {"gray", otherwhite}
  BY <1>2, CleanLive DEF Live, Alloc
<1> HIDE DEF c, S
<1>7. Alloc' = Live
  BY <1>1, <1>3 DEF Freed, Alloc, Live, IInv, TypeOK, AllKinds
<1>8. \A o \in Live : /\ kind'[o] = kind[o] /\ refs'[o] = refs[o] /\ entries'[o] = entries[o]
                      /\ mode'[o] = mode[o]
  BY <1>1, <1>3 DEF Freed, Live, Alloc
<1>9. \A o \in Live : kind'[o] = kind[o] /\ Fields(o)' = Fields(o)
  BY <1>8 DEF Fields, Keys, Vals
<1>10. SweepInv' /\ MarkInv' /\ LiveInv'
  BY <1>1, <1>4, <1>5, <1>6, <1>7, <1>9, MarkRoot
<1>11. ShapeInv'
  <2>1. M \in Live /\ R \in Live /\ Live \subseteq Obj /\ Live' \subseteq Live
    BY <1>7, HeldLive DEF IInv, LiveInv, Roots, Live, Alloc
  <2>2. \A o \in Obj : /\ o \in Live => kind'[o] = kind[o]
                       /\ o \notin Live =>
                            kind'[o] = "free" /\ refs'[o] = {} /\ entries'[o] = {} /\ mode'[o] = "strong"
    <3>1. \A o \in Obj : o \in Alloc \/ (kind[o] = "free" /\ refs[o] = {} /\ entries[o] = {} /\ mode[o] = "strong")
      BY DEF IInv, ShapeInv, Alloc
    <3> QED BY <1>1, <1>3, <1>8, <3>1 DEF Freed, Live
  <2>3. /\ \A o \in Obj : kind'[o] \in {"free", "string"} => refs'[o] = {}
        /\ \A o \in Obj : kind'[o] # "table" => entries'[o] = {} /\ mode'[o] = "strong"
    BY <1>8, <2>2 DEF IInv, ShapeInv
  <2>4. ASSUME NEW u \in Live', kind'[u] = "udata", NEW r \in refs'[u] PROVE kind'[r] = "table"
    <3>1. u \in Live /\ kind[u] = "udata" /\ r \in refs[u]
      BY <1>8, <2>1, <2>4
    <3>2. r \in Live /\ kind[r] = "table"
      BY <3>1 DEF IInv, ShapeInv, LiveInv, Fields
    <3> QED BY <1>8, <3>2
  <2>5. finalized' \subseteq OfKind({"udata"})' /\ tmudata' \subseteq OfKind({"udata"})'
    <3>1. finalized' = finalized \ D /\ tmudata' = tmudata /\ tmudata \cap D = {}
      BY <1>1, <1>2 DEF Freed
    <3>2. \A o \in OfKind({"udata"}) \ D : o \in Live /\ o \in OfKind({"udata"})'
      BY <1>3, <1>8 DEF OfKind, Alloc
    <3> QED BY <3>1, <3>2 DEF IInv, ShapeInv
  <2>6. ASSUME NEW o \in Obj
        PROVE  /\ kind'[o] = "udata" => color'[o] # "gray"
               /\ kind'[o] = "thread" => color'[o] # "black"
    <3>1. o \in Live \/ kind'[o] = "free"
      BY <2>2
    <3>2. CASE o \in Live
      <4> DEFINE T == MarkClosure(c, Roots)
      <4>1. color' = Marked(c, T)
        BY <1>1 DEF markroot
      <4>2. c[o] \notin {"gray", "black"} \/ (kind[o] = "udata" /\ c[o] # "gray")
        <5>1. o \in tmudata => kind[o] = "udata"
          BY DEF IInv, ShapeInv, OfKind
        <5> QED BY <1>5, <1>6, <3>2, <5>1, WhiteType DEF IInv, Whites
      <4>3. /\ o \notin T => color'[o] = c[o]
            /\ o \in T => kind[o] # "thread" \/ color'[o] # "black"
            /\ o \in T => kind[o] # "udata" \/ color'[o] # "gray"
        BY <1>4, <4>1, HeldLive, MarkFacts DEF IInv, LiveInv
      <4> QED BY <1>8, <3>2, <4>2, <4>3
    <3> QED BY <3>1, <3>2
  <2> QED BY <1>8, <2>1, <2>3, <2>4, <2>5, <2>6 DEF IInv, ShapeInv
<1> QED BY <1>10, <1>11

\* propagatemark blackens an object only after it marked what it refers to.
LEMMA PropagateStep ==
    ASSUME IInv, NEW o \in Obj, propagatemark(o)
    PROVE  ShapeInv' /\ SweepInv' /\ MarkInv' /\ LiveInv'
<1> DEFINE T == MarkClosure(color, Children(o))
           d == Marked(color, T)
<1>1. /\ color' = [d EXCEPT ![o] = Traversed(o)]
      /\ gray' = (gray \ {o}) \cup Listed(T)
      /\ grayagain' = IF kind[o] = "thread" THEN grayagain \cup {o} ELSE grayagain
      /\ weak' = IF IsWeak(o) THEN weak \cup {o} ELSE weak
      /\ gcstate = "propagate"
      /\ UNCHANGED <<heap, finalized, currentwhite, gcstate, unswept, tmudata>>
  BY DEF propagatemark
<1>2. Live = Alloc /\ unswept = {} /\ Live \subseteq Obj
  BY <1>1, AllLive DEF IInv, Live, Alloc
<1>3. Children(o) \subseteq Live
  BY <1>2, NoEntries, FieldsType DEF IInv, LiveInv, Alloc
<1>4. color \in [Obj -> Colors]
  BY DEF IInv, TypeOK
<1>5. /\ T \subseteq Live /\ d \in [Obj -> Colors]
      /\ \A x \in T : color[x] \in Whites /\ d[x] \notin Whites
      /\ \A x \in Obj \ T : d[x] = color[x]
      /\ \A x \in Children(o) : d[x] \notin Whites
      /\ \A x \in T : d[x] = "gray" => kind[x] # "udata"
      /\ \A x \in T : d[x] = "gray" /\ kind[x] # "string" => x \in Listed(T)
      /\ \A x \in T : d[x] = "black" => kind[x] = "udata" /\ \A r \in Fields(x) : d[r] \notin Whites
  BY <1>3, <1>4, MarkFacts DEF IInv
<1> HIDE DEF T, d
<1>6. \A x \in Obj : color'[x] = IF x = o THEN Traversed(o) ELSE d[x]
  BY <1>1, <1>5
<1>7. /\ Traversed(o) \notin Whites
      /\ kind[o] = "udata" => Traversed(o) # "gray"
      /\ kind[o] = "thread" => Traversed(o) # "black"
      /\ Traversed(o) = "gray" => kind[o] \in {"thread", "string"} \/ IsWeak(o)
      /\ Traversed(o) = "black" => ~IsWeak(o)
  BY NoEntries DEF Traversed, Whites, IInv
<1>8. \A x \in Obj : color[x] \notin Whites \/ d[x] \notin Whites => color'[x] \notin Whites
  BY <1>5, <1>6, <1>7
<1>9. otherwhite \in Whites /\ otherwhite' = otherwhite
  BY <1>1, WhiteType DEF IInv, otherwhite
<1>10. Live' = Live /\ Alloc' = Alloc
  <2>1. \A x \in Alloc : color'[x] # otherwhite
    BY <1>2, <1>5, <1>6, <1>7, <1>9 DEF Live
  <2> QED BY <1>1, <1>2, <1>9, <2>1 DEF Live, Alloc
<1>11. \A x \in Obj : Fields(x)' = Fields(x)
  BY <1>1 DEF Fields, Keys, Vals
<1>12. ShapeInv'
  <2>1. ASSUME NEW x \in Obj
        PROVE  /\ kind[x] = "udata" => color'[x] # "gray"
               /\ kind[x] = "thread" => color'[x] # "black"
    <3>1. /\ kind[x] = "udata" => color[x] # "gray"
          /\ kind[x] = "thread" => color[x] # "black"
      BY DEF IInv, ShapeInv
    <3> QED BY <1>5, <1>6, <1>7, <3>1
  <2> QED BY <1>1, <1>10, <2>1 DEF IInv, ShapeInv, OfKind
<1>13. SweepInv'
  <2>1. \A x \in Alloc : color'[x] # otherwhite
    BY <1>2, <1>9, <1>10 DEF Live
  <2> QED BY <1>1, <1>2, <1>9, <1>10, <2>1 DEF IInv, SweepInv
<1>14. MarkInv'
  <2>1. color'[M] \notin Whites /\ color'[R] \notin Whites
    BY <1>1, <1>8, GCAssumption DEF IInv, MarkInv, iswhite
  <2>2. ASSUME NEW x \in Alloc, color'[x] = "gray", kind[x] # "string" PROVE x \in Pending'
    <3>1. CASE x = o
      BY <1>1, <1>2, <1>6, <1>7, <2>2, <3>1 DEF Pending
    <3>2. CASE x # o /\ x \in T
      BY <1>1, <1>2, <1>5, <1>6, <2>2, <3>2 DEF Pending
    <3>3. CASE x # o /\ x \notin T
      <4>1. color[x] = "gray"
        BY <1>2, <1>5, <1>6, <2>2, <3>3
      <4>2. x \in Pending
        BY <1>1, <2>2, <4>1 DEF IInv, MarkInv
      <4> QED BY <1>1, <3>3, <4>2 DEF Pending
    <3> QED BY <3>1, <3>2, <3>3
  <2>3. ASSUME NEW x \in Alloc \ tmudata, color'[x] = "black", NEW r \in Fields(x)
        PROVE  color'[r] \notin Whites
    <3>0. x \in Obj /\ r \in Obj
      BY <1>2, <2>3, FieldsType DEF IInv
    <3>1. CASE x = o
      <4>1. Fields(o) = Children(o)
        BY <1>6, <1>7, <2>3, <3>0, <3>1, NoEntries DEF IInv
      <4> QED BY <1>5, <1>8, <2>3, <3>0, <3>1, <4>1
    <3>2. CASE x # o /\ x \in T
      BY <1>5, <1>6, <1>8, <2>3, <3>0, <3>2
    <3>3. CASE x # o /\ x \notin T
      <4>1. isblack(x)
        BY <1>5, <1>6, <2>3, <3>0, <3>3 DEF isblack
      <4>2. color[r] \notin Whites
        BY <1>1, <2>3, <4>1 DEF IInv, MarkInv, iswhite
      <4> QED BY <1>8, <3>0, <4>2
    <3> QED BY <3>1, <3>2, <3>3
  <2> QED BY <1>1, <1>2, <1>10, <1>11, <2>1, <2>2, <2>3 DEF MarkInv, iswhite, isblack
<1>15. LiveInv'
  BY <1>1, <1>2, <1>10, <1>11 DEF IInv, LiveInv, Roots, MtSet
<1> QED BY <1>12, <1>13, <1>14, <1>15

\* What atomic marks holds the roots, and what is marked refers to marked
\* objects only, through anything but the weak side of a table.
LEMMA AtomicMarks ==
    ASSUME IInv, gcstate = "propagate"
    PROVE  /\ Mark1 \subseteq Mark2 /\ Mark2 \subseteq Live
           /\ Roots \subseteq Mark1
           /\ \A o \in Mark1 \ tmudata : Children(o) \subseteq Mark1
           /\ \A o \in Mark2 \cup Pending : Children(o) \subseteq Mark2
           /\ \A o \in Alloc \ tmudata : isblack(o) => Fields(o) \subseteq Mark1
<1> DEFINE seed == {r \in {M} \cup MtSet \cup UNION {Children(o) : o \in Pending} : iswhite(r)}
<1>0. Live = Alloc /\ Live \subseteq Obj
  BY AllLive DEF IInv, Alloc
<1>1. \A o \in Obj : Children(o) \subseteq Live
  BY <1>0, NoEntries, FieldsType DEF IInv, LiveInv, Alloc
<1>2. Pending \subseteq Obj
  BY DEF Pending, IInv, TypeOK
<1>3. M \in Live /\ R \in Live /\ MtSet \subseteq Live
  BY DEF IInv, LiveInv, Roots
<1>4. seed \subseteq Live
  BY <1>1, <1>2, <1>3
<1>5. \A x \in Obj : WhiteChildren[x] = {r \in Children(x) : iswhite(r)}
  BY DEF WhiteChildren
<1>6. Remarked = Grow(seed, WhiteChildren)
  BY DEF Remarked
<1>7. Remarked \subseteq Live
  BY <1>0, <1>1, <1>4, <1>5, <1>6, GrowLeast
<1>8. seed \subseteq Remarked
  BY <1>0, <1>4, <1>6, GrowBase
<1>9. Mark1 \subseteq Live
  BY <1>0, <1>7 DEF Mark1
<1>10. \A r \in Live : iswhite(r) \/ r \in Mark1
  BY <1>0 DEF Mark1
<1>11. ASSUME NEW o \in Pending PROVE Children(o) \subseteq Mark1
  <2>1. SUFFICES ASSUME NEW r \in Children(o), iswhite(r) PROVE r \in Mark1
    BY <1>1, <1>2, <1>10
  <2>2. r \in seed
    BY <2>1
  <2> QED BY <1>8, <2>2 DEF Mark1
<1>12. ASSUME NEW o \in Alloc \ tmudata, isblack(o) PROVE Fields(o) \subseteq Mark1
  <2>1. \A r \in Fields(o) : ~iswhite(r) /\ r \in Live
    BY <1>0, <1>12 DEF IInv, MarkInv, LiveInv
  <2> QED BY <1>10, <2>1
<1>13. ASSUME NEW o \in Mark1 \ tmudata PROVE Children(o) \subseteq Mark1
  <2>0. o \in Obj /\ o \in Alloc
    BY <1>0, <1>9
  <2>1. CASE o \in Remarked
    <3>1. SUFFICES ASSUME NEW r \in Children(o), iswhite(r) PROVE r \in Mark1
      BY <1>1, <1>10, <2>0
    <3>2. r \in WhiteChildren[o] /\ r \in Obj
      BY <1>0, <1>1, <1>5, <2>0, <3>1
    <3>3. r \in Grow(seed, WhiteChildren)
      BY <1>6, <2>1, <3>2, GrowStep
    <3> QED BY <1>6, <3>3 DEF Mark1
  <2>2. CASE o \notin Remarked
    <3>1. ~iswhite(o)
      BY <2>2 DEF Mark1
    <3>2. color[o] \in {"gray", "black"}
      BY <2>0, <3>1 DEF IInv, TypeOK, iswhite, Colors
    <3>3. CASE color[o] = "black"
      BY <1>12, <1>13, <2>0, <3>3, FieldsType DEF isblack, IInv
    <3>4. CASE color[o] = "gray" /\ kind[o] = "string"
      BY <2>0, <3>4, NoEntries DEF IInv
    <3>5. CASE color[o] = "gray" /\ kind[o] # "string"
      <4>1. o \in Pending
        BY <2>0, <3>5 DEF IInv, MarkInv
      <4> QED BY <1>11, <4>1
    <3> QED BY <3>2, <3>3, <3>4, <3>5
  <2> QED BY <2>1, <2>2
<1>14. ToFinalize \subseteq Live
  BY <1>0 DEF ToFinalize, Separable, OfKind, Alloc, IInv, ShapeInv
<1> DEFINE seed2 == UNION {Unmarked[u] : u \in ToFinalize}
<1>15. \A x \in Obj : Unmarked[x] = Children(x) \ Mark1
  BY DEF Unmarked
<1>16. seed2 \subseteq Live
  BY <1>0, <1>1, <1>14, <1>15
<1>17. Preserved = Grow(seed2, Unmarked)
  BY DEF Preserved
<1> HIDE DEF seed, seed2
<1>18. Preserved \subseteq Live /\ seed2 \subseteq Preserved
  <2>1. \A x \in Live : Unmarked[x] \subseteq Live
    BY <1>0, <1>1, <1>15
  <2> QED BY <1>0, <1>16, <1>17, <2>1, GrowLeast, GrowBase
<1>19. ASSUME NEW o \in ToFinalize \cup Preserved PROVE Children(o) \subseteq Mark2
  <2>1. SUFFICES ASSUME NEW r \in Children(o), r \notin Mark1 PROVE r \in Preserved
    BY DEF Mark2
  <2>2. o \in Obj /\ r \in Unmarked[o] /\ r \in Obj
    BY <1>0, <1>1, <1>14, <1>15, <1>18, <2>1
  <2>3. CASE o \in ToFinalize
    BY <1>18, <2>2, <2>3 DEF seed2
  <2>4. CASE o \in Preserved
    BY <1>17, <2>2, <2>4, GrowStep
  <2> QED BY <2>3, <2>4
<1>20. Mark1 \subseteq Mark2 /\ Mark2 \subseteq Live
  BY <1>9, <1>14, <1>18 DEF Mark2
<1>21. ASSUME NEW o \in Mark2 \cup Pending PROVE Children(o) \subseteq Mark2
  <2>1. tmudata \subseteq ToFinalize
    BY DEF ToFinalize
  <2>2. o \in Pending \/ o \in Mark1 \ tmudata \/ o \in ToFinalize \cup Preserved
    BY <2>1 DEF Mark2
  <2> QED BY <1>11, <1>13, <1>19, <1>20, <2>2
<1>22. Roots \subseteq Mark1
  <2>1. \A r \in MtSet : iswhite(r) => r \in Remarked
    BY <1>8 DEF seed
  <2>2. MtSet \subseteq Mark1
    BY <1>3, <1>10, <2>1 DEF Mark1
  <2>3. M \in Mark1 /\ R \in Mark1
    BY <1>3, <1>10 DEF IInv, MarkInv
  <2> QED BY <2>2, <2>3 DEF Roots
<1> QED BY <1>12, <1>13, <1>20, <1>21, <1>22

\* After atomic the marked objects, and they alone, are live: everything a
\* marked object still refers to is marked, because what was not has been
\* cleared from the weak tables.
LEMMA AtomicStep ==
    ASSUME IInv, TypeOK', atomic
    PROVE  ShapeInv' /\ SweepInv' /\ MarkInv' /\ LiveInv'
<1>1. /\ gcstate = "propagate" /\ gray = {}
      /\ \A o \in Obj : color'[o] =
            IF o \in ToFinalize THEN "black"
            ELSE IF o \in Remarked \cup Preserved \cup weak \cup grayagain THEN Traversed(o)
            ELSE IF o \in StringsMarked THEN "gray" ELSE color[o]
      /\ \A t \in Obj : entries'[t] = IF t \in WeakList THEN Kept(t) ELSE entries[t]
      /\ finalized' = finalized \cup Separable /\ tmudata' = ToFinalize
      /\ currentwhite' = otherwhite /\ gcstate' = "sweepstring"
      /\ unswept' = Alloc \ ToFinalize
      /\ UNCHANGED <<kind, refs, mode, hasgc, mt>>
  BY DEF atomic
<1>2. Live = Alloc /\ Live \subseteq Obj /\ Alloc' = Alloc
  BY <1>1, AllLive DEF IInv, Alloc
<1>3. /\ Mark1 \subseteq Mark2 /\ Mark2 \subseteq Live /\ Roots \subseteq Mark1
      /\ \A o \in Mark2 \cup Pending : Children(o) \subseteq Mark2
      /\ \A o \in Alloc \ tmudata : isblack(o) => Fields(o) \subseteq Mark1
  BY <1>1, AtomicMarks
<1>4. /\ otherwhite' = currentwhite
      /\ currentwhite \in Whites /\ otherwhite \in Whites /\ currentwhite # otherwhite
      /\ \A c \in Whites : c = currentwhite \/ c = otherwhite
  BY <1>1, WhiteType DEF IInv, otherwhite, Whites
<1>5. \A o \in Obj : Traversed(o) \in {"gray", "black"}
  BY DEF Traversed
<1> DEFINE K == Mark2 \cup (Alloc \cap (weak \cup grayagain)) \cup StringsMarked
<1>6. StringsMarked \subseteq Alloc
  BY DEF StringsMarked, OfKind, Alloc
<1>7. Live' = K
  <2>1. ASSUME NEW o \in K PROVE o \in Live'
    <3>1. o \in Alloc /\ o \in Obj
      BY <1>2, <1>3, <1>6, <2>1
    <3>2. color'[o] \notin Whites
      <4>1. CASE o \in ToFinalize \cup Remarked \cup Preserved \cup weak \cup grayagain \cup StringsMarked
        BY <1>1, <1>5, <3>1, <4>1 DEF Whites
      <4>2. CASE o \notin ToFinalize \cup Remarked \cup Preserved \cup weak \cup grayagain \cup StringsMarked
        <5>1. ~iswhite(o) /\ color'[o] = color[o]
          BY <1>1, <2>1, <3>1, <4>2 DEF Mark1, Mark2
        <5> QED BY <5>1 DEF iswhite
      <4> QED BY <4>1, <4>2
    <3> QED BY <1>2, <1>4, <3>1, <3>2 DEF Live
  <2>2. ASSUME NEW o \in Alloc, o \notin K PROVE o \notin Live'
    <3>1. color'[o] = color[o] /\ iswhite(o)
      BY <1>1, <1>2, <2>2 DEF Mark1, Mark2
    <3>2. color[o] = currentwhite
      BY <1>2, <1>4, <2>2, <3>1 DEF Live, iswhite
    <3> QED BY <1>4, <3>1, <3>2 DEF Live
  <2> QED BY <1>2, <1>3, <1>6, <2>1, <2>2 DEF Live
<1>8. ASSUME NEW o \in K PROVE Fields(o)' \subseteq K
  <2>0. o \in Obj /\ o \in Alloc
    BY <1>2, <1>3, <1>6, <1>8
  <2>1. Children(o) \subseteq Mark2
    <3>1. CASE o \in StringsMarked
      BY <2>0, <3>1, NoEntries DEF IInv, StringsMarked, OfKind
    <3>2. CASE o \notin StringsMarked
      BY <1>3, <1>8, <3>2 DEF Pending
    <3> QED BY <3>1, <3>2
  <2>2. CASE o \notin WeakList
    <3>1. Fields(o)' = Fields(o)
      BY <1>1, <2>0, <2>2 DEF Fields, Keys, Vals
    <3>2. CASE ~IsWeak(o)
      BY <2>0, <2>1, <3>1, <3>2, NoEntries DEF IInv
    <3>3. CASE IsWeak(o)
      <4>1. kind[o] = "table" /\ o \notin weak \cup grayagain \cup Remarked \cup Preserved
        BY <2>0, <2>2, <3>3, NoEntries DEF WeakList, IInv
      <4>2. o \notin tmudata /\ o \notin ToFinalize /\ o \notin StringsMarked
        BY <4>1 DEF IInv, ShapeInv, OfKind, ToFinalize, Separable, StringsMarked
      <4>3. ~iswhite(o)
        BY <1>8, <4>1, <4>2 DEF Mark1, Mark2
      <4>4. color[o] # "gray"
        BY <1>1, <2>0, <4>1 DEF IInv, MarkInv, Pending
      <4>5. isblack(o)
        BY <2>0, <4>3, <4>4 DEF iswhite, isblack, IInv, TypeOK, Colors
      <4> QED BY <1>3, <2>0, <3>1, <4>2, <4>5
    <3> QED BY <3>2, <3>3
  <2>3. CASE o \in WeakList
    <3>1. entries'[o] = Kept(o) /\ refs'[o] = refs[o]
      BY <1>1, <2>0, <2>3
    <3>2. ASSUME NEW e \in Kept(o), e[1] # Data PROVE e[1] \in K
      <4>1. e \in entries[o] /\ ~iscleared(e[1], TRUE)
        BY <3>2 DEF Kept
      <4>2. e[1] \in Obj
        BY <2>0, <3>2, <4>1 DEF IInv, TypeOK, Value
      <4>3. CASE kind[e[1]] = "string"
        BY <2>3, <4>1, <4>2, <4>3 DEF StringsMarked, OfKind
      <4>4. CASE kind[e[1]] # "string"
        BY <3>2, <4>1, <4>4 DEF iscleared
      <4> QED BY <4>3, <4>4
    <3>3. ASSUME NEW e \in Kept(o), e[2] # Data PROVE e[2] \in K
      <4>1. e \in entries[o] /\ ~iscleared(e[1], TRUE) /\ ~iscleared(e[2], FALSE)
        BY <3>3 DEF Kept
      <4>2. e[2] \in Obj
        BY <2>0, <3>3, <4>1 DEF IInv, TypeOK, Value
      <4>3. CASE kind[e[2]] = "string"
        BY <2>3, <4>1, <4>2, <4>3 DEF StringsMarked, OfKind
      <4>4. CASE kind[e[2]] # "string"
        BY <3>3, <4>1, <4>4 DEF iscleared
      <4> QED BY <4>3, <4>4
    <3>4. refs[o] \subseteq K
      BY <2>1 DEF Children
    <3> QED BY <3>1, <3>2, <3>3, <3>4 DEF Fields, Keys, Vals
  <2> QED BY <2>2, <2>3
<1> HIDE DEF K
<1>9. LiveInv'
  <2>1. Roots' \subseteq K
    BY <1>1, <1>3 DEF Roots, MtSet, K
  <2> QED BY <1>7, <1>8, <2>1 DEF LiveInv
<1>10. SweepInv'
  BY <1>1, <1>2, <1>4 DEF SweepInv, Whites
<1>11. MarkInv'
  BY <1>1 DEF MarkInv
<1>12. ShapeInv'
  <2>1. \A o \in Obj : kind[o] # "table" => entries'[o] = {} /\ mode[o] = "strong"
    BY <1>1 DEF IInv, ShapeInv, Kept
  <2>2. Live' \subseteq Live
    BY <1>2 DEF Live
  <2>3. ToFinalize \subseteq OfKind({"udata"}) /\ Separable \subseteq OfKind({"udata"})
    BY DEF ToFinalize, Separable, IInv, ShapeInv
  <2>4. ASSUME NEW o \in Obj
        PROVE  /\ kind[o] = "udata" => color'[o] # "gray"
               /\ kind[o] = "thread" => color'[o] # "black"
    <3>1. kind[o] = "udata" => Traversed(o) = "black" /\ o \notin StringsMarked
      BY NoEntries DEF Traversed, IInv, StringsMarked, OfKind
    <3>2. kind[o] = "thread" => Traversed(o) = "gray" /\ o \notin ToFinalize
      BY <2>3 DEF Traversed, OfKind
    <3>3. /\ kind[o] = "udata" => color[o] # "gray"
          /\ kind[o] = "thread" => color[o] # "black"
      BY DEF IInv, ShapeInv
    <3> QED BY <1>1, <3>1, <3>2, <3>3
  <2> QED BY <1>1, <2>1, <2>2, <2>3, <2>4 DEF IInv, ShapeInv, OfKind
<1> QED BY <1>9, <1>10, <1>11, <1>12

\* Sweeping frees a dead object, or whitens a live one.
LEMMA SweepStep ==
    ASSUME IInv, TypeOK', NEW o \in Obj, sweepstring(o) \/ sweep(o)
    PROVE  ShapeInv' /\ SweepInv' /\ MarkInv' /\ LiveInv'
<1> DEFINE D == {x \in {o} : isdead(x)}
<1>1. /\ o \in unswept /\ gcstate \in {"sweepstring", "sweep"}
      /\ color' = [x \in Obj |-> IF x \in {o} THEN currentwhite ELSE color[x]]
      /\ unswept' = unswept \ {o}
      /\ Freed(D)
      /\ UNCHANGED <<mt, currentwhite, gcstate, lists, tmudata>>
      /\ otherwhite' = otherwhite
  BY DEF sweepstring, sweep, sweeplist, otherwhite
<1>2. currentwhite # otherwhite
  BY WhiteType DEF IInv
<1>3. o \in Alloc \ tmudata /\ D = {o} \ Live
  BY <1>1 DEF IInv, SweepInv, isdead, Live, Alloc
<1>4. \A x \in Obj \ D : /\ kind'[x] = kind[x] /\ refs'[x] = refs[x]
                         /\ entries'[x] = entries[x] /\ mode'[x] = mode[x]
  BY <1>1 DEF Freed
<1>5. \A x \in D : /\ kind'[x] = "free" /\ refs'[x] = {}
                   /\ entries'[x] = {} /\ mode'[x] = "strong"
  BY <1>1 DEF Freed
<1> HIDE DEF D
<1>6. Alloc' = Alloc \ D /\ Live \subseteq Obj
  BY <1>3, <1>4, <1>5 DEF Alloc, Live
<1>7. Live' = Live
  <2>1. \A x \in Alloc \ {o} : color'[x] = color[x]
    BY <1>1 DEF Alloc
  <2>2. color'[o] = currentwhite
    BY <1>1
  <2> QED BY <1>1, <1>2, <1>3, <1>6, <2>1, <2>2 DEF Live
<1>8. \A x \in Live : Fields(x)' = Fields(x) /\ kind'[x] = kind[x]
  BY <1>3, <1>4, <1>6 DEF Fields, Keys, Vals
<1>9. LiveInv'
  BY <1>1, <1>7, <1>8 DEF IInv, LiveInv, Roots, MtSet
<1>10. SweepInv'
  <2>1. \A x \in Alloc' : x # o => color'[x] = color[x]
    BY <1>1, <1>6 DEF Alloc
  <2>2. color'[o] = currentwhite
    BY <1>1
  <2> QED BY <1>1, <1>2, <1>3, <1>6, <2>1, <2>2 DEF IInv, SweepInv
<1>11. MarkInv'
  BY <1>1 DEF MarkInv
<1>12. ShapeInv'
  <2>1. M \in Live /\ R \in Live
    BY DEF IInv, LiveInv, Roots
  <2>2. /\ \A x \in Obj : kind'[x] \in {"free", "string"} => refs'[x] = {}
        /\ \A x \in Obj : kind'[x] # "table" => entries'[x] = {} /\ mode'[x] = "strong"
    BY <1>4, <1>5 DEF IInv, ShapeInv
  <2>3. ASSUME NEW u \in Live', kind'[u] = "udata", NEW r \in refs'[u] PROVE kind'[r] = "table"
    <3>1. u \in Live /\ kind[u] = "udata" /\ u \in Obj \ D
      BY <1>3, <1>6, <1>7, <1>8, <2>3
    <3>2. r \in refs[u] /\ r \in Live /\ kind[r] = "table"
      BY <1>4, <2>3, <3>1 DEF IInv, ShapeInv, LiveInv, Fields
    <3> QED BY <1>8, <3>2
  <2>4. finalized' \subseteq OfKind({"udata"})' /\ tmudata' \subseteq OfKind({"udata"})'
    <3>1. finalized' = finalized \ D /\ tmudata' = tmudata /\ tmudata \cap D = {}
      BY <1>1, <1>3 DEF Freed, D
    <3>2. \A x \in OfKind({"udata"}) \ D : x \in OfKind({"udata"})'
      BY <1>4 DEF OfKind
    <3> QED BY <3>1, <3>2 DEF IInv, ShapeInv
  <2>5. ASSUME NEW x \in Obj
        PROVE  /\ kind'[x] = "udata" => color'[x] # "gray"
               /\ kind'[x] = "thread" => color'[x] # "black"
    <3>1. currentwhite \notin {"gray", "black"}
      BY DEF IInv, TypeOK, Whites
    <3> QED BY <1>1, <1>4, <1>5, <3>1 DEF IInv, ShapeInv
  <2> QED BY <1>8, <2>1, <2>2, <2>3, <2>4, <2>5 DEF IInv, ShapeInv
<1> QED BY <1>9, <1>10, <1>11, <1>12

\* A finalizer brings its userdata back in the current white.
LEMMA GCTMStep ==
    ASSUME IInv, NEW u \in Obj, GCTM(u)
    PROVE  ShapeInv' /\ SweepInv' /\ MarkInv' /\ LiveInv'
<1>1. /\ gcstate = "finalize" /\ u \in tmudata /\ tmudata' = tmudata \ {u}
      /\ color' = [color EXCEPT ![u] = currentwhite]
      /\ UNCHANGED <<kind, entries, mode, mt, finalized, currentwhite, gcstate, unswept>>
      /\ otherwhite' = otherwhite
  BY DEF GCTM, otherwhite
<1>2. \A x \in Obj : refs'[x] \subseteq refs[x] \cup (IF x = M THEN {u} ELSE {})
  BY GCAssumption DEF GCTM, IInv, TypeOK
<1>3. Live = Alloc /\ unswept = {} /\ Alloc' = Alloc /\ Live \subseteq Obj
  BY <1>1, AllLive DEF IInv, Alloc
<1>4. currentwhite # otherwhite /\ currentwhite \in Whites
  BY WhiteType DEF IInv
<1>5. \A x \in Obj : color'[x] = IF x = u THEN currentwhite ELSE color[x]
  BY <1>1 DEF IInv, TypeOK
<1>6. Live' = Live
  BY <1>1, <1>3, <1>4, <1>5 DEF Live
<1>7. kind[u] = "udata" /\ u \in Live
  BY <1>1, <1>3 DEF IInv, ShapeInv, OfKind, Alloc
<1>8. LiveInv'
  <2>1. \A x \in Live : Fields(x)' \subseteq Live
    BY <1>1, <1>2, <1>3, <1>7 DEF IInv, LiveInv, Fields, Keys, Vals
  <2> QED BY <1>1, <1>6, <2>1 DEF IInv, LiveInv, Roots, MtSet
<1>9. SweepInv'
  BY <1>1, <1>3, <1>4, <1>5 DEF IInv, SweepInv
<1>10. ShapeInv'
  <2>1. kind[M] = "thread" /\ \A x \in Obj \ {M} : refs'[x] \subseteq refs[x]
    BY <1>2 DEF IInv, ShapeInv
  <2> QED BY <1>1, <1>4, <1>5, <1>6, <1>3, <2>1 DEF IInv, ShapeInv, OfKind, Whites
<1>11. MarkInv'
  BY <1>1 DEF MarkInv
<1> QED BY <1>8, <1>9, <1>10, <1>11

\* The collector preserves the invariant.
LEMMA GCStepInv == ASSUME IInv, GCStep PROVE IInv'
<1>1. TypeOK'
  BY TypeGCStep DEF IInv
<1> QED BY <1>1, PhaseStep, StartCycleStep, PropagateStep, AtomicStep, SweepStep, GCTMStep
        DEF GCStep, IInv
----------------------------------------------------------------------------
(* The program preserves the invariant.                                    *)

\* Steps that touch no mark: an object may lose references, and a thread,
\* which is never black, may take live ones.
LEMMA QuietStep ==
    ASSUME IInv, UNCHANGED <<kind, color, finalized, lists, program>>,
           MtSet' \subseteq Live,
           \A x \in Live : \/ Fields(x)' \subseteq Fields(x)
                           \/ kind[x] = "thread" /\ Fields(x)' \subseteq Live
    PROVE  SweepInv' /\ MarkInv' /\ LiveInv'
<1>1. Live' = Live /\ Alloc' = Alloc /\ otherwhite' = otherwhite
  BY DEF Live, Alloc, otherwhite
<1>2. LiveInv'
  BY <1>1 DEF IInv, LiveInv, Roots
<1>3. SweepInv'
  BY <1>1 DEF IInv, SweepInv
<1>4. MarkInv'
  <2>1. SUFFICES ASSUME gcstate = "propagate" PROVE MarkInv'
    BY DEF MarkInv
  <2>2. Live = Alloc
    BY <2>1, AllLive DEF IInv
  <2>3. \A x \in Alloc : isblack(x) => Fields(x)' \subseteq Fields(x)
    BY <2>2 DEF isblack, IInv, ShapeInv, Alloc
  <2> QED BY <1>1, <2>1, <2>3 DEF IInv, MarkInv, iswhite, isblack, Pending
<1> QED BY <1>2, <1>3, <1>4

\* A stack or an entry is changed: Load, Pop, XMove.
LEMMA StackStep ==
    ASSUME IInv, NEW t \in Live, kind[t] = "thread", NEW v \in Live,
           refs' \in {[refs EXCEPT ![t] = @ \cup {v}], [refs EXCEPT ![t] = @ \ {v}]},
           UNCHANGED <<kind, entries, mode, mt, color, finalized, lists, program>>
    PROVE  ShapeInv' /\ SweepInv' /\ MarkInv' /\ LiveInv'
<1>1. t \in Obj /\ Live' = Live
  BY DEF Live, Alloc, otherwhite
<1>2. \A x \in Obj : refs'[x] \subseteq refs[x] \/ (x = t /\ refs'[x] \subseteq refs[t] \cup {v})
  BY <1>1 DEF IInv, TypeOK
<1>3. \A x \in Live : \/ Fields(x)' \subseteq Fields(x)
                      \/ kind[x] = "thread" /\ Fields(x)' \subseteq Live
  BY <1>1, <1>2 DEF IInv, LiveInv, Fields, Keys, Vals, Live, Alloc
<1>4. ShapeInv'
  BY <1>1, <1>2 DEF IInv, ShapeInv, OfKind, Live, Alloc
<1>5. MtSet' \subseteq Live
  BY DEF IInv, LiveInv, Roots, MtSet
<1> QED BY <1>3, <1>4, <1>5, QuietStep

\* An entry set to nil takes references away.
LEMMA ClearEntryStep ==
    ASSUME IInv, NEW t \in Obj, NEW e \in entries[t], ClearEntry(t, e)
    PROVE  ShapeInv' /\ SweepInv' /\ MarkInv' /\ LiveInv'
<1>1. /\ entries' = [entries EXCEPT ![t] = @ \ {e}]
      /\ UNCHANGED <<kind, refs, mode, mt, color, finalized, lists, program>>
      /\ Live' = Live
  BY DEF ClearEntry, Live, Alloc, otherwhite
<1>2. \A x \in Obj : entries'[x] \subseteq entries[x]
  BY <1>1 DEF IInv, TypeOK
<1>3. \A x \in Live : Fields(x)' \subseteq Fields(x)
  BY <1>1, <1>2 DEF Fields, Keys, Vals, Live, Alloc
<1>4. ShapeInv'
  BY <1>1, <1>2 DEF IInv, ShapeInv, OfKind
<1>5. MtSet' \subseteq Live
  BY <1>1 DEF IInv, LiveInv, Roots, MtSet
<1> QED BY <1>1, <1>3, <1>4, <1>5, QuietStep

\* G(L)->mt is a root: what is put there was held.
LEMMA BasicMetatableStep ==
    ASSUME IInv, NEW m, SetBasicMetatable(m)
    PROVE  ShapeInv' /\ SweepInv' /\ MarkInv' /\ LiveInv'
<1>1. /\ mt' = m /\ (m = None \/ m \in Held)
      /\ UNCHANGED <<kind, refs, entries, mode, color, finalized, lists, program>>
      /\ Live' = Live
  BY DEF SetBasicMetatable, Live, Alloc, otherwhite
<1>2. MtSet' \subseteq Live
  BY <1>1, HeldLive DEF IInv, MtSet
<1>3. \A x \in Live : Fields(x)' \subseteq Fields(x)
  BY <1>1 DEF Fields, Keys, Vals
<1>4. ShapeInv'
  BY <1>1 DEF IInv, ShapeInv, OfKind
<1> QED BY <1>1, <1>2, <1>3, <1>4, QuietStep

\* A new object is born in the current white, and nothing black refers to it.
LEMMA NewObjectStep ==
    ASSUME IInv, NEW o \in Obj, NEW k \in Kinds[o], NewObject(k, o)
    PROVE  ShapeInv' /\ SweepInv' /\ MarkInv' /\ LiveInv'
<1>1. /\ kind[o] = "free"
      /\ kind' = [kind EXCEPT ![o] = k]
      /\ color' = [color EXCEPT ![o] = currentwhite]
      /\ refs' = [refs EXCEPT ![M] = @ \cup {o}]
      /\ UNCHANGED <<entries, mode, mt, finalized, lists, program>>
      /\ otherwhite' = otherwhite
  BY DEF NewObject, otherwhite
<1>2. k \in AllKinds /\ k # "free" /\ M \in Obj /\ R \in Obj
  BY GCAssumption DEF AllKinds
<1>3. currentwhite # otherwhite /\ currentwhite \in Whites
  BY WhiteType DEF IInv
<1>4. /\ refs[o] = {} /\ entries[o] = {} /\ mode[o] = "strong" /\ o # M /\ o # R
      /\ o \notin Alloc /\ o \notin tmudata /\ kind[M] = "thread" /\ kind[R] = "table"
  BY <1>1 DEF IInv, ShapeInv, Alloc, OfKind
<1>5. \A x \in Obj : /\ kind'[x] = (IF x = o THEN k ELSE kind[x])
                     /\ color'[x] = (IF x = o THEN currentwhite ELSE color[x])
                     /\ refs'[x] = (IF x = M THEN refs[x] \cup {o} ELSE refs[x])
  BY <1>1, <1>2 DEF IInv, TypeOK
<1>6. Alloc' = Alloc \cup {o} /\ Live' = Live \cup {o} /\ Live \subseteq Obj
  BY <1>1, <1>2, <1>3, <1>5 DEF Live, Alloc
<1>7. \A x \in Obj : Fields(x)' = Fields(x) \cup (IF x = M THEN {o} ELSE {})
  BY <1>1, <1>5 DEF Fields, Keys, Vals
<1>8. Fields(o) = {}
  BY <1>1, NoEntries DEF IInv
<1>9. LiveInv'
  BY <1>1, <1>6, <1>7, <1>8 DEF IInv, LiveInv, Roots, MtSet
<1>10. SweepInv'
  <2>1. \A x \in Alloc : color'[x] = color[x]
    BY <1>4, <1>5 DEF Alloc
  <2>2. color'[o] = currentwhite
    BY <1>5
  <2> QED BY <1>1, <1>3, <1>4, <1>6, <2>1, <2>2 DEF IInv, SweepInv
<1>11. ShapeInv'
  <2>1. ASSUME NEW u \in Live', kind'[u] = "udata", NEW r \in refs'[u] PROVE kind'[r] = "table"
    <3>1. u \in Live /\ kind[u] = "udata" /\ r \in refs[u]
      BY <1>4, <1>5, <1>6, <2>1
    <3>2. r \in Live /\ kind[r] = "table"
      BY <3>1 DEF IInv, ShapeInv, LiveInv, Fields
    <3> QED BY <1>1, <1>5, <1>6, <3>2
  <2>2. \A x \in Obj : /\ color'[x] = "gray" => color[x] = "gray" /\ x # o
                       /\ color'[x] = "black" => color[x] = "black" /\ x # o
    BY <1>3, <1>5 DEF Whites
  <2>3. /\ \A x \in Obj : kind'[x] \in {"free", "string"} => refs'[x] = {}
        /\ \A x \in Obj : kind'[x] # "table" => entries'[x] = {} /\ mode'[x] = "strong"
    BY <1>1, <1>2, <1>4, <1>5 DEF IInv, ShapeInv
  <2>4. finalized' \subseteq OfKind({"udata"})' /\ tmudata' \subseteq OfKind({"udata"})'
    BY <1>1, <1>4, <1>5 DEF IInv, ShapeInv, OfKind
  <2>5. kind'[M] = "thread" /\ kind'[R] = "table"
    BY <1>2, <1>4, <1>5
  <2>6. \A x \in Obj : /\ kind'[x] = "udata" => color'[x] # "gray"
                       /\ kind'[x] = "thread" => color'[x] # "black"
    BY <1>5, <2>2 DEF IInv, ShapeInv
  <2> QED BY <2>1, <2>3, <2>4, <2>5, <2>6 DEF ShapeInv
<1>12. MarkInv'
  <2>1. SUFFICES ASSUME gcstate = "propagate" PROVE MarkInv'
    BY <1>1 DEF MarkInv
  <2>2. Live = Alloc
    BY <2>1, AllLive DEF IInv
  <2>3. ASSUME NEW x \in Alloc' \ tmudata, color'[x] = "black", NEW r \in Fields(x)'
        PROVE  color'[r] \notin Whites
    <3>1. x \in Alloc /\ x \in Obj /\ color[x] = "black"
      BY <1>3, <1>5, <1>6, <2>2, <2>3 DEF Whites
    <3>2. x # M /\ r \in Fields(x)
      BY <1>4, <1>7, <2>3, <3>1 DEF IInv, ShapeInv
    <3>3. r \in Live /\ color[r] \notin Whites
      BY <1>1, <2>1, <2>2, <2>3, <3>1, <3>2 DEF IInv, MarkInv, LiveInv, isblack, iswhite
    <3> QED BY <1>4, <1>5, <1>6, <2>2, <3>3
  <2>4. ASSUME NEW x \in Alloc', color'[x] = "gray", kind'[x] # "string" PROVE x \in Pending'
    <3>1. x \in Alloc /\ color[x] = "gray" /\ kind[x] # "string"
      BY <1>3, <1>5, <1>6, <2>2, <2>4 DEF Whites
    <3> QED BY <1>1, <2>1, <3>1 DEF IInv, MarkInv, Pending
  <2> QED BY <1>1, <1>2, <1>4, <1>5, <2>1, <2>3, <2>4 DEF IInv, MarkInv, iswhite, isblack
<1> QED BY <1>9, <1>10, <1>11, <1>12

\* A string brought back by luaS_newlstr refers to nothing.
LEMMA InternStringStep ==
    ASSUME IInv, NEW s \in Obj, InternString(s)
    PROVE  ShapeInv' /\ SweepInv' /\ MarkInv' /\ LiveInv'
<1>1. /\ kind[s] = "string"
      /\ refs' = [refs EXCEPT ![M] = @ \cup {s}]
      /\ UNCHANGED <<kind, entries, mode, mt, finalized, lists, program>>
      /\ otherwhite' = otherwhite /\ Alloc' = Alloc
  BY DEF InternString, otherwhite, Alloc
<1>2. currentwhite # otherwhite /\ currentwhite \in Whites /\ M \in Obj
  BY WhiteType, GCAssumption DEF IInv
<1>3. \A x \in Obj : /\ color'[x] = IF x = s /\ isdead(s) THEN currentwhite ELSE color[x]
                     /\ refs'[x] = (IF x = M THEN refs[x] \cup {s} ELSE refs[x])
  BY <1>1, <1>2 DEF InternString, IInv, TypeOK
<1>4. Live' = Live \cup {s} /\ Live \subseteq Obj
  BY <1>1, <1>2, <1>3 DEF Live, Alloc, isdead
<1>5. \A x \in Obj : Fields(x)' = Fields(x) \cup (IF x = M THEN {s} ELSE {})
  BY <1>1, <1>3 DEF Fields, Keys, Vals
<1>6. Fields(s) = {} /\ kind[M] = "thread"
  BY <1>1, NoEntries DEF IInv, ShapeInv
<1>7. LiveInv'
  BY <1>1, <1>4, <1>5, <1>6 DEF IInv, LiveInv, Roots, MtSet
<1>8. SweepInv'
  <2>1. \A x \in Alloc : /\ color'[x] = otherwhite => color[x] = otherwhite
                         /\ color[x] = currentwhite => color'[x] = currentwhite
    BY <1>2, <1>3 DEF Alloc
  <2> QED BY <1>1, <2>1 DEF IInv, SweepInv
<1>9. ShapeInv'
  <2>1. \A u \in Live' : kind[u] = "udata" => u \in Live /\ refs'[u] = refs[u]
    BY <1>1, <1>3, <1>4, <1>6
  <2>2. \A x \in Obj : /\ color'[x] = "gray" => color[x] = "gray"
                       /\ color'[x] = "black" => color[x] = "black"
    BY <1>2, <1>3 DEF Whites
  <2>3. \A x \in Obj : kind[x] \in {"free", "string"} => refs'[x] = {}
    BY <1>3, <1>6 DEF IInv, ShapeInv
  <2> QED BY <1>1, <2>1, <2>2, <2>3 DEF IInv, ShapeInv, OfKind
<1>10. MarkInv'
  <2>1. SUFFICES ASSUME gcstate = "propagate" PROVE MarkInv'
    BY <1>1 DEF MarkInv
  <2>2. Live = Alloc /\ \A x \in Obj : color'[x] = color[x]
    BY <1>1, <1>3, <2>1, AllLive DEF IInv, Live, Alloc, isdead
  <2>3. \A x \in Alloc : isblack(x) => Fields(x)' = Fields(x) /\ Fields(x) \subseteq Obj
    BY <1>5, <1>6, FieldsType DEF isblack, IInv, ShapeInv, Alloc
  <2> QED BY <1>1, <1>2, <2>1, <2>2, <2>3, GCAssumption
          DEF IInv, MarkInv, iswhite, isblack, Pending, Alloc
<1> QED BY <1>7, <1>8, <1>9, <1>10

\* luaC_barrierback: the black table that took a white value is gray again,
\* and will be traversed again in atomic.
LEMMA BackStep ==
    ASSUME IInv, NEW t \in Live, kind[t] = "table", NEW S \in SUBSET Live,
           barrierback(t, S), UNCHANGED <<kind, mt, finalized, program>>,
           \A x \in Obj \ {t} : refs'[x] = refs[x] /\ entries'[x] = entries[x] /\ mode'[x] = mode[x],
           Fields(t)' \subseteq Fields(t) \cup S
    PROVE  ShapeInv' /\ SweepInv' /\ MarkInv' /\ LiveInv'
<1>0. t \in Obj /\ Live \subseteq Obj /\ otherwhite' = otherwhite /\ Alloc' = Alloc
  BY DEF Live, Alloc, otherwhite
<1>1. /\ \A x \in Obj \ {t} : color'[x] = color[x]
      /\ color'[t] = color[t] \/ (color[t] = "black" /\ color'[t] = "gray" /\ t \in grayagain')
      /\ color'[t] = "black" => \A v \in S : ~iswhite(v)
      /\ gray' = gray /\ weak' = weak /\ grayagain \subseteq grayagain'
  BY <1>0 DEF barrierback, isblack, IInv, TypeOK
<1>2. otherwhite \in Whites /\ currentwhite \in Whites
  BY WhiteType DEF IInv
<1>3. \A x \in Obj : \A w \in Whites : color'[x] = w <=> color[x] = w
  BY <1>1 DEF Whites
<1>4. Live' = Live
  BY <1>0, <1>2, <1>3 DEF Live, Alloc
<1>5. \A x \in Obj \ {t} : Fields(x)' = Fields(x)
  BY DEF Fields, Keys, Vals
<1>6. LiveInv'
  BY <1>0, <1>4, <1>5 DEF IInv, LiveInv, Roots, MtSet
<1>7. SweepInv'
  <2>1. \A x \in Alloc : color'[x] = currentwhite <=> color[x] = currentwhite
    BY <1>2, <1>3 DEF Alloc
  <2>2. \A x \in Alloc : color'[x] = otherwhite <=> color[x] = otherwhite
    BY <1>2, <1>3 DEF Alloc
  <2> QED BY <1>0, <2>1, <2>2 DEF IInv, SweepInv
<1>8. ShapeInv'
  <2>1. \A u \in Live' : kind[u] = "udata" => u \in Live /\ u \in Obj \ {t}
    BY <1>0, <1>4
  <2> QED BY <1>0, <1>1, <2>1 DEF IInv, ShapeInv, OfKind
<1>9. MarkInv'
  <2>1. SUFFICES ASSUME gcstate = "propagate" PROVE MarkInv'
    BY DEF MarkInv
  <2>2. \A x \in Obj : iswhite(x)' <=> iswhite(x)
    BY <1>3 DEF iswhite
  <2>3. ASSUME NEW x \in Alloc \ tmudata, isblack(x)', NEW r \in Fields(x)' PROVE ~iswhite(r)'
    <3>1. x \in Obj /\ isblack(x) /\ \A q \in Fields(x) : ~iswhite(q)
      BY <1>1, <2>1, <2>3 DEF isblack, Alloc, IInv, MarkInv
    <3>2. r \in Fields(x) \/ (x = t /\ r \in S)
      BY <1>5, <2>3, <3>1
    <3>3. ~iswhite(r) /\ r \in Obj
      BY <1>0, <1>1, <2>3, <3>1, <3>2, FieldsType DEF isblack, IInv
    <3> QED BY <2>2, <3>3
  <2>4. ASSUME NEW x \in Alloc, color'[x] = "gray", kind[x] # "string" PROVE x \in Pending'
    <3>1. CASE color[x] = "gray"
      BY <1>1, <2>1, <2>4, <3>1 DEF IInv, MarkInv, Pending
    <3>2. CASE color[x] # "gray"
      BY <1>1, <2>4, <3>2 DEF Pending, Alloc
    <3> QED BY <3>1, <3>2
  <2>5. ~iswhite(M)' /\ ~iswhite(R)'
    BY <2>1, <2>2, GCAssumption DEF IInv, MarkInv
  <2> QED BY <1>0, <2>1, <2>3, <2>4, <2>5 DEF MarkInv
<1> QED BY <1>6, <1>7, <1>8, <1>9

\* luaC_barrierf: while marking, the value that a black object took is
\* marked; later, the object is whitened instead.
LEMMA ForwardStep ==
    ASSUME IInv, NEW o \in Live, kind[o] \in {"udata", "closure"}, NEW v \in Live,
           kind[o] = "udata" => kind[v] = "table",
           barrierf(o, v), UNCHANGED <<kind, entries, mode, mt, finalized, program>>,
           NEW N \in SUBSET (refs[o] \cup {v}), refs' = [refs EXCEPT ![o] = N]
    PROVE  ShapeInv' /\ SweepInv' /\ MarkInv' /\ LiveInv'
<1> DEFINE T == MarkClosure(color, {v})
<1>0. /\ o \in Obj /\ v \in Obj /\ Live \subseteq Obj /\ o # M /\ o # R
      /\ otherwhite' = otherwhite /\ Alloc' = Alloc
      /\ color \in [Obj -> Colors]
  BY DEF Live, Alloc, otherwhite, IInv, ShapeInv, TypeOK
<1>1. currentwhite # otherwhite /\ otherwhite \in Whites /\ currentwhite \in Whites
  BY WhiteType DEF IInv
<1>2. \A x \in Obj : refs'[x] = IF x = o THEN N ELSE refs[x]
  BY <1>0 DEF IInv, TypeOK
<1>3. /\ \A x \in Obj \ {o} : Fields(x)' = Fields(x)
      /\ Fields(o)' \subseteq Fields(o) \cup {v}
  BY <1>0, <1>2 DEF Fields, Keys, Vals
<1>4. CASE isblack(o) /\ iswhite(v) /\ gcstate = "propagate"
  <2> DEFINE d == color'
  <2>1. color' = Marked(color, T) /\ gray' = gray \cup Listed(T) /\ UNCHANGED <<grayagain, weak>>
    BY <1>4 DEF barrierf
  <2>2. /\ T \subseteq Live
        /\ \A x \in T : color[x] \in Whites /\ d[x] \notin Whites
        /\ \A x \in Obj \ T : d[x] = color[x]
        /\ d[v] \notin Whites
        /\ \A x \in T : d[x] = "gray" => kind[x] # "udata"
        /\ \A x \in T : d[x] = "gray" /\ kind[x] # "string" => x \in Listed(T)
        /\ \A x \in T : d[x] = "black" => kind[x] = "udata" /\ \A r \in Fields(x) : d[r] \notin Whites
    <3>1. {v} \in SUBSET Live /\ v \in {v}
      OBVIOUS
    <3>2. TypeOK /\ ShapeInv /\ LiveInv
      BY DEF IInv
    <3>3. T = MarkClosure(color, {v}) /\ d = Marked(color, T)
      BY <2>1
    <3> HIDE DEF T, d
    <3>4. \A x \in {v} : d[x] \notin Whites
      BY <1>0, <3>1, <3>2, <3>3, MarkFacts
    <3>5. /\ T \subseteq Live
          /\ \A x \in T : color[x] \in Whites /\ d[x] \notin Whites
          /\ \A x \in Obj \ T : d[x] = color[x]
      BY <1>0, <3>1, <3>2, <3>3, MarkFacts
    <3>6. \A x \in T : /\ d[x] = "gray" => kind[x] # "udata"
                       /\ d[x] = "gray" /\ kind[x] # "string" => x \in Listed(T)
      BY <1>0, <3>1, <3>2, <3>3, MarkFacts
    <3>7. \A x \in T : d[x] = "black" => kind[x] = "udata" /\ \A r \in Fields(x) : d[r] \notin Whites
      BY <1>0, <3>1, <3>2, <3>3, MarkFacts
    <3> QED BY <3>4, <3>5, <3>6, <3>7
  <2> HIDE DEF T
  <2>3. Live = Alloc /\ unswept = {}
    BY <1>4, AllLive DEF IInv
  <2>4. \A x \in Alloc : color'[x] # otherwhite
    BY <1>0, <1>1, <2>2, <2>3 DEF Live
  <2>5. Live' = Live
    BY <1>0, <2>3, <2>4 DEF Live
  <2>6. o \notin T
    BY <1>4, <2>2 DEF isblack, Whites
  <2>7. LiveInv'
    BY <1>0, <1>3, <2>5 DEF IInv, LiveInv, Roots, MtSet
  <2>8. SweepInv'
    BY <1>0, <1>4, <2>3, <2>4 DEF IInv, SweepInv
  <2>9. ShapeInv'
    <3>1. \A x \in Obj : /\ kind[x] = "udata" => color'[x] # "gray"
                         /\ kind[x] = "thread" => color'[x] # "black"
      BY <2>2 DEF IInv, ShapeInv
    <3>2. \A u \in Live' : kind[u] = "udata" => \A r \in refs'[u] : kind[r] = "table"
      BY <1>0, <1>2, <2>5 DEF IInv, ShapeInv
    <3>3. \A x \in Obj : kind[x] \in {"free", "string"} => refs'[x] = {}
      BY <1>2 DEF IInv, ShapeInv
    <3> QED BY <1>0, <3>1, <3>2, <3>3 DEF IInv, ShapeInv, OfKind
  <2>10. MarkInv'
    <3>1. \A x \in Obj : ~iswhite(x) => ~iswhite(x)'
      BY <2>2 DEF iswhite
    <3>2. ASSUME NEW x \in Alloc \ tmudata, isblack(x)', NEW r \in Fields(x)' PROVE ~iswhite(r)'
      <4>0. x \in Obj /\ (r \in Fields(x) \/ (x = o /\ r = v))
        BY <1>3, <3>2 DEF Alloc
      <4>1. CASE r \notin Fields(x)
        BY <2>2, <4>0, <4>1 DEF iswhite
      <4>2. CASE x \in T /\ r \in Fields(x)
        BY <2>2, <3>2, <4>2 DEF iswhite, isblack
      <4>3. CASE x \notin T /\ r \in Fields(x)
        <5>1. ~iswhite(r)
          BY <1>4, <2>2, <3>2, <4>0, <4>3 DEF isblack, IInv, MarkInv
        <5> QED BY <3>1, <4>0, <4>3, <5>1, FieldsType DEF IInv
      <4> QED BY <4>1, <4>2, <4>3
    <3>3. ASSUME NEW x \in Alloc, color'[x] = "gray", kind[x] # "string" PROVE x \in Pending'
      <4>1. CASE x \in T
        BY <2>1, <2>2, <3>3, <4>1 DEF Pending
      <4>2. CASE x \notin T
        BY <1>4, <2>1, <2>2, <3>3, <4>2 DEF Pending, Alloc, IInv, MarkInv
      <4> QED BY <4>1, <4>2
    <3>4. ~iswhite(M)' /\ ~iswhite(R)'
      BY <1>4, <3>1, GCAssumption DEF IInv, MarkInv
    <3> QED BY <1>0, <3>2, <3>3, <3>4 DEF MarkInv
  <2> QED BY <2>7, <2>8, <2>9, <2>10
<1>5. CASE ~(isblack(o) /\ iswhite(v) /\ gcstate = "propagate")
  <2>1. /\ \A x \in Obj \ {o} : color'[x] = color[x]
        /\ \/ color'[o] = color[o]
           \/ gcstate # "propagate" /\ color[o] = "black" /\ color'[o] = currentwhite
        /\ gcstate = "propagate" /\ isblack(o) => ~iswhite(v)
        /\ UNCHANGED lists
    BY <1>0, <1>5 DEF barrierf, isblack
  <2>2. \A x \in Obj : /\ color'[x] = otherwhite <=> color[x] = otherwhite
                       /\ color[x] = currentwhite => color'[x] = currentwhite
                       /\ color'[x] \in {"gray", "black"} => color'[x] = color[x]
                       /\ gcstate = "propagate" => color'[x] = color[x]
    BY <1>1, <2>1 DEF Whites
  <2>3. Live' = Live
    BY <1>0, <2>2 DEF Live, Alloc
  <2>4. LiveInv'
    BY <1>0, <1>3, <2>3 DEF IInv, LiveInv, Roots, MtSet
  <2>5. SweepInv'
    BY <1>0, <2>2 DEF IInv, SweepInv, Alloc
  <2>6. ShapeInv'
    <3>1. \A x \in Obj : /\ kind[x] = "udata" => color'[x] # "gray"
                         /\ kind[x] = "thread" => color'[x] # "black"
      BY <2>2 DEF IInv, ShapeInv
    <3>2. \A u \in Live' : kind[u] = "udata" => \A r \in refs'[u] : kind[r] = "table"
      BY <1>0, <1>2, <2>3 DEF IInv, ShapeInv
    <3>3. \A x \in Obj : kind[x] \in {"free", "string"} => refs'[x] = {}
      BY <1>2 DEF IInv, ShapeInv
    <3> QED BY <1>0, <3>1, <3>2, <3>3 DEF IInv, ShapeInv, OfKind
  <2>7. MarkInv'
    <3>1. SUFFICES ASSUME gcstate = "propagate" PROVE MarkInv'
      BY DEF MarkInv
    <3>2. \A x \in Obj : color'[x] = color[x]
      BY <2>2, <3>1
    <3>3. ASSUME NEW x \in Alloc \ tmudata, isblack(x), NEW r \in Fields(x)' PROVE r \in Obj /\ ~iswhite(r)
      BY <1>0, <1>3, <2>1, <3>1, <3>3, FieldsType DEF IInv, MarkInv, Alloc
    <3> QED BY <1>0, <2>1, <3>1, <3>2, <3>3, GCAssumption
            DEF IInv, MarkInv, Pending, iswhite, isblack, Alloc
  <2> QED BY <2>4, <2>5, <2>6, <2>7
<1> QED BY <1>4, <1>5

\* The program preserves the invariant.
LEMMA MutatorInv == ASSUME IInv, Mutator PROVE IInv'
<1>0. TypeOK'
  BY TypeMutator DEF IInv
<1>h. Held \subseteq Live /\ Live \subseteq Obj /\ M \in Live /\ kind[M] = "thread"
  BY HeldLive DEF IInv, ShapeInv, LiveInv, Roots
<1>f. \A o \in Held : Fields(o) \subseteq Live
  BY <1>h DEF IInv, LiveInv
<1> DEFINE Rest == ShapeInv' /\ SweepInv' /\ MarkInv' /\ LiveInv'
<1>1. ASSUME NEW o \in Obj, NEW k \in Kinds[o], NewObject(k, o) PROVE Rest
  BY <1>1, NewObjectStep
<1>2. ASSUME NEW o \in Obj, InternString(o) PROVE Rest
  BY <1>2, InternStringStep
<1>3. ASSUME NEW o \in Obj, Pop(o) PROVE Rest
  <2>1. o \in Live
    BY <1>3, <1>h DEF Pop, IInv, LiveInv, Fields
  <2> QED BY <1>3, <1>h, <2>1, StackStep DEF Pop
<1>4. ASSUME NEW o \in Obj, NEW v \in Obj, Load(o, v) PROVE Rest
  <2>1. v \in Live
    BY <1>4, <1>f DEF Load
  <2> QED BY <1>4, <1>h, <2>1, StackStep DEF Load
<1>5. ASSUME NEW o \in Obj, NEW v \in Obj, XMove(o, v) PROVE Rest
  <2>1. o \in Live /\ v \in Live
    BY <1>5, <1>h, <1>f DEF XMove, Fields
  <2> QED BY <1>5, <2>1, StackStep DEF XMove
<1>6. ASSUME NEW o \in Obj, NEW k \in KeySet, NEW v \in Value, SetTable(o, k, v) PROVE Rest
  <2> DEFINE S == {k, v} \ {Data}
             other == {e \in entries[o] : e[1] # k}
  <2>1. /\ o \in Live /\ kind[o] = "table" /\ S \in SUBSET Live
        /\ barrierback(o, S)
        /\ UNCHANGED <<kind, refs, mode, mt, finalized, program>>
        /\ entries' = [entries EXCEPT ![o] = other \cup {<<k, v>>}]
    BY <1>6, <1>h DEF SetTable
  <2>2. \A x \in Obj \ {o} : entries'[x] = entries[x]
    BY <2>1 DEF IInv, TypeOK
  <2>3. Fields(o)' \subseteq Fields(o) \cup S
    <3>1. entries'[o] = other \cup {<<k, v>>} /\ refs'[o] = refs[o]
      BY <2>1 DEF IInv, TypeOK
    <3>2. \A e \in entries'[o] : e \in entries[o] \/ (e[1] = k /\ e[2] = v)
      BY <3>1
    <3> QED BY <3>1, <3>2 DEF Fields, Keys, Vals
  <2> HIDE DEF S, other
  <2> QED BY <2>1, <2>2, <2>3, BackStep
<1>7. ASSUME NEW o \in Obj, NEW e \in entries[o], ClearEntry(o, e) PROVE Rest
  BY <1>7, ClearEntryStep
<1>8. ASSUME NEW o \in Obj, NEW m \in Metatables["table"], NEW md \in ModeSet,
             SetMetatable(o, m, md)
      PROVE  Rest
  <2>1. /\ o \in Live /\ kind[o] = "table" /\ {m} \in SUBSET Live
        /\ barrierback(o, {m})
        /\ UNCHANGED <<kind, entries, mt, finalized, program>>
    BY <1>8, <1>h DEF SetMetatable
  <2>2. \A x \in Obj \ {o} : refs'[x] = refs[x] /\ mode'[x] = mode[x]
    BY <1>8 DEF IInv, TypeOK, SetMetatable
  <2>3. refs'[o] = {m} /\ entries'[o] = entries[o]
    BY <1>8 DEF IInv, TypeOK, SetMetatable
  <2>4. Fields(o)' \subseteq Fields(o) \cup {m}
    BY <2>3 DEF Fields, Keys, Vals
  <2> QED BY <2>1, <2>2, <2>4, BackStep
<1>9. ASSUME NEW o \in Obj, NEW m \in Metatables["udata"], NEW gc \in BOOLEAN,
             SetUserMetatable(o, m, gc)
      PROVE  Rest
  <2>1. /\ o \in Live /\ kind[o] = "udata" /\ m \in Live /\ kind[m] = "table"
        /\ barrierf(o, m) /\ refs' = [refs EXCEPT ![o] = {m}]
        /\ UNCHANGED <<kind, entries, mode, mt, finalized, program>>
    BY <1>9, <1>h DEF SetUserMetatable
  <2>2. {m} \in SUBSET (refs[o] \cup {m})
    OBVIOUS
  <2> QED BY <2>1, <2>2, ForwardStep
<1>10. ASSUME NEW o \in Obj, NEW x \in SUBSET refs[o], NEW v \in Obj, SetUpvalue(o, x, v)
       PROVE  Rest
  <2>1. /\ o \in Live /\ kind[o] = "closure" /\ v \in Live
        /\ barrierf(o, v) /\ refs' = [refs EXCEPT ![o] = (refs[o] \ x) \cup {v}]
        /\ UNCHANGED <<kind, entries, mode, mt, finalized, program>>
    BY <1>10, <1>h DEF SetUpvalue
  <2>2. (refs[o] \ x) \cup {v} \in SUBSET (refs[o] \cup {v})
    OBVIOUS
  <2> QED BY <2>1, <2>2, ForwardStep
<1>11. ASSUME NEW m \in Metatables["basic"] \cup {None}, SetBasicMetatable(m) PROVE Rest
  BY <1>11, BasicMetatableStep
<1> HIDE DEF Rest
<1>12. Rest
  BY <1>1, <1>2, <1>3, <1>4, <1>5, <1>6, <1>7, <1>8, <1>9, <1>10, <1>11 DEF Mutator
<1> QED BY <1>0, <1>12 DEF Rest, IInv

----------------------------------------------------------------------------
(* The theorems.                                                           *)

\* Before the first collection the two roots are live and refer to nothing.
LEMMA InvInit == Init => IInv
<1>1. SUFFICES ASSUME Init PROVE IInv
  OBVIOUS
<1>2. TypeOK
  BY <1>1, TypeInit
<1>3. /\ kind[M] = "thread" /\ kind[R] = "table"
      /\ \A o \in Obj \ {M, R} : kind[o] = "free"
      /\ \A o \in Obj : refs[o] = {} /\ entries[o] = {} /\ mode[o] = "strong" /\ color[o] = "white0"
  BY <1>1, GCAssumption DEF Init
<1>4. /\ mt = None /\ finalized = {} /\ tmudata = {} /\ unswept = {}
      /\ gcstate = "pause" /\ currentwhite = "white0"
  BY <1>1 DEF Init
<1>5. Alloc = {M, R} /\ Live = {M, R}
  BY <1>3, <1>4, GCAssumption DEF Alloc, Live, otherwhite
<1>6. \A o \in Obj : Fields(o) = {}
  BY <1>3 DEF Fields, Keys, Vals
<1>7. ShapeInv
  <2>1. \A o \in Obj : kind[o] # "udata" /\ color[o] # "black"
    BY <1>3
  <2>2. \A u \in Live : kind[u] # "udata"
    BY <1>3, <1>5
  <2> QED BY <1>3, <1>4, <2>1, <2>2 DEF ShapeInv
<1>8. SweepInv
  BY <1>3, <1>4, <1>5, GCAssumption DEF SweepInv, otherwhite
<1>9. MarkInv
  BY <1>4 DEF MarkInv
<1>10. LiveInv
  BY <1>4, <1>5, <1>6, GCAssumption DEF LiveInv, Roots, MtSet
<1> QED BY <1>2, <1>7, <1>8, <1>9, <1>10 DEF IInv

\* Every step preserves the invariant.
LEMMA InvNext == ASSUME IInv, [Next]_vars PROVE IInv'
<1>1. CASE UNCHANGED vars
  BY <1>1 DEF IInv, TypeOK, ShapeInv, SweepInv, MarkInv, LiveInv, Live, Alloc, OfKind,
              otherwhite, iswhite, isblack, Pending, Fields, Keys, Vals, Roots, MtSet
<1>2. CASE FullGC
  BY <1>2, TypeFullGC, FullGCStep DEF IInv
<1> QED BY <1>1, <1>2, GCStepInv, MutatorInv DEF Next

\* The invariant of the collector: live objects, those the sweep under way
\* will not free, hold the roots and everything live objects refer to; marks
\* exist only where the phase allows them.
THEOREM Invariance == Spec => []IInv
BY InvInit, InvNext, PTL DEF Spec

\* No value the program can reach was freed or is about to be: for every
\* heap, and every interleaving of the program with the collector.
THEOREM NoDanglingThm == Spec => []NoDangling
<1>1. ASSUME IInv PROVE NoDangling
  <2> DEFINE F == [o \in Obj |-> Fields(o)]
  <2>1. Live \in SUBSET Obj /\ Roots \subseteq Live
    BY <1>1 DEF Live, Alloc, IInv, LiveInv
  <2>2. \A x \in Live : F[x] \subseteq Live
    BY <1>1, <2>1 DEF IInv, LiveInv
  <2>3. Accessible = Grow(Roots, F)
    BY DEF Accessible
  <2> HIDE DEF F
  <2>4. Accessible \subseteq Live
    BY <2>1, <2>2, <2>3, GrowLeast
  <2> QED BY <2>4 DEF NoDangling, Live, Alloc, isdead
<1> QED BY <1>1, Invariance, PTL

\* While marking, no write of the program leaves an unmarked object behind a
\* traversed one.
THEOREM TriColorThm == Spec => []TriColor
<1>1. IInv => TriColor
  BY DEF IInv, MarkInv, TriColor
<1> QED BY <1>1, Invariance, PTL

\* Between two cycles no object carries a mark of the first.
THEOREM CleanPauseThm == Spec => []CleanPause
<1>1. IInv => CleanPause
  BY DEF IInv, SweepInv, CleanPause
<1> QED BY <1>1, Invariance, PTL

\* Only atomic starts a sweep, and only it hands userdata to their finalizers.
LEMMA OnlyAtomic ==
    ASSUME IInv, Next, ~atomic
    PROVE  /\ tmudata' \subseteq tmudata
           /\ ~(gcstate = "propagate" /\ gcstate' = "sweepstring")
<1>1. CASE GCStep
  BY <1>1 DEF GCStep, StartCycle, markroot, EndSweepString, EndSweep, EndCycle,
              propagatemark, sweepstring, sweep, GCTM
<1>2. CASE FullGC
  BY <1>2 DEF FullGC, markroot
<1>3. CASE Mutator
  <2>1. UNCHANGED program
    BY <1>3 DEF Mutator, NewObject, InternString, Pop, Load, XMove, SetTable, ClearEntry,
                SetMetatable, SetUserMetatable, SetUpvalue, SetBasicMetatable
  <2> QED BY <2>1
<1> QED BY <1>1, <1>2, <1>3 DEF Next

\* What is marked before the userdata are separated holds all that the program
\* can reach without passing through a userdata that waits for its finalizer:
\* nothing of it is handed to a finalizer.
THEOREM FinalizeOnlyGarbageThm == Spec => FinalizeOnlyGarbage
<1>1. ASSUME IInv, [Next]_vars
      PROVE  [\A u \in tmudata' \ tmudata : u \notin SafelyReachable]_vars
  <2>1. CASE atomic
    <3> DEFINE F == [o \in Obj |-> IF o \in tmudata THEN {} ELSE Children(o)]
    <3>1. /\ Mark1 \subseteq Obj /\ Roots \subseteq Mark1
          /\ \A o \in Mark1 \ tmudata : Children(o) \subseteq Mark1
      BY <1>1, <2>1, AtomicMarks DEF atomic, Live, Alloc
    <3>2. \A x \in Mark1 : F[x] \subseteq Mark1
      BY <3>1
    <3>3. SafelyReachable = Grow(Roots, F)
      BY DEF SafelyReachable
    <3> HIDE DEF F
    <3>4. SafelyReachable \subseteq Mark1
      BY <3>1, <3>2, <3>3, GrowLeast
    <3>5. \A u \in tmudata' \ tmudata : u \notin Mark1
      BY <2>1 DEF atomic, ToFinalize, Separable
    <3> QED BY <3>4, <3>5
  <2>2. CASE Next /\ ~atomic
    BY <1>1, <2>2, OnlyAtomic
  <2> QED BY <1>1, <2>1, <2>2 DEF Next
<1> QED BY <1>1, Invariance, PTL DEF Spec, FinalizeOnlyGarbage

\* A weak table loses only entries whose key or value is garbage, or whose
\* value is a userdata that is finalized.
THEOREM WeakOnlyGarbageThm == Spec => WeakOnlyGarbage
<1> DEFINE Kept1 == \A t \in Obj : gcstate = "propagate" /\ gcstate' = "sweepstring" =>
                \A e \in entries[t] \ entries'[t] :
                    \/ e[1] \in Obj \ Reachable
                    \/ e[2] \in Obj \ Reachable
                    \/ e[2] \in OfKind({"udata"}) \cap finalized'
<1>1. ASSUME IInv, [Next]_vars PROVE [Kept1]_vars
  <2>1. CASE atomic
    <3> DEFINE F == [o \in Obj |-> Children(o)]
    <3>1. Mark2 \subseteq Obj /\ Roots \subseteq Mark2 /\ \A o \in Mark2 : Children(o) \subseteq Mark2
      BY <1>1, <2>1, AtomicMarks DEF atomic, Live, Alloc
    <3>2. \A x \in Mark2 : F[x] \subseteq Mark2
      BY <3>1
    <3>3. Reachable = Grow(Roots, F)
      BY DEF Reachable
    <3> HIDE DEF F
    <3>4. Reachable \subseteq Mark2
      BY <3>1, <3>2, <3>3, GrowLeast
    <3>5. ASSUME NEW t \in Obj, NEW e \in entries[t] \ entries'[t]
          PROVE  \/ e[1] \in Obj \ Reachable
                 \/ e[2] \in Obj \ Reachable
                 \/ e[2] \in OfKind({"udata"}) \cap finalized'
      <4>1. iscleared(e[1], TRUE) \/ iscleared(e[2], FALSE)
        BY <2>1, <3>5 DEF atomic, Kept
      <4>2. e[1] \in Value /\ e[2] \in Value
        BY <1>1, <3>5 DEF IInv, TypeOK
      <4>3. finalized' = finalized \cup Separable
        BY <2>1 DEF atomic
      <4> QED BY <3>4, <4>1, <4>2, <4>3 DEF iscleared, Value, OfKind
    <3> QED BY <3>5
  <2>2. CASE Next /\ ~atomic
    BY <1>1, <2>2, OnlyAtomic
  <2> QED BY <1>1, <2>1, <2>2 DEF Next
<1> QED BY <1>1, Invariance, PTL DEF Spec, WeakOnlyGarbage

\* No step can put a userdata in tmudata again once its finalizer was called.
LEMMA OnceNext == ASSUME IInv, OnceInv, [Next]_vars PROVE OnceInv'
<1> USE DEF OnceInv
<1>0. TypeOK
  BY DEF IInv
<1>f. ASSUME NEW D, D \cap tmudata = {}, Freed(D), UNCHANGED tmudata PROVE OnceInv'
  <2>1. finalized' = finalized \ D /\ \A o \in Obj : calls'[o] = IF o \in D THEN 0 ELSE calls[o]
    BY <1>f DEF Freed
  <2> QED BY <1>f, <2>1
<1>1. CASE UNCHANGED <<finalized, tmudata, calls>>
  BY <1>1
<1>2. CASE atomic
  <2>1. /\ tmudata' = tmudata \cup {u \in Separable : hasgc[u]}
        /\ finalized' = finalized \cup Separable /\ calls' = calls
    BY <1>2 DEF atomic, ToFinalize
  <2>2. Separable \cap finalized = {}
    BY DEF Separable
  <2> QED BY <2>1, <2>2
<1>3. ASSUME NEW o \in Obj, sweepstring(o) \/ sweep(o) PROVE OnceInv'
  <2>1. o \in unswept /\ Freed({x \in {o} : isdead(x)}) /\ UNCHANGED tmudata
    BY <1>3 DEF sweepstring, sweep, sweeplist
  <2>2. {x \in {o} : isdead(x)} \cap tmudata = {}
    BY <2>1 DEF IInv, SweepInv
  <2> QED BY <1>f, <2>1, <2>2
<1>4. ASSUME NEW u \in Obj, GCTM(u) PROVE OnceInv'
  <2>1. /\ u \in tmudata /\ tmudata' = tmudata \ {u} /\ finalized' = finalized
        /\ \A o \in Obj : calls'[o] = calls[o] \/ (o = u /\ calls'[o] = calls[o] + 1)
    BY <1>0, <1>4 DEF GCTM, TypeOK
  <2>2. calls[u] = 0 /\ u \in finalized
    BY <2>1
  <2> QED BY <2>1, <2>2
<1>5. CASE FullGC
  <2>1. \E D : Freed(D) /\ D \cap tmudata = {} /\ UNCHANGED tmudata
    <3> DEFINE S == IF gcstate \in {"pause", "propagate"} THEN Alloc \ tmudata ELSE unswept
    <3>1. Freed({o \in S : isdead(o)}) /\ UNCHANGED tmudata
      BY <1>5 DEF FullGC
    <3>2. {o \in S : isdead(o)} \cap tmudata = {}
      BY DEF IInv, SweepInv
    <3> QED BY <3>1, <3>2
  <2> QED BY <1>f, <2>1
<1>6. CASE StartCycle \/ EndSweepString \/ EndSweep \/ EndCycle \/ \E o \in Obj : propagatemark(o)
  BY <1>6, <1>1 DEF StartCycle, EndSweepString, EndSweep, EndCycle, propagatemark
<1>7. CASE Mutator
  BY <1>7, <1>1 DEF Mutator, NewObject, InternString, Pop, Load, XMove, SetTable, ClearEntry,
                    SetMetatable, SetUserMetatable, SetUpvalue, SetBasicMetatable
<1> QED BY <1>1, <1>2, <1>3, <1>4, <1>5, <1>6, <1>7 DEF Next, GCStep

\* No userdata is finalized twice.
THEOREM FinalizedOnceThm == Spec => []FinalizedOnce
<1>1. Init => OnceInv
  BY DEF Init, OnceInv
<1>2. OnceInv => FinalizedOnce
  BY DEF OnceInv, FinalizedOnce
<1> QED BY <1>1, <1>2, OnceNext, Invariance, PTL DEF Spec

\* What MarkClosure turns gray, and that can be in a list, is in Listed(T).
LEMMA ListedFacts ==
    ASSUME TypeOK, NEW c \in [Obj -> Colors], NEW S, NEW T, T = MarkClosure(c, S)
    PROVE  /\ Listed(T) \subseteq T \cap OfKind({"table", "closure", "thread"})
           /\ \A x \in OfKind({"table", "closure", "thread"}) :
                 Marked(c, T)[x] = "gray" <=> x \in Listed(T) \/ c[x] = "gray"
           /\ \A x \in T : c[x] \in Whites
<1>1. \A x \in T : c[x] \in Whites
  BY DEF MarkClosure
<1>2. \A x \in OfKind({"table", "closure", "thread"}) :
          Marked(c, T)[x] = "gray" <=> x \in Listed(T) \/ c[x] = "gray"
  BY <1>1 DEF Marked, Listed, OfKind, Whites
<1> QED BY <1>1, <1>2 DEF Listed

\* markroot starts with a single list, and no old mark is mistaken for a new.
LEMMA OneListRoot ==
    ASSUME IInv, NEW c \in [Obj -> Colors], markroot(c),
           OfKind({"table", "closure", "thread"})' \subseteq OfKind({"table", "closure", "thread"}),
           Live \cap OfKind({"table", "closure", "thread"}) \subseteq OfKind({"table", "closure", "thread"})',
           \A x \in OfKind({"table", "closure", "thread"})' : c[x] # "gray"
    PROVE  OneList'
<1> DEFINE L == OfKind({"table", "closure", "thread"})
           T == MarkClosure(c, Roots)
<1>1. color' = Marked(c, T) /\ gray' = Listed(T) /\ grayagain' = {} /\ weak' = {}
  BY DEF markroot
<1>2. T \subseteq Live
  BY HeldLive, MarkFacts DEF IInv, LiveInv
<1>3. gray' \subseteq T \cap L /\ \A x \in L : color'[x] = "gray" <=> x \in gray' \/ c[x] = "gray"
  BY <1>1, ListedFacts DEF IInv
<1>4. gray' = {x \in L' : color'[x] = "gray"}
  <2> HIDE DEF L, T
  <2>1. L' \subseteq L /\ Live \cap L \subseteq L' /\ \A x \in L' : c[x] # "gray"
    BY DEF L
  <2> QED BY <1>2, <1>3, <2>1
<1> QED BY <1>1, <1>4 DEF OneList

\* An object moves between the lists with its colour.
LEMMA OneListNext == ASSUME IInv, OneList, [Next]_vars PROVE OneList'
<1> DEFINE L == OfKind({"table", "closure", "thread"})
<1>0. TypeOK /\ color \in [Obj -> Colors] /\ currentwhite \notin {"gray", "black"}
  BY DEF IInv, TypeOK, Whites
<1>1. CASE UNCHANGED <<kind, color, lists, gcstate>>
  BY <1>1 DEF OneList, OfKind
<1>2. CASE gcstate' # "propagate"
  BY <1>2 DEF OneList
<1>3. CASE StartCycle
  <2>1. markroot(color) /\ L' = L /\ gcstate = "pause"
    BY <1>3 DEF StartCycle, OfKind
  <2>2. \A x \in L : x \in Alloc /\ x \notin tmudata
    BY DEF OfKind, Alloc, IInv, ShapeInv
  <2>3. \A x \in L : color[x] # "gray"
    BY <1>0, <2>1, <2>2 DEF IInv, SweepInv
  <2> QED BY <1>0, <2>1, <2>3, OneListRoot
<1>4. CASE FullGC
  <2> DEFINE S == IF gcstate \in {"pause", "propagate"} THEN Alloc \ tmudata ELSE unswept
             c == [o \in Obj |-> IF o \in S THEN currentwhite ELSE color[o]]
             D == {o \in S : isdead(o)}
  <2>1. Freed(D) /\ markroot(c)
    BY <1>4 DEF FullGC
  <2>2. c \in [Obj -> Colors]
    BY <1>0 DEF Colors, Whites, IInv, TypeOK
  <2>3. \A x \in Obj : x \in D \/ kind'[x] = kind[x]
    BY <2>1 DEF Freed
  <2>4. \A x \in D : kind'[x] = "free" /\ x \notin Live
    <3>1. S \subseteq Obj
      BY DEF Alloc, IInv, TypeOK
    <3>2. \A x \in D : x \in Obj /\ isdead(x)
      BY <3>1
    <3> HIDE DEF D
    <3> QED BY <2>1, <3>2 DEF Freed, isdead, Live
  <2>5. \A x \in L : c[x] # "gray"
    <3>1. SUFFICES ASSUME NEW x \in L, x \notin S PROVE color[x] # "gray"
      BY <1>0 DEF OfKind
    <3>2. x \in Alloc /\ x \notin tmudata
      BY DEF OfKind, Alloc, IInv, ShapeInv
    <3>3. gcstate # "propagate" /\ x \notin unswept
      BY <3>1, <3>2 DEF IInv, SweepInv
    <3> QED BY <1>0, <3>2, <3>3 DEF IInv, SweepInv
  <2> HIDE DEF S, c, D
  <2>6. L' \subseteq L /\ Live \cap L \subseteq L'
    BY <2>3, <2>4 DEF OfKind
  <2> QED BY <2>1, <2>2, <2>5, <2>6, OneListRoot
<1>5. ASSUME NEW o \in Obj, propagatemark(o) PROVE OneList'
  <2> DEFINE T == MarkClosure(color, Children(o))
             d == Marked(color, T)
  <2>1. /\ color' = [d EXCEPT ![o] = Traversed(o)]
        /\ gray' = (gray \ {o}) \cup Listed(T)
        /\ grayagain' = IF kind[o] = "thread" THEN grayagain \cup {o} ELSE grayagain
        /\ weak' = IF IsWeak(o) THEN weak \cup {o} ELSE weak
        /\ gcstate = "propagate" /\ o \in gray /\ L' = L
    BY <1>5 DEF propagatemark, OfKind
  <2>2. /\ Listed(T) \subseteq T \cap L /\ d \in [Obj -> Colors]
        /\ \A x \in L : d[x] = "gray" <=> x \in Listed(T) \/ color[x] = "gray"
        /\ \A x \in T : color[x] \in Whites
    BY <1>0, ListedFacts, MarkedType
  <2> HIDE DEF T, d
  <2>3. gray \cup grayagain \cup weak = {x \in L : color[x] = "gray"} /\ L \subseteq Obj
    BY <2>1 DEF OneList, OfKind
  <2>4. \A x \in Listed(T) : x \notin gray \cup grayagain \cup weak
    BY <2>2, <2>3 DEF Whites
  <2>5. o \in L /\ o \notin grayagain /\ o \notin weak /\ o \notin Listed(T)
    BY <2>1, <2>3, <2>4 DEF OneList
  <2>6. Traversed(o) = "gray" <=> kind[o] = "thread" \/ IsWeak(o)
    BY <2>5 DEF Traversed, OfKind
  <2>7. ~(kind[o] = "thread" /\ IsWeak(o))
    BY NoEntries DEF IInv
  <2>8. \A x \in L : color'[x] = "gray" <=> IF x = o THEN kind[o] = "thread" \/ IsWeak(o)
                                             ELSE x \in Listed(T) \/ color[x] = "gray"
    BY <2>1, <2>2, <2>3, <2>6
  <2>9. gray' \cup grayagain' \cup weak' = {x \in L : color'[x] = "gray"}
    BY <2>1, <2>2, <2>3, <2>5, <2>8
  <2>10. gray' \cap grayagain' = {} /\ gray' \cap weak' = {} /\ weak' \cap grayagain' = {}
    BY <2>1, <2>4, <2>5, <2>7 DEF OneList
  <2> HIDE DEF L
  <2>11. L' = L
    BY <2>1
  <2> QED BY <2>9, <2>10, <2>11 DEF OneList, L
<1>6. ASSUME NEW t \in Obj, NEW S, barrierback(t, S), kind[t] = "table",
             UNCHANGED <<kind, gcstate>>, gcstate = "propagate"
      PROVE  OneList'
  <2>1. CASE UNCHANGED <<color, lists>>
    BY <1>1, <1>6, <2>1
  <2>2. CASE /\ color[t] = "black" /\ color' = [color EXCEPT ![t] = "gray"]
             /\ grayagain' = grayagain \cup {t} /\ gray' = gray /\ weak' = weak
    <3>1. t \in L /\ L' = L /\ L \subseteq Obj /\ t \notin gray \cup grayagain \cup weak
      BY <1>6, <2>2 DEF OfKind, OneList
    <3>2. \A x \in L : color'[x] = "gray" <=> x = t \/ color[x] = "gray"
      BY <1>0, <2>2, <3>1
    <3>3. gray \cup grayagain \cup weak = {x \in L : color[x] = "gray"}
      BY <1>6 DEF OneList
    <3> QED BY <1>6, <2>2, <3>1, <3>2, <3>3 DEF OneList
  <2> QED BY <1>6, <2>1, <2>2 DEF barrierback, isblack
<1>7. ASSUME NEW o \in Obj, NEW v \in Obj, barrierf(o, v),
             UNCHANGED <<kind, gcstate>>, gcstate = "propagate"
      PROVE  OneList'
  <2> DEFINE T == MarkClosure(color, {v})
  <2>1. CASE UNCHANGED <<color, lists>>
    BY <1>1, <1>7, <2>1
  <2>2. CASE color' = Marked(color, T) /\ gray' = gray \cup Listed(T) /\ UNCHANGED <<grayagain, weak>>
    <3>1. /\ Listed(T) \subseteq T \cap L
          /\ \A x \in L : color'[x] = "gray" <=> x \in Listed(T) \/ color[x] = "gray"
          /\ \A x \in T : color[x] \in Whites
      BY <1>0, <2>2, ListedFacts
    <3> HIDE DEF T
    <3>2. L' = L /\ gray \cup grayagain \cup weak = {x \in L : color[x] = "gray"}
      BY <1>7 DEF OfKind, OneList
    <3>3. \A x \in Listed(T) : x \notin gray \cup grayagain \cup weak
      BY <3>1, <3>2 DEF Whites
    <3> QED BY <1>7, <2>2, <3>1, <3>2, <3>3 DEF OneList
  <2> QED BY <1>7, <2>1, <2>2 DEF barrierf
<1>8. ASSUME NEW o \in Obj, NEW k \in Kinds[o], NewObject(k, o), gcstate = "propagate" PROVE OneList'
  <2>1. /\ kind[o] = "free" /\ UNCHANGED <<lists, gcstate>>
        /\ \A x \in Obj : kind'[x] = IF x = o THEN k ELSE kind[x]
        /\ \A x \in Obj : color'[x] = IF x = o THEN currentwhite ELSE color[x]
    BY <1>0, <1>8 DEF NewObject, TypeOK
  <2>2. {x \in L' : color'[x] = "gray"} = {x \in L : color[x] = "gray"}
    BY <1>0, <2>1 DEF OfKind
  <2> QED BY <1>8, <2>1, <2>2 DEF OneList
<1>9. ASSUME NEW s \in Obj, InternString(s), gcstate = "propagate" PROVE OneList'
  <2>1. kind[s] = "string" /\ UNCHANGED <<kind, lists, gcstate>>
        /\ \A x \in Obj : x # s => color'[x] = color[x]
    BY <1>0, <1>9 DEF InternString, TypeOK
  <2>2. {x \in L' : color'[x] = "gray"} = {x \in L : color[x] = "gray"}
    BY <2>1 DEF OfKind
  <2> QED BY <1>9, <2>1, <2>2 DEF OneList
<1>10. CASE Mutator /\ gcstate = "propagate"
  <2> USE <1>10
  <2>1. ASSUME NEW o \in Obj, NEW k \in KeySet, NEW v \in Value, SetTable(o, k, v) PROVE OneList'
    BY <1>6, <2>1 DEF SetTable
  <2>2. ASSUME NEW o \in Obj, NEW m, NEW md, SetMetatable(o, m, md) PROVE OneList'
    BY <1>6, <2>2 DEF SetMetatable
  <2>3. ASSUME NEW o \in Obj, NEW m, NEW gc, SetUserMetatable(o, m, gc) PROVE OneList'
    <3>1. m \in Obj
      BY <1>0, <2>3, HeldType DEF SetUserMetatable
    <3> QED BY <1>7, <2>3, <3>1 DEF SetUserMetatable
  <2>4. ASSUME NEW o \in Obj, NEW x, NEW v \in Obj, SetUpvalue(o, x, v) PROVE OneList'
    BY <1>7, <2>4 DEF SetUpvalue
  <2>5. ASSUME NEW o \in Obj, NEW v, NEW e,
               Pop(o) \/ Load(o, v) \/ XMove(o, v) \/ ClearEntry(o, e) \/ SetBasicMetatable(v)
        PROVE  OneList'
    BY <1>1, <2>5 DEF Pop, Load, XMove, ClearEntry, SetBasicMetatable
  <2>6. ASSUME NEW v, SetBasicMetatable(v) PROVE OneList'
    BY <1>1, <2>6 DEF SetBasicMetatable
  <2> QED BY <1>8, <1>9, <2>1, <2>2, <2>3, <2>4, <2>5, <2>6 DEF Mutator
<1>11. CASE Mutator /\ gcstate # "propagate"
  <2>1. UNCHANGED gcstate
    BY <1>11 DEF Mutator, NewObject, InternString, Pop, Load, XMove, SetTable, ClearEntry,
                 SetMetatable, SetUserMetatable, SetUpvalue, SetBasicMetatable
  <2> QED BY <1>2, <1>11, <2>1
<1>12. CASE atomic \/ EndSweepString \/ EndSweep \/ EndCycle \/ (\E o \in Obj : sweepstring(o) \/ sweep(o) \/ GCTM(o))
  BY <1>2, <1>12 DEF atomic, EndSweepString, EndSweep, EndCycle, sweepstring, sweep, GCTM
<1> QED BY <1>1, <1>3, <1>4, <1>5, <1>10, <1>11, <1>12 DEF Next, GCStep

\* The three lists that share the field gclist are disjoint, and hold exactly
\* the gray objects.
THEOREM OneListThm == Spec => []OneList
<1>1. Init => OneList
  BY DEF Init, OneList
<1> QED BY <1>1, OneListNext, Invariance, PTL DEF Spec
=============================================================================
