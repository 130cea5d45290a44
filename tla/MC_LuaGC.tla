------------------------------ MODULE MC_LuaGC ------------------------------
(* LuaGC on small heaps.  Every address is given the kinds of object that  *)
(* may be created there, to keep one question per run.                     *)
EXTENDS LuaGC, TLC

CONSTANTS o1, o2, o3

Objects2 == {M, R, o1, o2}
Objects3 == {M, R, o1, o2, o3}
KindsAre(k1, k2, k3) ==
    [o \in Obj |-> CASE o = o1 -> k1 [] o = o2 -> k2 [] o = o3 -> k3 [] OTHER -> {}]

CycleKinds == KindsAre({"table", "closure", "udata"}, {"table", "thread", "string", "udata"}, {})
UdataKinds == KindsAre({"table"}, {"udata"}, {"udata"})

MetatablesAre(t, u, b) == [table |-> t, udata |-> u, basic |-> b]
CycleMetatables == MetatablesAre({R}, {R}, {o2})
UdataMetatables == MetatablesAre({}, {o1}, {})
LateMetatables == MetatablesAre({R}, {R, o1}, {})

(* Two families of programs in one run, each with the heaps its question   *)
(* needs: tables, closures, a coroutine and a metatable of a basic type,   *)
(* all strong; or a registry that is weak, with userdata and a string in   *)
(* it as keys and values, and as the metatable that has their finalizer.   *)
StrongHeap ==
    /\ Alloc \cap {o1, o2} \subseteq OfKind({"table", "closure", "thread"})
    /\ \A t \in Alloc : mode[t] = "strong" /\ \A e \in entries[t] : e[1] = Data
    /\ R \notin refs[R]
WeakHeap ==
    /\ Alloc \cap {o1, o2} \subseteq OfKind({"string", "udata"})
    /\ mt = None
    /\ mode[R] = "k" => \A e \in entries[R] : e[1] # Data
    /\ mode[R] = "v" => kind[o2] # "udata"
OneFamily == StrongHeap \/ WeakHeap

\* The two whites change places in every cycle, and the mark of a free address
\* means nothing: states that differ in these only are one state.
Relative == [o \in Obj |-> IF kind[o] = "free" THEN "free"
                           ELSE IF color[o] = currentwhite THEN "white"
                           ELSE IF iswhite(o) THEN "dead" ELSE color[o]]
View == <<heap, Relative, finalized, gcstate, lists, unswept, tmudata, full, calls>>

(* A state the first cycle reaches (after one collection): the userdata o2 *)
(* waits for its finalizer, and the program can still find it as a key of  *)
(* the registry, whose keys are weak.                                      *)
LateInit ==
    /\ kind = [o \in Obj |-> CASE o = M -> "thread" [] o \in {R, o1} -> "table"
                               [] o = o2 -> "udata" [] OTHER -> "free"]
    /\ refs = [o \in Obj |-> CASE o = R -> {R} [] o = o2 -> {o1} [] OTHER -> {}]
    /\ entries = [o \in Obj |-> IF o = R THEN {<<o2, Data>>} ELSE {}]
    /\ mode = [o \in Obj |-> IF o = R THEN "k" ELSE "strong"]
    /\ hasgc = [o \in Obj |-> o = o2]
    /\ mt = None
    /\ color = [o \in Obj |-> CASE o = o2 -> "black" [] kind[o] = "free" -> "white0"
                                [] OTHER -> "white1"]
    /\ finalized = {o2}
    /\ currentwhite = "white1"
    /\ gcstate = "finalize"
    /\ gray = {} /\ grayagain = {} /\ weak = {} /\ unswept = {}
    /\ tmudata = {o2}
    /\ full = FALSE
    /\ calls = [o \in Obj |-> 0]

LateSpec == LateInit /\ [][Next]_vars
=============================================================================
