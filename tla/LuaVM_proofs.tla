---------------------------- MODULE LuaVM_proofs ----------------------------
(***************************************************************************)
(* Proofs about LuaVM and LuaLib, for any program, any parser, any pattern *)
(* matcher and any limits: the machine never believes that a metatable     *)
(* lacks an event that it has; and the frames on the stack of calls agree  *)
(* with the C code that runs between them, so that luaV_execute goes back  *)
(* to C exactly where it was called from C.  At the end, what insert and   *)
(* remove do to a table, and, about Zio, that a stream gives the same      *)
(* bytes however it is cut into pieces.                                    *)
(***************************************************************************)
EXTENDS LuaLib, Zio, NatLemmas, FiniteSetTheorems, SequenceTheorems, TLAPS

\* A sequence, of anything.
IsSeq(q) == \E n \in Nat : DOMAIN q = 1..n /\ q = [i \in 1..n |-> q[i]]

\* No entry of a table that is looked up by name is nil: else an event could
\* be found missing that has an entry.
NoNil(map) == \A key \in DOMAIN map : key[1] = "string" => map[key] # Nil

TableOK(T) ==
  /\ T = [map |-> T.map, meta |-> T.meta, flags |-> T.flags]
  /\ NoNil(T.map)
  /\ \A event \in T.flags : <<"string", event>> \notin DOMAIN T.map

TablesOK(tabs) == IsSeq(tabs) /\ \A t \in DOMAIN tabs : TableOK(tabs[t])

IInv == "tabs" \in DOMAIN L /\ TablesOK(L.tabs)
Sound(s) == "tabs" \in DOMAIN s /\ TablesOK(s.tabs)

\* What is done to the rest of a state.
Same(s, r) == DOMAIN r = DOMAIN s /\ r.tabs = s.tabs

LEMMA SoundSame ==
    ASSUME NEW s, NEW r, Sound(s), "tabs" \in DOMAIN s => Same(s, r)
    PROVE  Sound(r)
BY DEF Sound, Same

LEMMA PutSame ==
    ASSUME NEW s, "tabs" \in DOMAIN s, NEW i, NEW vs
    PROVE  Same(s, Put(s, i, vs))
BY DEF Same, Put, Tuple

LEMMA SetSame ==
    ASSUME NEW s, "tabs" \in DOMAIN s, NEW i, NEW v
    PROVE  Same(s, Set(s, i, v))
BY PutSame DEF Set

LEMMA FrameSame ==
    ASSUME NEW s, "tabs" \in DOMAIN s, NEW k
    PROVE  Same(s, SetK(s, k)) /\ Same(s, SetC(s, k)) /\ Same(s, Jump(s, k)) /\ Same(s, CiTop(s))
BY DEF Same, SetK, SetC, Jump, CiTop

LEMMA CloseSame ==
    ASSUME NEW s, "tabs" \in DOMAIN s, NEW from
    PROVE  Same(s, luaF_close(s, from))
BY DEF Same, luaF_close, Tuple

LEMMA PoscallSame ==
    ASSUME NEW s, "tabs" \in DOMAIN s, NEW results
    PROVE  Same(s, luaD_poscall(s, results))
BY DEF Same, luaD_poscall, Put, Tuple

LEMMA CReturnSame ==
    ASSUME NEW s, "tabs" \in DOMAIN s, NEW results
    PROVE  Same(s, CReturn(s, results))
BY PoscallSame, FrameSame DEF Same, CReturn, Restored

LEMMA ThrowSame ==
    ASSUME NEW s, "tabs" \in DOMAIN s, NEW msg
    PROVE  Same(s, Throw(s, msg))
<1> DEFINE at == {i \in DOMAIN s.ci : s.ci[i].k.op = "pcall"}
           i  == CHOOSE x \in at : \A y \in at : y <= x
           shut == luaF_close(s, s.ci[i].base)
           back == [shut EXCEPT !.ci = SubSeq(@, 1, i)]
<1>1. Same(s, [s EXCEPT !.err = msg])
    BY DEF Same
<1>2. Same(s, back)
    BY CloseSame DEF Same
<1>3. Same(s, CReturn(back, <<False, <<"string", msg>>>>))
    BY <1>2, CReturnSame DEF Same
<1> QED
    BY <1>1, <1>3 DEF Throw

LEMMA EnterCSame ==
    ASSUME NEW s, "tabs" \in DOMAIN s, NEW func, NEW nresults, NEW fresh
    PROVE  Same(s, EnterC(s, func, nresults, fresh))
BY DEF Same, EnterC

LEMMA TryFuncSame ==
    ASSUME NEW s, "tabs" \in DOMAIN s, NEW func
    PROVE  Same(s, tryfuncTM(s, func))
BY PutSame DEF Same, tryfuncTM

LEMMA FramedSame ==
    ASSUME NEW a, "tabs" \in DOMAIN a.s, NEW size, NEW ci
    PROVE  Same(a.s, Framed(a, size, ci))
BY PutSame DEF Same, Framed

-----------------------------------------------------------------------------
(* What changes tables.                                                    *)

LEMMA AppendSeq ==
    ASSUME NEW q, IsSeq(q), NEW e
    PROVE  /\ IsSeq(Append(q, e))
           /\ \A i \in DOMAIN Append(q, e) :
                Append(q, e)[i] = e \/ (i \in DOMAIN q /\ Append(q, e)[i] = q[i])
<1>1. PICK n \in Nat : DOMAIN q = 1..n /\ q = [i \in 1..n |-> q[i]]
    BY DEF IsSeq
<1> DEFINE S == {q[i] : i \in 1..n} \cup {e}
<1>2. q \in Seq(S) /\ Len(q) = n
  <2>1. q \in [1..n -> S]
      BY <1>1
  <2> QED
      BY <2>1, <1>1
<1>3. /\ Append(q, e) \in Seq(S) /\ Len(Append(q, e)) = n + 1
      /\ DOMAIN Append(q, e) = 1..n + 1
      /\ \A i \in 1..n : Append(q, e)[i] = q[i]
      /\ Append(q, e)[n + 1] = e
    BY <1>2
<1>4. Append(q, e) = [i \in 1..n + 1 |-> Append(q, e)[i]]
  <2> HIDE DEF S
  <2>1. PICK m \in Nat : Append(q, e) \in [1..m -> S]
    <3>1. Seq(S) = UNION {[1..m -> S] : m \in Nat}
        BY SeqDef
    <3> QED
        BY <3>1, <1>3
  <2>2. m = n + 1
      BY <2>1, <1>3
  <2> QED
      BY <2>1, <2>2
<1>5. IsSeq(Append(q, e))
  <2>1. n + 1 \in Nat
      OBVIOUS
  <2> QED
      BY <2>1, <1>3, <1>4 DEF IsSeq
<1>6. ASSUME NEW i \in 1..n + 1 PROVE Append(q, e)[i] = e \/ (i \in 1..n /\ Append(q, e)[i] = q[i])
  <2>1. CASE i = n + 1
      BY <2>1, <1>3
  <2>2. CASE i \in 1..n
      BY <2>2, <1>3
  <2>3. i = n + 1 \/ i \in 1..n
      BY <1>1
  <2> QED
      BY <2>1, <2>2, <2>3
<1> QED
    BY <1>1, <1>3, <1>5, <1>6

LEMMA NewTableSound ==
    ASSUME NEW s, Sound(s), NEW map, NoNil(map)
    PROVE  Sound(NewTable(s, map))
<1> DEFINE T == [map |-> map, meta |-> 0, flags |-> {}]
           r == NewTable(s, map)
<1>1. TableOK(T)
    BY DEF TableOK
<1>2. "tabs" \in DOMAIN r /\ r.tabs = Append(s.tabs, T)
    BY DEF NewTable, Sound
<1>3. IsSeq(r.tabs)
    BY <1>2, AppendSeq DEF Sound, TablesOK
<1>4. ASSUME NEW u \in DOMAIN r.tabs PROVE TableOK(r.tabs[u])
  <2>1. IsSeq(s.tabs)
      BY DEF Sound, TablesOK
  <2>2. r.tabs[u] = T \/ (u \in DOMAIN s.tabs /\ r.tabs[u] = s.tabs[u])
      BY <2>1, <1>2, AppendSeq
  <2> QED
      BY <2>2, <1>1 DEF Sound, TablesOK
<1> QED
    BY <1>2, <1>3, <1>4 DEF Sound, TablesOK

\* A table changes in its metatable only.
LEMMA SetmetatableSound ==
    ASSUME NEW s, Sound(s), NEW t, NEW mt
    PROVE  Sound([s EXCEPT !.tabs[t].meta = mt])
<1> DEFINE r == [s EXCEPT !.tabs[t].meta = mt]
<1>1. "tabs" \in DOMAIN r /\ r.tabs = [s.tabs EXCEPT ![t].meta = mt]
    BY DEF Sound
<1>2. IsSeq(r.tabs) /\ DOMAIN r.tabs = DOMAIN s.tabs
    BY <1>1 DEF Sound, TablesOK, IsSeq
<1>3. ASSUME NEW u \in DOMAIN r.tabs PROVE TableOK(r.tabs[u])
  <2>1. TableOK(s.tabs[u])
      BY <1>2 DEF Sound, TablesOK
  <2>2. CASE u # t
      BY <2>1, <2>2, <1>1, <1>2
  <2>3. CASE u = t
    <3>1. r.tabs[u] = [s.tabs[u] EXCEPT !.meta = mt]
        BY <2>3, <1>1, <1>2
    <3> QED
        BY <3>1, <2>1 DEF TableOK
  <2> QED
      BY <2>2, <2>3
<1> QED
    BY <1>1, <1>2, <1>3 DEF Sound, TablesOK

LEMMA GettmSound ==
    ASSUME NEW s, Sound(s), NEW t, NEW event
    PROVE  Sound(luaT_gettm(s, t, event)) /\ DOMAIN luaT_gettm(s, t, event) = DOMAIN s
<1> DEFINE mt == s.tabs[t[2]].meta
           r == [s EXCEPT !.tabs[mt].flags = @ \cup {event}]
<1> SUFFICES ASSUME mt # 0, fasttm(s, t, event) = Nil
             PROVE  Sound(r) /\ DOMAIN r = DOMAIN s
    BY DEF luaT_gettm
<1>1. "tabs" \in DOMAIN r /\ r.tabs = [s.tabs EXCEPT ![mt].flags = @ \cup {event}]
    BY DEF Sound
<1>2. IsSeq(r.tabs) /\ DOMAIN r.tabs = DOMAIN s.tabs
    BY <1>1 DEF Sound, TablesOK, IsSeq
<1>3. ASSUME NEW u \in DOMAIN r.tabs PROVE TableOK(r.tabs[u])
  <2>1. TableOK(s.tabs[u])
      BY <1>2 DEF Sound, TablesOK
  <2>2. CASE u # mt
      BY <2>1, <2>2, <1>1, <1>2
  <2>3. CASE u = mt
    <3>1. r.tabs[u] = [s.tabs[u] EXCEPT !.flags = @ \cup {event}]
        BY <2>3, <1>1, <1>2
    <3>2. <<"string", event>> \notin DOMAIN s.tabs[u].map
      <4> DEFINE key == <<"string", event>>
      <4>1. event \in s.tabs[u].flags \/ RawGet(s, <<"table", u>>, key) = Nil
          BY <2>3 DEF fasttm
      <4>2. CASE event \in s.tabs[u].flags
          BY <4>2, <2>1 DEF TableOK
      <4>3. CASE RawGet(s, <<"table", u>>, key) = Nil
        <5>1. key \in DOMAIN s.tabs[u].map => s.tabs[u].map[key] = Nil
            BY <4>3 DEF RawGet
        <5>2. key[1] = "string"
            OBVIOUS
        <5> QED
            BY <5>1, <5>2, <2>1 DEF TableOK, NoNil
      <4> QED
          BY <4>1, <4>2, <4>3
    <3>3. r.tabs[u] = [map |-> s.tabs[u].map, meta |-> s.tabs[u].meta, flags |-> s.tabs[u].flags \cup {event}]
        BY <3>1, <2>1 DEF TableOK
    <3> HIDE DEF r
    <3>4. ASSUME NEW e \in r.tabs[u].flags PROVE <<"string", e>> \notin DOMAIN r.tabs[u].map
      <4>1. e = event \/ e \in s.tabs[u].flags
          BY <3>3
      <4>2. r.tabs[u].map = s.tabs[u].map
          BY <3>3
      <4>3. CASE e = event
          BY <3>2, <4>2, <4>3
      <4>4. CASE e \in s.tabs[u].flags
          BY <2>1, <4>2, <4>4 DEF TableOK
      <4> QED
          BY <4>1, <4>3, <4>4
    <3>6. NoNil(s.tabs[u].map)
        BY <2>1 DEF TableOK
    <3>5. NoNil(r.tabs[u].map) /\ r.tabs[u] = [map |-> r.tabs[u].map, meta |-> r.tabs[u].meta, flags |-> r.tabs[u].flags]
        BY <3>3, <3>6
    <3> QED
        BY <3>4, <3>5 DEF TableOK
  <2> QED
      BY <2>2, <2>3
<1> QED
    BY <1>1, <1>2, <1>3 DEF Sound, TablesOK

LEMMA RawSetSound ==
    ASSUME NEW s, Sound(s), NEW t, NEW key, NEW v
    PROVE  Sound(RawSet(s, t, key, v))
<1> DEFINE n == t[2]
           map == s.tabs[n].map
           without == [x \in DOMAIN map \ {key} |-> map[x]]
           new == IF v = Nil THEN without ELSE With(map, key, v)
           r == RawSet(s, t, key, v)
<1>1. "tabs" \in DOMAIN r /\ r.tabs = [s.tabs EXCEPT ![n].flags = {}, ![n].map = new]
    BY DEF Sound, RawSet
<1>2. IsSeq(r.tabs) /\ DOMAIN r.tabs = DOMAIN s.tabs
    BY <1>1 DEF Sound, TablesOK, IsSeq
<1>3. ASSUME NEW u \in DOMAIN r.tabs PROVE TableOK(r.tabs[u])
  <2>1. TableOK(s.tabs[u])
      BY <1>2 DEF Sound, TablesOK
  <2>2. CASE u # n
      BY <2>1, <2>2, <1>1, <1>2
  <2>3. CASE u = n
    <3>1. r.tabs[u] = [map |-> new, meta |-> s.tabs[u].meta, flags |-> {}]
        BY <2>1, <2>3, <1>1, <1>2 DEF TableOK
    <3>2. NoNil(map)
        BY <2>1, <2>3 DEF TableOK
    <3>3. NoNil(new)
      <4>1. CASE v = Nil
          BY <3>2, <4>1 DEF NoNil
      <4>2. CASE v # Nil
        <5>1. new = With(map, key, v)
            BY <4>2
        <5>2. DOMAIN new = {key} \cup DOMAIN map
            BY <5>1 DEF With, Over
        <5>3. ASSUME NEW x \in DOMAIN new PROVE new[x] = v \/ (x \in DOMAIN map /\ new[x] = map[x])
            BY <5>1, <5>2 DEF With, Over
        <5> QED
            BY <5>3, <3>2, <4>2 DEF NoNil
      <4> QED
          BY <4>1, <4>2
    <3> QED
        BY <3>1, <3>3 DEF TableOK
  <2> QED
      BY <2>2, <2>3
<1> QED
    BY <1>1, <1>2, <1>3 DEF Sound, TablesOK

-----------------------------------------------------------------------------
(* Functions of C, and calls.                                              *)

LEMMA CallBaseSound ==
    ASSUME NEW f, NEW s, Sound(s), NEW args
    PROVE  Sound(CallBase(f, s, args).s)
<1>1. Sound(luaB_setmetatable(s, args).s)
  <2> DEFINE t == Arg(args, 1)[2]
             mt == IF Arg(args, 2) = Nil THEN 0 ELSE Arg(args, 2)[2]
  <2>1. Sound([s EXCEPT !.tabs[t].meta = mt])
      BY SetmetatableSound
  <2> QED
      BY <2>1 DEF luaB_setmetatable, Failure, Results
<1>2. Sound(luaB_rawset(s, args).s)
    BY RawSetSound DEF luaB_rawset, Failure, Results
<1>3. luaB_select(s, args).s = s
    BY DEF luaB_select, Failure, Results
<1>4. luaB_unpack(s, args).s = s
    BY DEF luaB_unpack, Failure, Results
<1>5. luaB_ipairs(s, args).s = s /\ ipairsaux(s, args).s = s
    BY DEF luaB_ipairs, ipairsaux, Failure, Results
<1>6. luaB_error(s, args).s = s
    BY DEF luaB_error, Failure
<1>7. luaB_pcall(s, args).s = s
    BY DEF luaB_pcall, Failure, CallsBack
<1>8. CallsBack(s, [op |-> "library"]).s = s
    BY DEF CallsBack
<1> QED
    BY <1>1, <1>2, <1>3, <1>4, <1>5, <1>6, <1>7, <1>8 DEF CallBase

LEMMA AfterCSound ==
    ASSUME NEW r, Sound(r.s)
    PROVE  Sound(AfterC(r))
<1>1. "tabs" \in DOMAIN r.s
    BY DEF Sound
<1>2. Sound(Throw(r.s, r.err))
    BY <1>1, ThrowSame, SoundSame
<1>3. Sound(SetC(r.s, r.c))
    BY <1>1, FrameSame, SoundSame
<1>4. Sound(CReturn(r.s, r.r))
    BY <1>1, CReturnSame, SoundSame
<1> QED
    BY <1>2, <1>3, <1>4 DEF AfterC

LEMMA CallCSound ==
    ASSUME NEW s, Sound(s), NEW func, NEW nresults, NEW fresh
    PROVE  Sound(CallC(s, func, nresults, fresh))
<1>1. Sound(EnterC(s, func, nresults, fresh))
    BY EnterCSame, SoundSame
<1> QED
    BY <1>1, CallBaseSound, AfterCSound DEF CallC

LEMMA WithNoNil ==
    ASSUME NEW map, NoNil(map), NEW key, NEW v, v # Nil
    PROVE  NoNil(With(map, key, v))
BY DEF NoNil, With, Over

LEMMA VarargsSound ==
    ASSUME NEW s, Sound(s), NEW p, NEW func
    PROVE  Sound(adjust_varargs(s, p, func).s)
<1> DEFINE given == Values(s, func + 1)
           args == given \o Nils(LargestOf(p.numparams - Len(given), 0))
           fixed == SubSeq(args, 1, p.numparams)
           extra == SubSeq(args, p.numparams + 1, Len(args))
           fields == [x \in {<<"number", i>> : i \in {j \in DOMAIN extra : extra[j] # Nil}} |-> extra[x[2]]]
           t == NewTable(s, With(fields, <<"string", "n">>, <<"number", Len(extra)>>))
           base == func + 1 + Len(args)
           moved(x) == Put(Put(x, func + 1, Nils(p.numparams) \o extra), base, fixed)
<1>1. ASSUME NEW x, Sound(x), NEW top
      PROVE  Sound(moved(x)) /\ Sound([moved(x) EXCEPT !.top = top])
  <2> DEFINE y == Put(x, func + 1, Nils(p.numparams) \o extra)
  <2>1. Sound(y)
      BY <1>1, PutSame, SoundSame DEF Sound
  <2> HIDE DEF y
  <2>2. Sound(Put(y, base, fixed))
      BY <2>1, PutSame, SoundSame DEF Sound
  <2> DEFINE z == Put(y, base, fixed)
  <2> HIDE DEF z
  <2>3. Sound(z)
      BY <2>2 DEF z
  <2>4. Sound([z EXCEPT !.top = top])
      BY <2>3 DEF Sound
  <2> QED
      BY <2>3, <2>4 DEF y, z
<1>2. Sound(t)
  <2>1. NoNil(fields)
      BY DEF NoNil
  <2>2. <<"number", Len(extra)>> # Nil
      BY DEF Nil
  <2> QED
      BY <2>1, <2>2, WithNoNil, NewTableSound
<1> HIDE DEF t, fields, extra, args, base, fixed
<1>3. ASSUME NEW i, NEW v, NEW top PROVE Sound([Set(moved(t), i, v) EXCEPT !.top = top])
  <2>1. Sound(moved(t))
      BY <1>1, <1>2
  <2>2. Sound(Set(moved(t), i, v))
      BY <2>1, SetSame, SoundSame DEF Sound
  <2> QED
      BY <2>2 DEF Sound
<1>4. Sound([moved(s) EXCEPT !.top = base + p.numparams])
    BY <1>1
<1> QED
    BY <1>3, <1>4 DEF adjust_varargs, t, fields, extra, args, base, fixed

LEMMA EnterLuaSound ==
    ASSUME NEW s, Sound(s), NEW func, NEW nresults, NEW fresh
    PROVE  Sound(EnterLua(s, func, nresults, fresh))
<1> DEFINE p == ProtoOf(s.funs[Slot(s, func)[2]])
           a == adjust_args(s, p, func)
<1>1. Sound(a.s)
  <2>1. Sound(adjust_varargs(s, p, func).s)
      BY VarargsSound
  <2>2. Sound([s EXCEPT !.top = IF @ > func + 1 + p.numparams THEN func + 1 + p.numparams ELSE @])
      BY DEF Sound
  <2> QED
      BY <2>1, <2>2 DEF adjust_args
<1> HIDE DEF a
<1>2. ASSUME NEW size, NEW ci PROVE Sound(Framed(a, size, ci))
    BY <1>1, FramedSame, SoundSame DEF Sound
<1> QED
    BY <1>2 DEF EnterLua, a

LEMMA PrecallSound ==
    ASSUME NEW s, Sound(s), NEW func, NEW nresults, NEW fresh
    PROVE  Sound(luaD_precall(s, func, nresults, fresh))
<1> DEFINE t == IF IsFunction(Slot(s, func)) THEN s ELSE tryfuncTM(s, func)
<1>1. Sound(t)
    BY TryFuncSame, SoundSame DEF Sound
<1>2. Sound(Throw(s, "call"))
    BY ThrowSame, SoundSame DEF Sound
<1> HIDE DEF t
<1>3. Sound(EnterLua(t, func, nresults, fresh)) /\ Sound(CallC(t, func, nresults, fresh))
    BY <1>1, EnterLuaSound, CallCSound
<1> QED
    BY <1>2, <1>3 DEF luaD_precall, t

LEMMA CallSound ==
    ASSUME NEW s, Sound(s), NEW func, NEW nresults
    PROVE  Sound(luaD_call(s, func, nresults))
<1>1. Sound(Throw(s, "C stack overflow"))
    BY ThrowSame, SoundSame DEF Sound
<1>2. Sound(luaD_precall(s, func, nresults, TRUE))
    BY PrecallSound
<1> QED
    BY <1>1, <1>2 DEF luaD_call

-----------------------------------------------------------------------------
(* Metamethods.                                                            *)

LEMMA TMresSound ==
    ASSUME NEW s, Sound(s), NEW tm, NEW p1, NEW p2, NEW k
    PROVE  Sound(callTMres(s, tm, p1, p2, k))
<1> DEFINE x == Put(s, s.top, <<tm, p1, p2>>)
           y == SetK(x, k)
           z == [y EXCEPT !.top = @ + 3]
<1>1. Sound(x)
    BY PutSame, SoundSame DEF Sound
<1> HIDE DEF x
<1>2. Sound(y)
    BY <1>1, FrameSame, SoundSame DEF Sound
<1> HIDE DEF y
<1>3. Sound(z)
    BY <1>2 DEF Sound
<1> HIDE DEF z
<1>4. Sound(luaD_call(z, s.top, 1))
    BY <1>3, CallSound
<1> QED
    BY <1>4 DEF callTMres, x, y, z

LEMMA TMSound ==
    ASSUME NEW s, Sound(s), NEW tm, NEW p1, NEW p2, NEW p3
    PROVE  Sound(callTM(s, tm, p1, p2, p3))
<1> DEFINE x == Put(s, s.top, <<tm, p1, p2, p3>>)
           y == SetK(x, [op |-> "drop"])
           z == [y EXCEPT !.top = @ + 4]
<1>1. Sound(x)
    BY PutSame, SoundSame DEF Sound
<1> HIDE DEF x
<1>2. Sound(y)
    BY <1>1, FrameSame, SoundSame DEF Sound
<1> HIDE DEF y
<1>3. Sound(z)
    BY <1>2 DEF Sound
<1> HIDE DEF z
<1>4. Sound(luaD_call(z, s.top, 0))
    BY <1>3, CallSound
<1> QED
    BY <1>4 DEF callTM, x, y, z

\* Whatever leaves a state sound may be done first.
LEMMA StepSound ==
    ASSUME NEW s, Sound(s), NEW i, NEW v, NEW k, NEW vs
    PROVE  /\ Sound(Put(s, i, vs)) /\ Sound(Set(s, i, v)) /\ Sound(luaF_close(s, i))
           /\ Sound(SetK(s, k)) /\ Sound(SetC(s, k)) /\ Sound(Jump(s, k)) /\ Sound(CiTop(s))
           /\ Sound(Throw(s, k)) /\ Sound(CReturn(s, vs)) /\ Sound(luaD_poscall(s, vs))
           /\ Sound([s EXCEPT !.top = k]) /\ Sound([s EXCEPT !.err = k])
<1>1. "tabs" \in DOMAIN s
    BY DEF Sound
<1>2. Sound(Put(s, i, vs)) /\ Sound(Set(s, i, v)) /\ Sound(luaF_close(s, i))
    BY <1>1, PutSame, SetSame, CloseSame, SoundSame
<1>3. Sound(SetK(s, k)) /\ Sound(SetC(s, k)) /\ Sound(Jump(s, k)) /\ Sound(CiTop(s))
    BY <1>1, FrameSame, SoundSame
<1>4. Sound(Throw(s, k)) /\ Sound(CReturn(s, vs)) /\ Sound(luaD_poscall(s, vs))
    BY <1>1, ThrowSame, CReturnSame, PoscallSame, SoundSame
<1>5. Sound([s EXCEPT !.top = k]) /\ Sound([s EXCEPT !.err = k])
    BY DEF Sound
<1> QED
    BY <1>2, <1>3, <1>4, <1>5

LEMMA GettableSound ==
    ASSUME NEW s, Sound(s), NEW first, NEW key, NEW val
    PROVE  Sound(luaV_gettable(s, first, key, val))
<1>1. Sound(Throw(s, "loop")) /\ Sound(Throw(s, "index"))
    BY StepSound
<1>2. ASSUME NEW v PROVE Sound(Set(s, val, v))
    BY StepSound
<1>3. ASSUME NEW t PROVE Sound(Set(luaT_gettm(s, t, "__index"), val, Nil))
    BY GettmSound, StepSound
<1>4. ASSUME NEW t, NEW tm PROVE Sound(callTMres(s, tm, t, key, StoreAt(val)))
    BY TMresSound
<1>5. ASSUME NEW t
      PROVE  LET res == Indexed(s, t, key)
                 tm == TMOf(s, t, "__index")
             IN  Sound(CASE res # Nil              -> Set(s, val, res)
                         [] res = Nil /\ tm = Nil  -> Set(luaT_gettm(s, t, "__index"), val, Nil)
                         [] res = Nil /\ tm # Nil  -> callTMres(s, tm, t, key, StoreAt(val)))
    BY <1>2, <1>3, <1>4
<1> QED
    BY <1>1, <1>5 DEF luaV_gettable

\* What luaV_settable does to the tables on its way.
LEMMA ObjectSound ==
    ASSUME NEW s, Sound(s), NEW t, NEW key
    PROVE  Sound(AtObject(s, t, key).s)
BY RawSetSound DEF AtObject, Placed

Further(x, key) == AtObject(x.s, TMOf(x.s, x.t, "__newindex"), key)

\* f[n] is the state and the object after n turns.
Turns(f, s, first, key) ==
    f = [n \in 0..(MAXTAGLOOP - 1) |-> IF n = 0 THEN AtObject(s, first, key) ELSE Further(f[n - 1], key)]

LEMMA TurnsExist ==
    ASSUME NEW s, NEW first, NEW key
    PROVE  \E f : Turns(f, s, first, key)
<1> DEFINE Good(g, N) == \A n \in 0..N : g[n] = IF n = 0 THEN AtObject(s, first, key) ELSE Further(g[n - 1], key)
           P == {N \in Nat : \E g : Good(g, N)}
           last == MAXTAGLOOP - 1
<1>0. last \in Nat
    BY VMAssumption
<1>1. 0 \in P
  <2>1. Good([n \in {0} |-> AtObject(s, first, key)], 0)
      OBVIOUS
  <2> QED
      BY <2>1
<1>2. ASSUME NEW N \in Nat, N \in P PROVE N + 1 \in P
  <2>1. PICK g : Good(g, N)
      BY <1>2
  <2> DEFINE h == [n \in 0..N + 1 |-> IF n = N + 1 THEN Further(g[N], key) ELSE g[n]]
  <2>2. \A n \in 0..N : h[n] = g[n]
      OBVIOUS
  <2>3. h[N + 1] = Further(g[N], key)
      OBVIOUS
  <2>4. ASSUME NEW n \in 0..N + 1
        PROVE  h[n] = IF n = 0 THEN AtObject(s, first, key) ELSE Further(h[n - 1], key)
    <3> HIDE DEF h
    <3>1. CASE n = N + 1
        BY <2>2, <2>3, <3>1
    <3>2. CASE n \in 0..N
      <4>1. h[n] = g[n] /\ (n # 0 => h[n - 1] = g[n - 1])
          BY <3>2, <2>2
      <4> QED
          BY <3>2, <4>1, <2>1
    <3> QED
        BY <3>1, <3>2
  <2> HIDE DEF h
  <2>5. Good(h, N + 1)
      BY <2>4
  <2> QED
      BY <2>5
<1>3. last \in P
  <2> HIDE DEF P, last
  <2> QED
      BY <1>0, <1>1, <1>2, SetInduction
<1>4. PICK g : Good(g, last)
    BY <1>3
<1> DEFINE f == [n \in 0..last |-> g[n]]
<1>5. ASSUME NEW n \in 0..last
      PROVE  f[n] = IF n = 0 THEN AtObject(s, first, key) ELSE Further(f[n - 1], key)
  <2>1. f[n] = g[n] /\ (n # 0 => f[n - 1] = g[n - 1])
      BY <1>0
  <2> HIDE DEF f
  <2> QED
      BY <2>1, <1>4
<1>6. f = [n \in 0..last |-> f[n]]
    OBVIOUS
<1> HIDE DEF f
<1> QED
    BY <1>5, <1>6 DEF Turns

LEMMA TurnsSound ==
    ASSUME NEW s, Sound(s), NEW first, NEW key, NEW f, Turns(f, s, first, key)
    PROVE  \A n \in 0..(MAXTAGLOOP - 1) : Sound(f[n].s)
<1> DEFINE P == {N \in Nat : N \in 0..(MAXTAGLOOP - 1) => Sound(f[N].s)}
<1>0. MAXTAGLOOP \in Nat \ {0}
    BY VMAssumption
<1>1. 0 \in P
    BY <1>0, ObjectSound DEF Turns
<1>2. ASSUME NEW N \in Nat, N \in P PROVE N + 1 \in P
  <2> SUFFICES ASSUME N + 1 \in 0..(MAXTAGLOOP - 1) PROVE Sound(f[N + 1].s)
      OBVIOUS
  <2>1. Sound(f[N].s)
      BY <1>0, <1>2
  <2>2. f[N + 1] = Further(f[N], key)
      BY <1>0 DEF Turns
  <2> QED
      BY <2>1, <2>2, ObjectSound DEF Further
<1> HIDE DEF P
<1>3. \A N \in Nat : N \in P
    BY <1>1, <1>2, SetInduction
<1> QED
    BY <1>3 DEF P

LEMMA SettableSound ==
    ASSUME NEW s, Sound(s), NEW first, NEW key, NEW val
    PROVE  Sound(luaV_settable(s, first, key, val))
<1> DEFINE f == CHOOSE x : Turns(x, s, first, key)
           Stops(n) == \/ ~GoesOn(f[n].s, f[n].t, key, "__newindex")
                       \/ IsTable(f[n].t) /\ ~GoodKey(key)
           last == {n \in 0..(MAXTAGLOOP - 1) : Stops(n)}
           i == CHOOSE n \in last : \A m \in last : n <= m
           set == f[i].s
           t == f[i].t
           old == Indexed(set, t, key)
           tm == TMOf(set, t, "__newindex")
<1>1. Turns(f, s, first, key)
    BY TurnsExist
<1>2. luaV_settable(s, first, key, val) =
        CASE last = {} -> Throw(s, "loop")
          [] last # {} /\ ~IsTable(t) -> IF tm = Nil THEN Throw(set, "index") ELSE callTM(set, tm, t, key, val)
          [] OTHER -> CASE old # Nil -> RawSet(set, t, key, val)
                        [] old = Nil /\ ~GoodKey(key) -> Throw(set, "bad key")
                        [] old = Nil /\ GoodKey(key) /\ tm = Nil -> RawSet(luaT_gettm(set, t, "__newindex"), t, key, val)
                        [] OTHER -> callTM(set, tm, t, key, val)
    BY DEF luaV_settable, Turns, Further
<1>3. last # {} => Sound(set)
  <2> HIDE DEF f, Stops
  <2>1. MAXTAGLOOP \in Nat
      BY VMAssumption
  <2>2. last \in SUBSET Nat /\ last \subseteq 0..(MAXTAGLOOP - 1)
      BY <2>1
  <2>3. last # {} => i \in last
    <3> HIDE DEF last
    <3> QED
        BY <2>2, Smallest
  <2> QED
      BY <2>2, <2>3, <1>1, TurnsSound
<1> HIDE DEF f, last, i
<1>4. Sound(Throw(s, "loop"))
    BY StepSound
<1> SUFFICES ASSUME last # {} PROVE Sound(luaV_settable(s, first, key, val))
    BY <1>2, <1>4
<1> HIDE DEF set
<1>5. Sound(Throw(set, "index")) /\ Sound(Throw(set, "bad key"))
    BY <1>3, StepSound
<1>6. Sound(RawSet(set, t, key, val)) /\ Sound(RawSet(luaT_gettm(set, t, "__newindex"), t, key, val))
    BY <1>3, GettmSound, RawSetSound
<1>7. Sound(callTM(set, tm, t, key, val))
    BY <1>3, TMSound
<1> QED
    BY <1>2, <1>5, <1>6, <1>7

LEMMA BinTMSound ==
    ASSUME NEW s, Sound(s), NEW p1, NEW p2, NEW k, NEW event, NEW msg
    PROVE  Sound(call_binTM(s, p1, p2, k, event, msg))
BY StepSound, TMresSound DEF call_binTM

LEMMA ArithSound ==
    ASSUME NEW s, Sound(s), NEW ra, NEW rb, NEW rc, NEW op
    PROVE  Sound(Arith(s, ra, rb, rc, op))
<1>1. ASSUME NEW v PROVE Sound(Set(s, ra, v))
    BY StepSound
<1>2. Sound(call_binTM(s, rb, rc, StoreAt(ra), EventOf[op], "arith"))
    BY BinTMSound
<1> QED
    BY <1>1, <1>2 DEF Arith

LEMMA ConcatSound ==
    ASSUME NEW s, Sound(s), NEW total, NEW last, NEW ra
    PROVE  Sound(luaV_concat(s, total, last, ra))
<1> DEFINE V(n)   == Slot(s, Ci(s).base + last + 1 - n)
           stops  == {n \in 1..total : ~CanStr(V(n))}
           n      == IF stops = {} THEN total ELSE (CHOOSE x \in stops : \A y \in stops : x <= y) - 1
           right  == IF n < 2 THEN V(1) ELSE Concatenated([j \in 1..n |-> V(n + 1 - j)])
           taken  == LargestOf(n, 1)
           joined == Set(s, Ci(s).base + last + 1 - taken, right)
           k      == [op |-> "concat", total |-> total - taken, last |-> last - taken, at |-> ra]
           tm     == call_binTM(joined, V(taken + 1), right, k, "__concat", "concat")
<1>1. luaV_concat(s, total, last, ra) = IF taken = total THEN Set(joined, ra, right) ELSE tm
    BY DEF luaV_concat
<1>2. Sound(joined)
  <2> HIDE DEF right, taken
  <2> QED
      BY StepSound
<1> HIDE DEF joined, k, right, taken
<1>3. Sound(Set(joined, ra, right)) /\ Sound(tm)
    BY <1>2, StepSound, BinTMSound
<1> QED
    BY <1>1, <1>3

LEMMA EqualvalSound ==
    ASSUME NEW s, Sound(s), NEW a, NEW b
    PROVE  Sound(luaV_equalval(s, a, b).s)
<1> DEFINE seen1 == luaT_gettm(s, a, "__eq")
           seen2 == IF fasttm(s, a, "__eq") = Nil \/ s.tabs[a[2]].meta = s.tabs[b[2]].meta THEN seen1
                    ELSE luaT_gettm(seen1, b, "__eq")
           tm == get_compTM(s, a, b)
<1>1. Sound(seen1)
    BY GettmSound
<1>2. Sound(seen2)
    BY <1>1, GettmSound
<1>3. Sound(callTMres(s, tm, a, b, ThenTest(TRUE)))
    BY TMresSound
<1> DEFINE x == callTMres(s, tm, a, b, ThenTest(TRUE))
           equal == RawEqual(a, b)
<1>4. luaV_equalval(s, a, b) \in {Decided(s, equal), Decided(seen2, FALSE), Called(x)}
    BY DEF luaV_equalval
<1> HIDE DEF seen2, x, equal
<1>5. Decided(s, equal).s = s /\ Decided(seen2, FALSE).s = seen2 /\ Called(x).s = x
    BY DEF Decided, Called
<1> QED
    BY <1>2, <1>3, <1>4, <1>5 DEF x

LEMMA LessSound ==
    ASSUME NEW s, Sound(s), NEW a, NEW b, NEW k
    PROVE  Sound(luaV_lessthan(s, a, b, k).s) /\ Sound(lessequal(s, a, b).s)
<1>1. Sound(Throw(s, "compare"))
    BY StepSound
<1>2. ASSUME NEW tm, NEW p1, NEW p2, NEW then PROVE Sound(callTMres(s, tm, p1, p2, then))
    BY TMresSound
<1>3. Sound(luaV_lessthan(s, a, b, k).s)
    BY <1>1, <1>2 DEF luaV_lessthan, Decided, Called
<1>4. Sound(lessequal(s, a, b).s)
    BY <1>1, <1>2 DEF lessequal, Decided, Called
<1> QED
    BY <1>3, <1>4

-----------------------------------------------------------------------------
(* Instructions.                                                           *)

LEMMA DojumpSound ==
    ASSUME NEW s, Sound(s), NEW cond
    PROVE  Sound(dojump(s, cond))
<1>1. ASSUME NEW n PROVE Sound(Jump(s, n))
    BY StepSound
<1> QED
    BY <1>1 DEF dojump

LEMMA FetchedSound ==
    ASSUME Sound(L)
    PROVE  Sound(Fetched)
BY StepSound DEF Fetched

LEMMA SetupvalSound ==
    ASSUME NEW s, Sound(s), NEW u, NEW v
    PROVE  Sound(SetUpvalValue(s, u, v))
<1>1. Sound([s EXCEPT !.upvals[u].v = v])
    BY DEF Sound
<1> QED
    BY <1>1, StepSound DEF SetUpvalValue

\* The instructions that write registers and upvalues.
LEMMA RegistersSound ==
    ASSUME Sound(L), SetsRegister \/ LoadNil \/ SetUpval
    PROVE  Sound(L')
<1>1. ASSUME SetsRegister PROVE Sound(L')
  <2>1. ASSUME NEW v, NEW n PROVE Sound(Jump(Set(Fetched, RA, v), n))
      BY FetchedSound, StepSound
  <2> QED
      BY <1>1, <2>1 DEF SetsRegister
<1>2. ASSUME LoadNil PROVE Sound(L')
    BY <1>2, FetchedSound, StepSound DEF LoadNil
<1>3. ASSUME SetUpval PROVE Sound(L')
    BY <1>3, FetchedSound, SetupvalSound DEF SetUpval
<1> QED
    BY <1>1, <1>2, <1>3

\* The instructions on tables.
LEMMA TableOpsSound ==
    ASSUME Sound(L), GetTable \/ SetTable \/ NewTableOp
    PROVE  Sound(L')
<1>1. ASSUME GetTable PROVE Sound(L')
  <2> DEFINE self == Set(Fetched, RA + 1, R(I.b))
  <2>1. Sound(Fetched) /\ Sound(self)
      BY FetchedSound, StepSound
  <2>2. ASSUME NEW t, NEW key PROVE Sound(luaV_gettable(Fetched, t, key, RA)) /\ Sound(luaV_gettable(self, t, key, RA))
      BY <2>1, GettableSound
  <2> HIDE DEF self
  <2>3. /\ I.op \in {"GETGLOBAL", "GETTABLE", "SELF"}
        /\ L' = CASE I.op = "GETGLOBAL" -> luaV_gettable(Fetched, Globals, K(I.b), RA)
                  [] I.op = "GETTABLE"  -> luaV_gettable(Fetched, R(I.b), RK(I.c), RA)
                  [] I.op = "SELF"      -> luaV_gettable(self, R(I.b), RK(I.c), RA)
      BY <1>1 DEF GetTable, Executes, self
  <2> QED
      BY <2>2, <2>3
<1>2. ASSUME SetTable PROVE Sound(L')
    BY <1>2, FetchedSound, SettableSound DEF SetTable
<1>3. ASSUME NewTableOp PROVE Sound(L')
  <2> DEFINE t == NewTable(Fetched, [x \in {} |-> Nil])
  <2>1. NoNil([x \in {} |-> Nil])
      BY DEF NoNil
  <2>2. Sound(t)
      BY <2>1, FetchedSound, NewTableSound
  <2>3. L' = Set(t, RA, LastTable(t))
      BY <1>3 DEF NewTableOp
  <2> HIDE DEF t
  <2> QED
      BY <2>2, <2>3, StepSound
<1> QED
    BY <1>1, <1>2, <1>3

\* The operators.
LEMMA OperatorsSound ==
    ASSUME Sound(L), ArithOp \/ Length \/ Concat
    PROVE  Sound(L')
<1>1. ASSUME ArithOp PROVE Sound(L')
    BY <1>1, FetchedSound, ArithSound DEF ArithOp
<1>2. ASSUME Length PROVE Sound(L')
  <2>1. ASSUME NEW v PROVE Sound(Set(Fetched, RA, v)) /\ Sound(call_binTM(Fetched, v, Nil, StoreAt(RA), "__len", "length"))
      BY FetchedSound, StepSound, BinTMSound
  <2> QED
      BY <1>2, <2>1 DEF Length
<1>3. ASSUME Concat PROVE Sound(L')
    BY <1>3, FetchedSound, ConcatSound DEF Concat
<1> QED
    BY <1>1, <1>2, <1>3

\* Jumps and tests.
LEMMA TestsSound ==
    ASSUME Sound(L), Jmp \/ Compare \/ Test
    PROVE  Sound(L')
<1>1. ASSUME Jmp PROVE Sound(L')
    BY <1>1, FetchedSound, StepSound DEF Jmp
<1>2. ASSUME Compare PROVE Sound(L')
  <2> DEFINE cmp == Compared(I.op, RK(I.b), RK(I.c))
  <2>1. I.op \in {"EQ", "LT", "LE"} /\ L' = Tested(cmp)
      BY <1>2 DEF Compare, Executes
  <2>2. Sound(cmp.s)
    <3>1. ASSUME NEW b, NEW c
          PROVE  /\ Sound(luaV_equalval(Fetched, b, c).s)
                 /\ Sound(luaV_lessthan(Fetched, b, c, ThenTest(TRUE)).s)
                 /\ Sound(lessequal(Fetched, b, c).s)
        BY FetchedSound, EqualvalSound, LessSound
    <3> QED
        BY <2>1, <3>1 DEF Compared
  <2> HIDE DEF cmp
  <2>3. ASSUME NEW cond PROVE Sound(dojump(cmp.s, cond))
      BY <2>2, DojumpSound
  <2> QED
      BY <2>1, <2>2, <2>3 DEF Tested
<1>3. ASSUME Test PROVE Sound(L')
  <2>1. ASSUME NEW v, NEW cond, NEW set
        PROVE  Sound(dojump(IF set THEN Set(Fetched, RA, v) ELSE Fetched, cond))
      BY FetchedSound, StepSound, DojumpSound
  <2> QED
      BY <1>3, <2>1 DEF Test
<1> QED
    BY <1>1, <1>2, <1>3

\* Calls and returns.
LEMMA CallsSound ==
    ASSUME Sound(L), Call \/ TailCall \/ Return \/ Pcall
    PROVE  Sound(L')
<1>1. Sound(Arguments)
    BY FetchedSound DEF Arguments, Sound
<1>2. ASSUME Call PROVE Sound(L')
    BY <1>1, <1>2, PrecallSound DEF Call
<1>3. ASSUME TailCall PROVE Sound(L')
  <2> DEFINE s == luaD_precall(Arguments, RA, LUA_MULTRET, FALSE)
  <2>1. Sound(s)
      BY <1>1, PrecallSound
  <2>2. L' = TailCalled(s)
      BY <1>3 DEF TailCall
  <2> HIDE DEF s
  <2>3. Sound(Replace(s))
    <3> DEFINE ci == s.ci[Len(s.ci) - 1]
               shut == luaF_close(s, ci.base)
               put == Put(shut, ci.func, SubSeq(shut.stack, Ci(s).func + 1, s.top))
    <3>1. Sound(shut)
        BY <2>1, StepSound
    <3>2. Sound(put)
      <4> HIDE DEF shut
      <4> QED
          BY <3>1, StepSound
    <3>3. Replace(s) = [put EXCEPT !.top = Replace(s).top, !.ci = Replace(s).ci]
        BY DEF Replace
    <3> HIDE DEF put
    <3>4. "tabs" \in DOMAIN Replace(s) /\ Replace(s).tabs = put.tabs
        BY <3>2, <3>3 DEF Sound
    <3> QED
        BY <3>2, <3>4 DEF Sound
  <2> QED
      BY <2>1, <2>2, <2>3 DEF TailCalled
<1>4. ASSUME Return PROVE Sound(L')
  <2> DEFINE closed == luaF_close(Fetched, Base)
  <2>1. Sound(closed)
      BY FetchedSound, StepSound
  <2> HIDE DEF closed
  <2>2. ASSUME NEW vs PROVE Sound(luaD_poscall(closed, vs)) /\ Sound(CiTop(luaD_poscall(closed, vs)))
      BY <2>1, StepSound
  <2> QED
      BY <1>4, <2>2 DEF Return, closed
<1>5. ASSUME Pcall PROVE Sound(L')
  <2>1. Sound(SetC(SetK(L, [op |-> "pcall"]), NoK))
      BY StepSound
  <2> QED
      BY <1>5, <2>1, CallSound DEF Pcall
<1> QED
    BY <1>2, <1>3, <1>4, <1>5

\* Loops.
LEMMA LoopsSound ==
    ASSUME Sound(L), ForPrep \/ ForLoop \/ TForLoop
    PROVE  Sound(L')
<1>1. ASSUME ForPrep PROVE Sound(L')
  <2>1. ASSUME NEW vs, NEW n PROVE Sound(Jump(Put(Fetched, RA, vs), n)) /\ Sound(Throw(Fetched, "for"))
      BY FetchedSound, StepSound
  <2> QED
      BY <1>1, <2>1 DEF ForPrep
<1>2. ASSUME ForLoop PROVE Sound(L')
  <2>1. ASSUME NEW v, NEW n PROVE Sound(Jump(Set(Set(Fetched, RA, v), RA + 3, v), n)) /\ Sound(Fetched)
      BY FetchedSound, StepSound
  <2> QED
      BY <1>2, <2>1 DEF ForLoop
<1>3. ASSUME TForLoop PROVE Sound(L')
  <2> DEFINE s == [Put(Fetched, RA + 3, <<R(I.a), R(I.a + 1), R(I.a + 2)>>) EXCEPT !.top = RA + 3 + 3]
  <2>1. Sound(s)
      BY FetchedSound, StepSound
  <2>2. L' = luaD_call(SetK(s, [op |-> "tfor", at |-> RA + 3]), RA + 3, I.c)
      BY <1>3 DEF TForLoop
  <2> HIDE DEF s
  <2> QED
      BY <2>1, <2>2, StepSound, CallSound
<1> QED
    BY <1>1, <1>2, <1>3

\* SETLIST stores at numbers: what the table was known to lack it still lacks.
LEMMA SetListSound ==
    ASSUME Sound(L), SetList
    PROVE  Sound(L')
<1> DEFINE n == IF I.b = 0 THEN L.top - RA - 1 ELSE I.b
           s == IF I.b = 0 THEN CiTop(Fetched) ELSE Fetched
           c == IF I.c = 0 THEN AsWord(Proto.code[Ci(L).pc + 2]) - (511 - MAXARG_C) ELSE I.c
           first == (c - 1) * LFIELDS_PER_FLUSH
           t == R(I.a)[2]
           given == {j \in 1..n : R(I.a + j) # Nil}
           items == [x \in {<<"number", first + j>> : j \in given} |-> R(I.a + x[2] - first)]
           kept  == {x \in DOMAIN L.tabs[t].map : ~(IsNumber(x) /\ x[2] - first \in 1..n)}
           stored == [s EXCEPT !.tabs[t].map = Over(items, [x \in kept |-> @[x]])]
<1>1. Sound(s) /\ s.tabs = L.tabs
    BY FetchedSound, StepSound, FrameSame DEF Fetched, Same, Sound
<1>2. \A x \in DOMAIN items : x[1] = "number"
    OBVIOUS
<1>3. Sound(stored)
  <2> DEFINE map == L.tabs[t].map
             new == Over(items, [x \in kept |-> map[x]])
             r == [s EXCEPT !.tabs[t].map = new]
  <2>1. stored = r
      BY <1>1
  <2> HIDE DEF s, items
  <2>2. "tabs" \in DOMAIN r /\ r.tabs = [L.tabs EXCEPT ![t].map = new]
      BY <1>1 DEF Sound
  <2>5. ASSUME NEW x \in DOMAIN new, x[1] = "string"
        PROVE  x \in DOMAIN map /\ new[x] = map[x]
      BY <1>2, <2>5 DEF Over
  <2> HIDE DEF new, r
  <2>3. IsSeq(r.tabs) /\ DOMAIN r.tabs = DOMAIN L.tabs
      BY <2>2 DEF Sound, TablesOK, IsSeq
  <2>4. ASSUME NEW u \in DOMAIN r.tabs PROVE TableOK(r.tabs[u])
    <3>1. TableOK(L.tabs[u])
        BY <2>3 DEF Sound, TablesOK
    <3>2. CASE u # t
        BY <2>2, <2>3, <3>1, <3>2
    <3>3. CASE u = t
      <4>1. r.tabs[u] = [map |-> new, meta |-> L.tabs[u].meta, flags |-> L.tabs[u].flags]
          BY <2>2, <2>3, <3>1, <3>3 DEF TableOK
      <4>3. NoNil(new)
          BY <2>5, <3>1, <3>3 DEF NoNil, TableOK
      <4>4. ASSUME NEW event \in L.tabs[u].flags PROVE <<"string", event>> \notin DOMAIN new
        <5>1. <<"string", event>>[1] = "string"
            OBVIOUS
        <5>2. <<"string", event>> \notin DOMAIN map
            BY <3>1, <3>3 DEF TableOK
        <5> QED
            BY <2>5, <5>1, <5>2
      <4> QED
          BY <4>1, <4>3, <4>4 DEF TableOK
    <3> QED
        BY <3>2, <3>3
  <2> QED
      BY <2>1, <2>2, <2>3, <2>4 DEF Sound, TablesOK, r
<1>4. L' = Jump(IF IsTable(R(I.a)) THEN stored ELSE s, IF I.c = 0 THEN 1 ELSE 0)
    BY DEF SetList
<1> HIDE DEF stored, s
<1> QED
    BY <1>1, <1>3, <1>4, StepSound

\* Closures and variable arguments.
LEMMA ClosuresSound ==
    ASSUME Sound(L), Close \/ ClosureOp \/ VarArg
    PROVE  Sound(L')
<1>1. ASSUME Close PROVE Sound(L')
    BY <1>1, FetchedSound, StepSound DEF Close
<1>2. ASSUME ClosureOp PROVE Sound(L')
  <2>1. ASSUME NEW upvals, NEW f PROVE Sound([Fetched EXCEPT !.upvals = upvals, !.funs = Append(@, f)])
      BY FetchedSound DEF Sound
  <2>2. ASSUME NEW s, Sound(s), NEW v, NEW n PROVE Sound(Jump(Set(s, RA, v), n))
      BY <2>2, StepSound
  <2> QED
      BY <1>2, <2>1, <2>2 DEF ClosureOp
<1>3. ASSUME VarArg PROVE Sound(L')
  <2>1. ASSUME NEW vs PROVE Sound(Put(Fetched, RA, vs))
      BY FetchedSound, StepSound
  <2>2. ASSUME NEW vs, NEW top PROVE Sound([Put(Fetched, RA, vs) EXCEPT !.top = top])
      BY <2>1, StepSound
  <2> QED
      BY <1>3, <2>1, <2>2 DEF VarArg
<1> QED
    BY <1>1, <1>2, <1>3

\* What C code does after a call.
LEMMA ContinueSound ==
    ASSUME Sound(L), Continue
    PROVE  Sound(L')
<1>1. Sound(Back) /\ Sound(Taken)
    BY StepSound DEF Back, Taken
<1>2. ASSUME StoreResult PROVE Sound(L')
    BY <1>1, <1>2, StepSound DEF StoreResult
<1>3. ASSUME DropResult PROVE Sound(L')
    BY <1>1, <1>3 DEF DropResult
<1>4. ASSUME TestResult PROVE Sound(L')
    BY <1>1, <1>4, DojumpSound DEF TestResult
<1>5. ASSUME ConcatResult PROVE Sound(L')
  <2>1. ASSUME NEW i, NEW v PROVE Sound(Set(Taken, i, v))
      BY <1>1, StepSound
  <2> QED
      BY <1>5, <2>1, ConcatSound DEF ConcatResult
<1>6. ASSUME TForResult PROVE Sound(L')
  <2>1. ASSUME NEW i, NEW v PROVE Sound(Set(Back, i, v)) /\ Sound(CiTop(Set(Back, i, v))) /\ Sound(CiTop(Back))
      BY <1>1, StepSound
  <2>2. ASSUME NEW i, NEW v, NEW set, NEW cond
        PROVE  Sound(dojump(CiTop(IF set THEN Set(Back, i, v) ELSE Back), cond))
      BY <2>1, DojumpSound
  <2> QED
      BY <1>6, <2>2 DEF TForResult
<1>7. ASSUME PcallReturns PROVE Sound(L')
    BY <1>7, StepSound DEF PcallReturns
<1> QED
    BY <1>2, <1>3, <1>4, <1>5, <1>6, <1>7 DEF Continue

-----------------------------------------------------------------------------
(* A new state, and the theorem.                                           *)

LEMMA LibraryNamesSeq ==
    \E n \in Nat : DOMAIN LibraryNames = 1..n
<1> DEFINE S == DOMAIN Libraries
           n == Cardinality(S)
<1>1. n \in Nat /\ ExistsBijection(1..n, S)
    BY VMAssumption, FS_CardinalityType
<1>2. \E f \in [1..n -> S] : IsInjective(f)
    BY <1>1 DEF ExistsBijection, Bijection, Injection, IsInjective
<1>3. LibraryNames \in [1..n -> S]
    BY <1>2 DEF LibraryNames, SetToSeq
<1> QED
    BY <1>1, <1>3

LEMMA JoinedSeq ==
    ASSUME NEW a, NEW b, NEW n \in Nat, NEW f, DOMAIN f = 1..n, f = [i \in 1..n |-> f[i]]
    PROVE  /\ IsSeq(<<a, b>> \o f)
           /\ \A i \in DOMAIN (<<a, b>> \o f) :
                (<<a, b>> \o f)[i] \in {a, b} \cup {f[j] : j \in 1..n}
<1> DEFINE S == {a, b} \cup {f[j] : j \in 1..n}
           q == <<a, b>>
<1>1. f \in Seq(S) /\ Len(f) = n
  <2>1. f \in [1..n -> S]
      OBVIOUS
  <2> QED
      BY <2>1
<1>2. q \in Seq(S) /\ Len(q) = 2
    OBVIOUS
<1> HIDE DEF S, q
<1>3. q \o f \in Seq(S)
    BY <1>1, <1>2
<1>4. PICK m \in Nat : q \o f \in [1..m -> S]
  <2> DEFINE z == q \o f
  <2> HIDE DEF z
  <2>1. Seq(S) = UNION {[1..k -> S] : k \in Nat}
      BY SeqDef
  <2>2. z \in Seq(S)
      BY <1>3 DEF z
  <2>3. \E m \in Nat : z \in [1..m -> S]
      BY <2>1, <2>2
  <2> QED
      BY <2>3 DEF z
<1>5. DOMAIN (q \o f) = 1..m /\ q \o f = [i \in 1..m |-> (q \o f)[i]]
    BY <1>4
<1>6. IsSeq(q \o f)
    BY <1>4, <1>5 DEF IsSeq
<1> QED
    BY <1>4, <1>5, <1>6 DEF S, q

LEMMA InitSound ==
    ASSUME Init
    PROVE  IInv
<1> DEFINE Place(name) == <<"table", 2 + CHOOSE j \in DOMAIN LibraryNames : LibraryNames[j] = name>>
           Functions(fs) == [x \in {<<"string", name>> : name \in DOMAIN fs} |-> <<"cfunction", fs[x[2]]>>]
           places == [x \in {<<"string", name>> : name \in DOMAIN Libraries} |-> Place(x[2])]
           base == Functions([name \in BaseFunctions |-> name])
           globals == Over(places, base)
           strmeta == [x \in {<<"string", "__index">> : name \in DOMAIN Libraries \cap {"string"}} |-> Place("string")]
           lib(j) == TableOf(Functions(Libraries[LibraryNames[j]]))
           libs == [j \in DOMAIN LibraryNames |-> lib(j)]
<1>1. ASSUME NEW map, NoNil(map) PROVE TableOK(TableOf(map))
    BY <1>1 DEF TableOK, TableOf
<1>2. ASSUME NEW fs PROVE NoNil(Functions(fs))
    BY DEF NoNil, Nil
<1>3. ASSUME NEW name PROVE Place(name) # Nil
    BY DEF Nil
<1>4. NoNil(strmeta) /\ NoNil(places)
  <2> HIDE DEF Place
  <2> QED
      BY <1>3 DEF NoNil
<1>5. NoNil(globals)
  <2>1. NoNil(base)
      BY <1>2
  <2> HIDE DEF base, places
  <2> QED
      BY <1>4, <2>1 DEF NoNil, Over
<1>6. TableOK(TableOf(globals)) /\ TableOK(TableOf(strmeta)) /\ \A j : TableOK(lib(j))
  <2> HIDE DEF globals, strmeta, Functions
  <2> QED
      BY <1>1, <1>2, <1>4, <1>5
<1>7. L.tabs = <<TableOf(globals), TableOf(strmeta)>> \o libs /\ "tabs" \in DOMAIN L
    BY DEF Init, lua_newstate
<1>8. PICK n \in Nat : DOMAIN LibraryNames = 1..n
    BY LibraryNamesSeq
<1> HIDE DEF globals, strmeta, lib
<1>9. DOMAIN libs = 1..n /\ libs = [j \in 1..n |-> libs[j]] /\ \A j \in 1..n : TableOK(libs[j])
    BY <1>6, <1>8
<1> HIDE DEF libs
<1> DEFINE a == TableOf(globals)
           b == TableOf(strmeta)
<1>10. /\ IsSeq(L.tabs)
       /\ \A t \in DOMAIN L.tabs : L.tabs[t] \in {a, b} \cup {libs[j] : j \in 1..n}
  <2>1. L.tabs = <<a, b>> \o libs
      BY <1>7
  <2> HIDE DEF a, b
  <2> QED
      BY <2>1, <1>9, JoinedSeq
<1>11. \A t \in DOMAIN L.tabs : TableOK(L.tabs[t])
    BY <1>6, <1>9, <1>10
<1> QED
    BY <1>7, <1>10, <1>11 DEF IInv, TablesOK

\* A chunk that is compiled, read back and called.
LEMMA LifeSound ==
    ASSUME Sound(L), Compile \/ Reload \/ Start
    PROVE  Sound(L')
<1>1. ASSUME NEW msg PROVE Sound([L EXCEPT !.err = msg])
    BY StepSound
<1>2. ASSUME Compile PROVE Sound(L')
    BY <1>1, <1>2 DEF Compile
<1>3. ASSUME Reload PROVE Sound(L')
    BY <1>1, <1>3 DEF Reload
<1>4. ASSUME Start PROVE Sound(L')
  <2> DEFINE s == [L EXCEPT !.stack = Append(@, <<"function", 1>>), !.top = 2,
                            !.funs = <<[p |-> <<>>, upvals |-> <<>>]>>]
  <2>1. Sound(s)
      BY DEF Sound
  <2>2. L' = luaD_call(s, 1, LUA_MULTRET)
      BY <1>4 DEF Start
  <2> HIDE DEF s
  <2> QED
      BY <2>1, <2>2, CallSound
<1> QED
    BY <1>2, <1>3, <1>4

LEMMA NextSound ==
    ASSUME IInv, [Next]_vars
    PROVE  IInv'
<1> USE DEF IInv, Sound
<1>1. CASE Execute
    BY <1>1, RegistersSound, TableOpsSound, OperatorsSound, TestsSound, CallsSound, LoopsSound, SetListSound,
       ClosuresSound DEF Execute
<1>2. CASE Continue
    BY <1>2, ContinueSound
<1>3. CASE Compile \/ Reload \/ Start
    BY <1>3, LifeSound
<1>4. CASE Stopped \/ UNCHANGED vars
    BY <1>4 DEF Stopped, vars
<1> QED
    BY <1>1, <1>2, <1>3, <1>4 DEF Next

-----------------------------------------------------------------------------
(* The libraries.                                                          *)

LEMMA StoresSound ==
    ASSUME NEW s, Sound(s), NEW t, NEW i, NEW v, NEW c, NEW j, NEW w
    PROVE  Sound(lua_rawseti(s, t, i, v)) /\ Sound(set2(s, c, i, v, j, w))
<1>1. Sound(lua_rawseti(s, t, i, v))
    BY RawSetSound DEF lua_rawseti
<1>2. Sound(lua_rawseti(s, c.t, i, v))
    BY RawSetSound DEF lua_rawseti
<1> DEFINE x == lua_rawseti(s, c.t, i, v)
<1> HIDE DEF x
<1>3. Sound(lua_rawseti(x, c.t, j, w))
    BY <1>2, RawSetSound DEF lua_rawseti, x
<1> QED
    BY <1>1, <1>3 DEF set2, x

\* One move; f[n] is the state after n of them.
Moving(x, t, i, step) == lua_rawseti(x, t, i, lua_rawgeti(x, t, i - step))
IsMoves(f, s, t, first, step, count) ==
    f = [n \in 0..count |-> IF n = 0 THEN s ELSE Moving(f[n - 1], t, first - (n - 1) * step, step)]

LEMMA MovesExist ==
    ASSUME NEW s, NEW t, NEW first, NEW step, NEW count \in Nat
    PROVE  \E f : IsMoves(f, s, t, first, step, count)
<1> DEFINE Next1(x, n) == Moving(x, t, first - (n - 1) * step, step)
           Good(g, N) == \A n \in 0..N : g[n] = IF n = 0 THEN s ELSE Next1(g[n - 1], n)
           P == {N \in Nat : \E g : Good(g, N)}
<1>1. 0 \in P
  <2>1. Good([n \in {0} |-> s], 0)
      OBVIOUS
  <2> QED
      BY <2>1
<1>2. ASSUME NEW N \in Nat, N \in P PROVE N + 1 \in P
  <2>1. PICK g : Good(g, N)
      BY <1>2
  <2> DEFINE h == [n \in 0..N + 1 |-> IF n = N + 1 THEN Next1(g[N], N + 1) ELSE g[n]]
  <2> HIDE DEF Next1
  <2>2. \A n \in 0..N : h[n] = g[n]
      OBVIOUS
  <2>3. h[N + 1] = Next1(g[N], N + 1)
      OBVIOUS
  <2> HIDE DEF h
  <2>4. ASSUME NEW n \in 0..N + 1
        PROVE  h[n] = IF n = 0 THEN s ELSE Next1(h[n - 1], n)
    <3>1. CASE n = N + 1
        BY <2>2, <2>3, <3>1
    <3>2. CASE n \in 0..N
      <4>1. h[n] = g[n] /\ (n # 0 => h[n - 1] = g[n - 1])
          BY <3>2, <2>2
      <4> QED
          BY <3>2, <4>1, <2>1
    <3> QED
        BY <3>1, <3>2
  <2>5. Good(h, N + 1)
      BY <2>4
  <2> QED
      BY <2>5
<1>3. count \in P
  <2> HIDE DEF P
  <2> QED
      BY <1>1, <1>2, SetInduction
<1>4. PICK g : Good(g, count)
    BY <1>3
<1> DEFINE f == [n \in 0..count |-> g[n]]
<1>5. ASSUME NEW n \in 0..count
      PROVE  f[n] = IF n = 0 THEN s ELSE Next1(f[n - 1], n)
  <2>1. f[n] = g[n] /\ (n # 0 => f[n - 1] = g[n - 1])
      OBVIOUS
  <2> HIDE DEF f, Next1
  <2> QED
      BY <2>1, <1>4
<1>6. f = [n \in 0..count |-> f[n]]
    OBVIOUS
<1> HIDE DEF f
<1> QED
    BY <1>5, <1>6 DEF IsMoves

LEMMA MovesSound ==
    ASSUME NEW s, Sound(s), NEW t, NEW first, NEW step, NEW count
    PROVE  Sound(Moves(s, t, first, step, count))
<1> SUFFICES ASSUME count \in Nat PROVE Sound(Moves(s, t, first, step, count))
    BY DEF Moves
<1> DEFINE f == CHOOSE x : IsMoves(x, s, t, first, step, count)
           P == {N \in Nat : N \in 0..count => Sound(f[N])}
<1>1. IsMoves(f, s, t, first, step, count)
    BY MovesExist
<1>2. Moves(s, t, first, step, count) = f[count]
    BY DEF Moves, IsMoves, Moving
<1> HIDE DEF f
<1>3. 0 \in P
    BY <1>1 DEF IsMoves
<1>4. ASSUME NEW N \in Nat, N \in P PROVE N + 1 \in P
  <2> SUFFICES ASSUME N + 1 \in 0..count PROVE Sound(f[N + 1])
      OBVIOUS
  <2>1. Sound(f[N])
      BY <1>4
  <2>2. f[N + 1] = Moving(f[N], t, first - (N + 1 - 1) * step, step)
      BY <1>1 DEF IsMoves
  <2>3. ASSUME NEW i PROVE Sound(Moving(f[N], t, i, step))
      BY <2>1, StoresSound DEF Moving
  <2> QED
      BY <2>2, <2>3
<1> HIDE DEF P
<1>5. \A N \in Nat : N \in P
    BY <1>3, <1>4, SetInduction
<1> QED
    BY <1>2, <1>5 DEF P

\* What a function of a library does before it calls another.
LEMMA LibrarySound ==
    ASSUME NEW f, NEW s, Sound(s), NEW args
    PROVE  Sound(Library(f, s, args).s)
<1>1. ASSUME NEW first, NEW captures PROVE Captured(s, first, captures).s = s
    BY DEF Captured, Failure, Results
<1>2. ASSUME NEW find PROVE str_find_aux(s, args, find).s = s
  <2>1. ASSUME NEW at, NEW len PROVE FoundPlain(s, at, len).s = s
      BY DEF FoundPlain, Results
  <2>2. ASSUME NEW m PROVE FoundMatch(s, m, find).s = s
      BY <1>1 DEF FoundMatch, Failure, Results
  <2> QED
      BY <2>1, <2>2 DEF str_find_aux, Failure
<1>3. Sound(gmatch(s, args).s)
  <2> DEFINE two == [x \in {Number(1), Number(2)} |-> Arg(args, x[2])]
             map == With(two, Number(3), Number(0))
  <2>1. NoNil(map)
      BY DEF NoNil, With, Over, Number
  <2> HIDE DEF map
  <2>2. Sound(NewTable(s, map))
      BY <2>1, NewTableSound
  <2> QED
      BY <2>2 DEF gmatch, Failure, Results, map
<1>4. Sound(gmatch_aux(f, s).s)
  <2>1. ASSUME NEW t, NEW v, NEW first, NEW captures
        PROVE  Sound(Captured(RawSet(s, t, Number(3), v), first, captures).s)
      BY RawSetSound DEF Captured, Failure, Results
  <2>2. ASSUME NEW t, NEW m PROVE Sound(NextMatch(s, t, m).s)
      BY <2>1 DEF NextMatch, Failure, Results
  <2> QED
      BY <2>2 DEF gmatch_aux, Results
<1>5. /\ str_gsub(s, args).s = s /\ str_len(s, args).s = s /\ str_sub(s, args).s = s
      /\ str_rep(s, args).s = s /\ str_reverse(s, args).s = s
    BY DEF str_gsub, str_len, str_sub, str_rep, str_reverse, Failure, Results, CallsBack
<1>6. /\ tconcat(s, args).s = s /\ getn(s, args).s = s
      /\ maxn(s, args).s = s /\ setn(s, args).s = s
    BY DEF tconcat, getn, maxn, setn, Failure, Results
<1>7. foreachi(s, args).s = s /\ sort(s, args).s = s
    BY DEF foreachi, sort, Failure, CallsBack
<1>8. Sound(tinsert(s, args).s)
  <2>1. ASSUME NEW t, NEW first, NEW count, NEW i, NEW v
        PROVE  Sound(lua_rawseti(Moves(s, t, first, 1, count), t, i, v))
      BY MovesSound, StoresSound
  <2> QED
      BY <2>1 DEF tinsert, Failure, Results
<1>9. Sound(tremove(s, args).s)
  <2>1. ASSUME NEW t, NEW first, NEW count, NEW i, NEW v
        PROVE  Sound(lua_rawseti(Moves(s, t, first, -1, count), t, i, v))
      BY MovesSound, StoresSound
  <2> QED
      BY <2>1 DEF tremove, Failure, Results
<1>10. Failure(s, "not modelled").s = s
    BY DEF Failure
<1> QED
    BY <1>2, <1>3, <1>4, <1>5, <1>6, <1>7, <1>8, <1>9, <1>10 DEF Library

LEMMA LuaCallSound ==
    ASSUME NEW s, Sound(s), NEW c, NEW f, NEW args
    PROVE  Sound(lua_call(s, c, f, args))
<1> DEFINE x == Put(s, s.top, <<f>> \o args)
           y == SetC(x, c)
           z == [y EXCEPT !.top = @ + 1 + Len(args)]
<1>1. Sound(x)
    BY StepSound
<1> HIDE DEF x
<1>2. Sound(y)
    BY <1>1, StepSound
<1> HIDE DEF y
<1>3. Sound(z)
    BY <1>2 DEF Sound
<1> HIDE DEF z
<1>4. Sound(luaD_call(z, s.top, 1))
    BY <1>3, CallSound
<1> QED
    BY <1>4 DEF lua_call, x, y, z

LEMMA DoneSound ==
    ASSUME Sound(L)
    PROVE  Sound(Done)
BY DEF Sound, Done

LEMMA ForeachiSound ==
    ASSUME Sound(L), Foreachi
    PROVE  Sound(L')
<1>1. ASSUME NEW vs PROVE Sound(CReturn(L, vs)) /\ Sound(CReturn(Done, vs))
    BY DoneSound, StepSound
<1>2. ASSUME NEW c, NEW f, NEW args PROVE Sound(lua_call(L, c, f, args)) /\ Sound(lua_call(Done, c, f, args))
    BY DoneSound, LuaCallSound
<1> QED
    BY <1>1, <1>2 DEF Foreachi

LEMMA GsubSound ==
    ASSUME Sound(L), GsubMatch \/ GsubReplace
    PROVE  Sound(L')
<1>1. ASSUME NEW msg, NEW c, NEW vs
      PROVE  Sound(Throw(L, msg)) /\ Sound(SetC(L, c)) /\ Sound(SetC(Done, c)) /\ Sound(CReturn(L, vs))
    BY DoneSound, StepSound
<1>2. ASSUME NEW found, NEW news PROVE Sound(AddString(found, news))
    BY <1>1 DEF AddString
<1>3. ASSUME NEW found, NEW args PROVE Sound(AskFunction(found, args))
    BY <1>1, LuaCallSound DEF AskFunction
<1>4. ASSUME NEW found, NEW key PROVE Sound(AskTable(found, key))
  <2> DEFINE s == [SetC(L, found) EXCEPT !.top = @ + 1]
  <2>1. Sound(s)
      BY <1>1 DEF Sound
  <2> HIDE DEF s
  <2>2. Sound(luaV_gettable(s, found.repl, key.r[1], L.top))
      BY <2>1, GettableSound
  <2> QED
      BY <1>1, <2>2 DEF AskTable, s
<1>5. ASSUME NEW found, NEW m PROVE Sound(add_value(found, m))
    BY <1>2, <1>3, <1>4 DEF add_value
<1>6. ASSUME NEW m PROVE Sound(AfterMatch(m))
    BY <1>1, <1>5 DEF AfterMatch
<1>7. ASSUME GsubMatch PROVE Sound(L')
    BY <1>1, <1>6, <1>7 DEF GsubMatch
<1>8. ASSUME GsubReplace PROVE Sound(L')
    BY <1>1, <1>8 DEF GsubReplace
<1> QED
    BY <1>7, <1>8

\* A sort changes the table only by storing in it.
LEMMA AuxsortSound ==
    ASSUME NEW s, Sound(s), NEW c, NEW yes
    PROVE  Sound(auxsort(s, c, yes).s)
<1>1. ASSUME NEW x, NEW d, NEW at, NEW v, NEW w
      PROVE  Compares(x, d, at, v, w).s = x /\ Ends(x, d, at).s = x
    BY DEF Compares, Ends
<1>2. ASSUME NEW x, NEW d PROVE SortPart(x, d).s = x /\ SortRest(x, d).s = x
  <2>1. ASSUME NEW e PROVE SortPart(x, e).s = x
      BY <1>1 DEF SortPart, SortEnds
  <2> QED
      BY <2>1 DEF SortRest
<1>3. ASSUME NEW x, NEW d PROVE SortUp(x, d).s = x /\ SortDown(x, d).s = x
    BY <1>1 DEF SortUp, SortDown
<1>4. ASSUME NEW x, Sound(x), NEW d, NEW i, NEW v, NEW j, NEW w
      PROVE  Sound(set2(x, d, i, v, j, w))
    BY <1>4, StoresSound
<1>5. ASSUME NEW x, Sound(x), NEW d PROVE Sound(SortPivot(x, d).s)
    BY <1>2, <1>3, <1>4, <1>5 DEF SortPivot
<1>6. ASSUME NEW x, Sound(x), NEW d PROVE Sound(SortHalves(x, d).s)
  <2>1. ASSUME NEW y, NEW e PROVE Halves(y, e).s = y
      BY <1>2 DEF Halves
  <2> QED
      BY <1>4, <1>6, <2>1 DEF SortHalves
<1> DEFINE ends == IF yes THEN set2(s, c, c.l, c.x, c.u, c.y) ELSE s
<1>7. Sound(ends)
    BY <1>4
<1> HIDE DEF ends
<1>8. ASSUME NEW d, NEW e, NEW i, NEW v, NEW j, NEW w, NEW z
      PROVE  /\ Sound(SortPivot(set2(s, d, i, v, j, w), e).s)
             /\ Sound(SortPivot(IF z THEN set2(s, d, i, v, j, w) ELSE s, e).s)
    BY <1>4, <1>5
<1>9. CASE c.at = "begin"
    BY <1>2, <1>9 DEF auxsort
<1>10. CASE c.at = "ends"
    BY <1>1, <1>2, <1>7, <1>10 DEF auxsort, ends
<1>11. CASE c.at = "middle"
    BY <1>1, <1>8, <1>11 DEF auxsort
<1>12. CASE c.at = "top"
    BY <1>8, <1>12 DEF auxsort
<1>13. CASE c.at = "up"
  <2> DEFINE down == SortDown(s, [c EXCEPT !.a = c.x])
             up == SortUp(s, c)
             end == Ends(s, c, "invalid order function")
  <2>1. auxsort(s, c, yes) = CASE yes /\ c.i > c.u -> end
                               [] yes /\ c.i <= c.u -> up
                               [] OTHER -> down
      BY <1>13 DEF auxsort
  <2>2. end.s = s /\ up.s = s
      BY <1>1, <1>3
  <2>3. down.s = s
      BY <1>3
  <2> HIDE DEF down, up, end
  <2> QED
      BY <2>1, <2>2, <2>3
<1>14. CASE c.at \notin {"begin", "ends", "middle", "top", "up"}
  <2> DEFINE up == SortUp(set2(s, c, c.i, c.y, c.j, c.a), c)
             end == Ends(s, c, "invalid order function")
  <2>1. auxsort(s, c, yes) = CASE yes /\ c.j < c.l -> end
                               [] yes /\ c.j >= c.l -> SortDown(s, c)
                               [] OTHER -> IF c.j < c.i THEN SortHalves(s, c) ELSE up
      BY <1>14 DEF auxsort
  <2>2. up.s = set2(s, c, c.i, c.y, c.j, c.a) /\ end.s = s
    <3>1. ASSUME NEW x PROVE SortUp(x, c).s = x
        BY <1>3
    <3>2. Ends(s, c, "invalid order function").s = s
        BY <1>1
    <3> QED
        BY <3>1, <3>2
  <2>3. Sound(SortDown(s, c).s) /\ Sound(SortHalves(s, c).s)
      BY <1>3, <1>6
  <2>4. Sound(set2(s, c, c.i, c.y, c.j, c.a))
      BY <1>4
  <2> HIDE DEF up, end
  <2> QED
      BY <2>1, <2>2, <2>3, <2>4
<1> QED
    BY <1>9, <1>10, <1>11, <1>12, <1>13, <1>14

LEMMA SortSound ==
    ASSUME Sound(L), AuxSort
    PROVE  Sound(L')
<1>1. ASSUME NEW s, Sound(s), NEW c PROVE Sound(sort_comp(s, c))
  <2> DEFINE made == [SetC(s, c) EXCEPT !.top = @ + 1]
             less == luaV_lessthan(made, c.x, c.y, StoreAt(s.top))
  <2>1. Sound(SetC(s, c))
      BY <1>1, StepSound
  <2>2. Sound(made)
      BY <2>1 DEF Sound
  <2> HIDE DEF made
  <2>3. Sound(less.s)
      BY <2>2, LessSound
  <2>4. Sound(lua_call(s, c, c.f, <<c.x, c.y>>))
      BY <1>1, LuaCallSound
  <2> HIDE DEF less
  <2>5. ASSUME NEW v PROVE Sound(Set(less.s, s.top, v))
      BY <2>3, StepSound
  <2> QED
      BY <2>3, <2>4, <2>5 DEF sort_comp, made, less
<1> DEFINE begin == C.at = "begin"
           next == auxsort(IF begin THEN L ELSE Done, C, ~begin /\ ~IsFalse(Result))
<1>2. Sound(next.s)
    BY DoneSound, AuxsortSound
<1>3. L' = CASE next.c.at = "sorted" -> CReturn(next.s, <<>>)
             [] next.c.at = "invalid order function" -> Throw(L, next.c.at)
             [] OTHER -> sort_comp(next.s, next.c)
    BY DEF AuxSort
<1> HIDE DEF next
<1>4. ASSUME NEW msg PROVE Sound(Throw(L, msg)) /\ Sound(CReturn(next.s, <<>>)) /\ Sound(sort_comp(next.s, next.c))
    BY <1>1, <1>2, StepSound
<1> QED
    BY <1>3, <1>4

LEMMA LibNextSound ==
    ASSUME IInv, [LibNext]_vars
    PROVE  IInv'
<1> USE DEF IInv, Sound
<1>1. CASE [Next]_vars
    BY <1>1, NextSound
<1>2. CASE LibraryCall
  <2>1. ASSUME NEW f, NEW args PROVE Sound(AfterC(Library(f, L, args)))
      BY LibrarySound, AfterCSound
  <2> QED
      BY <1>2, <2>1 DEF LibraryCall
<1>3. CASE Foreachi
    BY <1>3, ForeachiSound
<1>4. CASE GsubMatch \/ GsubReplace
    BY <1>4, GsubSound
<1>5. CASE AuxSort
    BY <1>5, SortSound
<1> QED
    BY <1>1, <1>2, <1>3, <1>4, <1>5 DEF LibNext

-----------------------------------------------------------------------------
(* Sequences of frames.                                                    *)

LEMMA SeqLen ==
    ASSUME NEW q, IsSeq(q)
    PROVE  Len(q) \in Nat /\ DOMAIN q = 1..Len(q) /\ q = [i \in 1..Len(q) |-> q[i]]
<1>1. PICK n \in Nat : DOMAIN q = 1..n /\ q = [i \in 1..n |-> q[i]]
    BY DEF IsSeq
<1> DEFINE S == {q[i] : i \in 1..n}
<1>2. q \in [1..n -> S]
    BY <1>1
<1>3. Len(q) = n
    BY <1>2
<1> QED
    BY <1>1, <1>3

LEMMA SeqBuilt ==
    ASSUME NEW n \in Nat, NEW q, DOMAIN q = 1..n, q = [i \in 1..n |-> q[i]]
    PROVE  IsSeq(q) /\ Len(q) = n
<1>1. IsSeq(q)
    BY DEF IsSeq
<1>2. 1..n = 1..Len(q) /\ Len(q) \in Nat
    BY <1>1, SeqLen
<1> QED
    BY <1>1, <1>2

LEMMA SeqCut ==
    ASSUME NEW q, IsSeq(q), NEW m \in 0..Len(q)
    PROVE  /\ IsSeq(SubSeq(q, 1, m)) /\ Len(SubSeq(q, 1, m)) = m
           /\ \A i \in 1..m : SubSeq(q, 1, m)[i] = q[i]
<1> DEFINE S == {q[i] : i \in 1..Len(q)}
           r == SubSeq(q, 1, m)
<1>1. Len(q) \in Nat /\ DOMAIN q = 1..Len(q) /\ q = [i \in 1..Len(q) |-> q[i]]
    BY SeqLen
<1>2. q \in [1..Len(q) -> S]
    BY <1>1
<1>3. q \in Seq(S)
    BY <1>1, <1>2
<1>4. DOMAIN r = 1..m /\ \A i \in 1..m : r[i] = q[i]
    BY <1>1, <1>3
<1>5. r = [i \in 1..m |-> r[i]]
  <2>1. r \in Seq(S)
    <3>1. \A i \in 1..m : q[i] \in S
        BY <1>1
    <3> HIDE DEF S
    <3> QED
        BY <1>1, <1>3, <3>1
  <2>2. PICK n \in Nat : r \in [1..n -> S]
    <3> HIDE DEF S, r
    <3>1. Seq(S) = UNION {[1..n -> S] : n \in Nat}
        BY SeqDef
    <3> QED
        BY <2>1, <3>1
  <2> QED
      BY <2>2, <1>4
<1> HIDE DEF r
<1>6. m \in Nat
    BY <1>1
<1> QED
    BY <1>4, <1>5, <1>6, SeqBuilt DEF r

LEMMA SeqPush ==
    ASSUME NEW q, IsSeq(q), NEW e
    PROVE  /\ IsSeq(Append(q, e)) /\ Len(Append(q, e)) = Len(q) + 1
           /\ \A i \in 1..Len(q) : Append(q, e)[i] = q[i]
           /\ Append(q, e)[Len(q) + 1] = e
<1> DEFINE S == {q[i] : i \in 1..Len(q)} \cup {e}
<1>1. Len(q) \in Nat /\ DOMAIN q = 1..Len(q) /\ q = [i \in 1..Len(q) |-> q[i]]
    BY SeqLen
<1>2. q \in [1..Len(q) -> S]
    BY <1>1
<1>3. q \in Seq(S) /\ e \in S
    BY <1>1, <1>2
<1>4. IsSeq(Append(q, e))
    BY AppendSeq
<1> QED
    BY <1>1, <1>3, <1>4

-----------------------------------------------------------------------------
(* Frames that agree with the C code that runs between them.               *)

IsFrame(f) == {"nresults", "fresh", "k", "c"} \subseteq DOMAIN f /\ "op" \in DOMAIN f.c
Waits(f) == f.k # NoK \/ f.c # NoK
Agree(q, i) == /\ q[i + 1].fresh <=> (i = 1 \/ Waits(q[i]))
               /\ q[i + 1].fresh /\ i > 1 => LeavesWhat(q[i], q[i + 1].nresults)
FromC(q) == {i \in DOMAIN q : q[i].fresh}

FramesOK(q) ==
  /\ IsSeq(q) /\ Len(q) >= 1 /\ q[1].k = NoK
  /\ \A i \in 1..Len(q) : IsFrame(q[i])
  /\ \A i \in 1..(Len(q) - 1) : Agree(q, i)
  /\ Cardinality(FromC(q)) < LUAI_MAXCCALLS

LEMMA FromCFinite ==
    ASSUME NEW q, IsSeq(q)
    PROVE  IsFiniteSet(FromC(q)) /\ Cardinality(FromC(q)) \in Nat
<1>1. Len(q) \in Nat /\ DOMAIN q = 1..Len(q)
    BY SeqLen
<1>2. IsFiniteSet(1..Len(q)) /\ FromC(q) \in SUBSET (1..Len(q))
    BY <1>1, FS_Interval DEF FromC
<1> QED
    BY <1>2, FS_Subset, FS_CardinalityType

\* Frames change in what is not seen here, the last one also in what the C
\* code of its function is doing.
LEMMA FramesAlike ==
    ASSUME NEW q, FramesOK(q), NEW r, IsSeq(r), Len(r) = Len(q), r[1].k = NoK,
           \A i \in 1..Len(q) : IsFrame(r[i]) /\ r[i].fresh = q[i].fresh /\ r[i].nresults = q[i].nresults,
           \A i \in 1..(Len(q) - 1) : r[i].k = q[i].k /\ r[i].c = q[i].c
    PROVE  FramesOK(r)
<1>1. /\ Len(q) \in Nat /\ DOMAIN q = 1..Len(q) /\ DOMAIN r = 1..Len(q)
    BY SeqLen DEF FramesOK
<1>2. FromC(r) = FromC(q)
    BY <1>1 DEF FromC
<1>3. ASSUME NEW i \in 1..(Len(q) - 1) PROVE Agree(r, i)
  <2>1. Agree(q, i)
      BY DEF FramesOK
  <2>2. /\ r[i + 1].fresh = q[i + 1].fresh /\ r[i + 1].nresults = q[i + 1].nresults
        /\ r[i].k = q[i].k /\ r[i].c = q[i].c
      BY <1>1
  <2> QED
      BY <2>1, <2>2 DEF Agree, Waits, LeavesWhat
<1> QED
    BY <1>1, <1>2, <1>3 DEF FramesOK

LEMMA FramesCut ==
    ASSUME NEW q, FramesOK(q), NEW m \in 1..Len(q)
    PROVE  FramesOK(SubSeq(q, 1, m)) /\ Len(SubSeq(q, 1, m)) = m
<1> DEFINE r == SubSeq(q, 1, m)
<1>1. /\ IsSeq(q) /\ Len(q) \in Nat /\ DOMAIN q = 1..Len(q) /\ m \in 0..Len(q)
    BY SeqLen DEF FramesOK
<1>2. IsSeq(r) /\ Len(r) = m /\ \A i \in 1..m : r[i] = q[i]
    BY <1>1, SeqCut
<1>3. DOMAIN r = 1..m
    BY <1>2, SeqLen
<1> HIDE DEF r
<1>4. ASSUME NEW i \in 1..(m - 1) PROVE Agree(r, i)
  <2>1. Agree(q, i) /\ r[i] = q[i] /\ r[i + 1] = q[i + 1]
      BY <1>1, <1>2 DEF FramesOK
  <2> QED
      BY <2>1 DEF Agree
<1>5. Cardinality(FromC(r)) < LUAI_MAXCCALLS
  <2>1. FromC(r) \subseteq FromC(q)
      BY <1>1, <1>2, <1>3 DEF FromC
  <2>2. Cardinality(FromC(r)) <= Cardinality(FromC(q))
      BY <1>1, <2>1, FromCFinite, FS_Subset
  <2>3. Cardinality(FromC(r)) \in Nat /\ Cardinality(FromC(q)) \in Nat
      BY <1>1, <1>2, FromCFinite
  <2> QED
      BY <2>2, <2>3, OpsAssumption DEF FramesOK
<1>6. /\ r[1] = q[1] /\ \A i \in 1..m : IsFrame(r[i])
    BY <1>1, <1>2 DEF FramesOK
<1>7. FramesOK(r)
    BY <1>1, <1>2, <1>4, <1>5, <1>6 DEF FramesOK
<1> QED
    BY <1>2, <1>7 DEF r

LEMMA FramesPush ==
    ASSUME NEW q, FramesOK(q), NEW f, IsFrame(f),
           f.fresh <=> (Len(q) = 1 \/ Waits(q[Len(q)])),
           f.fresh /\ Len(q) > 1 => LeavesWhat(q[Len(q)], f.nresults),
           f.fresh => Cardinality(FromC(q)) + 1 < LUAI_MAXCCALLS
    PROVE  FramesOK(Append(q, f))
<1> DEFINE r == Append(q, f)
           n == Len(q)
<1>1. IsSeq(q) /\ n \in Nat /\ n >= 1 /\ DOMAIN q = 1..n
    BY SeqLen DEF FramesOK
<1>2. IsSeq(r) /\ Len(r) = n + 1 /\ r[n + 1] = f /\ \A i \in 1..n : r[i] = q[i]
    BY <1>1, SeqPush
<1>3. DOMAIN r = 1..n + 1
    BY <1>2, SeqLen
<1> HIDE DEF r, n
<1>4. ASSUME NEW i \in 1..n PROVE Agree(r, i)
  <2>1. CASE i = n
      BY <2>1, <1>1, <1>2 DEF Agree, n
  <2>2. CASE i \in 1..(n - 1)
    <3>1. Agree(q, i) /\ r[i] = q[i] /\ r[i + 1] = q[i + 1]
        BY <2>2, <1>1, <1>2 DEF FramesOK, n
    <3> QED
        BY <3>1 DEF Agree
  <2> QED
      BY <1>1, <2>1, <2>2
<1>5. Cardinality(FromC(r)) < LUAI_MAXCCALLS
  <2>1. CASE f.fresh
    <3>1. FromC(r) = FromC(q) \cup {n + 1} /\ n + 1 \notin FromC(q)
        BY <2>1, <1>1, <1>2, <1>3 DEF FromC
    <3>2. Cardinality(FromC(r)) = Cardinality(FromC(q)) + 1
        BY <1>1, <3>1, FromCFinite, FS_AddElement
    <3> QED
        BY <2>1, <3>2
  <2>2. CASE ~f.fresh
    <3>1. FromC(r) = FromC(q)
        BY <2>2, <1>1, <1>2, <1>3 DEF FromC
    <3> QED
        BY <3>1 DEF FramesOK
  <2> QED
      BY <2>1, <2>2
<1>6. r[1] = q[1] /\ \A i \in 1..(n + 1) : IsFrame(r[i])
    BY <1>1, <1>2 DEF FramesOK, n
<1>7. FramesOK(r)
  <2>1. r[1].k = NoK
      BY <1>6 DEF FramesOK
  <2> QED
      BY <1>1, <1>2, <1>4, <1>5, <1>6, <2>1 DEF FramesOK
<1> QED
    BY <1>7 DEF r

-----------------------------------------------------------------------------
(* States whose frames are so.                                             *)

Nested(s) == "ci" \in DOMAIN s /\ FramesOK(s.ci)
Inside(s) == Nested(s) /\ Len(s.ci) > 1

\* What does not touch the frames.
Kept(s, r) == "ci" \in DOMAIN r /\ r.ci = s.ci

LEMMA KeptNested ==
    ASSUME NEW s, NEW r, Kept(s, r)
    PROVE  (Nested(s) => Nested(r)) /\ (Inside(s) => Inside(r))
BY DEF Kept, Nested, Inside

LEMMA PutKept ==
    ASSUME NEW s, "ci" \in DOMAIN s, NEW i, NEW v, NEW vs
    PROVE  Kept(s, Put(s, i, vs)) /\ Kept(s, Set(s, i, v))
BY DEF Kept, Put, Set, Tuple

LEMMA CloseKept ==
    ASSUME NEW s, "ci" \in DOMAIN s, NEW from
    PROVE  Kept(s, luaF_close(s, from))
BY DEF Kept, luaF_close, Tuple

LEMMA FieldsKept ==
    ASSUME NEW s, "ci" \in DOMAIN s, NEW x
    PROVE  /\ Kept(s, [s EXCEPT !.top = x]) /\ Kept(s, [s EXCEPT !.err = x])
           /\ Kept(s, [s EXCEPT !.tabs = x]) /\ Kept(s, CiTop(s))
BY DEF Kept, CiTop

LEMMA TablesKept ==
    ASSUME NEW s, "ci" \in DOMAIN s, NEW t, NEW key, NEW v
    PROVE  /\ Kept(s, RawSet(s, t, key, v)) /\ Kept(s, NewTable(s, v)) /\ Kept(s, luaT_gettm(s, t, key))
           /\ Kept(s, [s EXCEPT !.tabs[t].meta = v])
BY DEF Kept, RawSet, NewTable, luaT_gettm

LEMMA LastFrame ==
    ASSUME NEW s, Nested(s)
    PROVE  /\ Ci(s) = s.ci[Len(s.ci)] /\ IsFrame(Ci(s))
           /\ Len(s.ci) \in Nat /\ Len(s.ci) >= 1 /\ DOMAIN s.ci = 1..Len(s.ci)
<1>1. Len(s.ci) \in Nat /\ Len(s.ci) >= 1 /\ DOMAIN s.ci = 1..Len(s.ci)
    BY SeqLen DEF Nested, FramesOK
<1>2. Ci(s) = s.ci[Len(s.ci)]
    BY DEF Ci, Last
<1> QED
    BY <1>1, <1>2 DEF Nested, FramesOK

\* The last frame changes.
LEMMA FrameChanged ==
    ASSUME NEW s, Inside(s), NEW f, IsFrame(f), f.fresh = Ci(s).fresh, f.nresults = Ci(s).nresults,
           NEW r, "ci" \in DOMAIN r, r.ci = [s.ci EXCEPT ![Len(s.ci)] = f]
    PROVE  Inside(r) /\ Len(r.ci) = Len(s.ci) /\ Ci(r) = f
<1> DEFINE n == Len(s.ci)
           q == s.ci
           p == r.ci
<1>1. n \in Nat /\ n > 1 /\ DOMAIN q = 1..n /\ Ci(s) = q[n] /\ IsSeq(q) /\ FramesOK(q)
    BY LastFrame DEF Inside, Nested, FramesOK
<1>2. DOMAIN p = 1..n /\ p = [i \in 1..n |-> p[i]] /\ p[n] = f /\ \A i \in 1..(n - 1) : p[i] = q[i]
    BY <1>1
<1>3. IsSeq(p) /\ Len(p) = n
    BY <1>1, <1>2, SeqBuilt
<1>4. p[1].k = NoK
    BY <1>1, <1>2 DEF FramesOK
<1>5. ASSUME NEW i \in 1..n
      PROVE  IsFrame(p[i]) /\ p[i].fresh = q[i].fresh /\ p[i].nresults = q[i].nresults
  <2>1. CASE i = n
      BY <2>1, <1>1, <1>2
  <2>2. CASE i \in 1..(n - 1)
      BY <2>2, <1>1, <1>2 DEF FramesOK
  <2> QED
      BY <1>1, <2>1, <2>2
<1>6. \A i \in 1..(n - 1) : p[i].k = q[i].k /\ p[i].c = q[i].c
    BY <1>2
<1> HIDE DEF p, q, n
<1>7. FramesOK(p)
    BY <1>1, <1>3, <1>4, <1>5, <1>6, FramesAlike DEF n
<1>8. Nested(r) /\ Len(p) > 1
    BY <1>1, <1>3, <1>7 DEF Nested, p
<1>9. Ci(r) = p[n]
    BY <1>3, <1>8, LastFrame DEF p
<1> QED
    BY <1>2, <1>3, <1>8, <1>9 DEF Inside, p, n

LEMMA NoKHasOp == "op" \in DOMAIN NoK
BY DEF NoK

LEMMA FrameEdits ==
    ASSUME NEW s, Inside(s), NEW k, NEW c, "op" \in DOMAIN c, NEW n
    PROVE  /\ Inside(SetK(s, k)) /\ Ci(SetK(s, k)).k = k /\ Ci(SetK(s, k)).c = Ci(s).c
           /\ Inside(SetC(s, c)) /\ Ci(SetC(s, c)).c = c /\ Ci(SetC(s, c)).k = Ci(s).k
           /\ Inside(Jump(s, n)) /\ Ci(Jump(s, n)).k = Ci(s).k /\ Ci(Jump(s, n)).c = Ci(s).c
           /\ Len(SetK(s, k).ci) = Len(s.ci) /\ Len(SetC(s, c).ci) = Len(s.ci) /\ Len(Jump(s, n).ci) = Len(s.ci)
<1> DEFINE i == Len(s.ci)
           f == s.ci[i]
           fk == [f EXCEPT !.k = k]
           fc == [f EXCEPT !.c = c]
           fp == [f EXCEPT !.pc = @ + n]
<1>1. "ci" \in DOMAIN s /\ f = Ci(s) /\ IsFrame(f) /\ i \in DOMAIN s.ci
    BY LastFrame DEF Inside, Nested
<1>2. /\ IsFrame(fk) /\ fk.k = k /\ fk.c = f.c /\ fk.fresh = f.fresh /\ fk.nresults = f.nresults
      /\ IsFrame(fc) /\ fc.c = c /\ fc.k = f.k /\ fc.fresh = f.fresh /\ fc.nresults = f.nresults
      /\ IsFrame(fp) /\ fp.k = f.k /\ fp.c = f.c /\ fp.fresh = f.fresh /\ fp.nresults = f.nresults
  <2> HIDE DEF f
  <2> QED
      BY <1>1 DEF IsFrame
<1>3. /\ "ci" \in DOMAIN SetK(s, k) /\ SetK(s, k).ci = [s.ci EXCEPT ![i] = fk]
      /\ "ci" \in DOMAIN SetC(s, c) /\ SetC(s, c).ci = [s.ci EXCEPT ![i] = fc]
      /\ "ci" \in DOMAIN Jump(s, n) /\ Jump(s, n).ci = [s.ci EXCEPT ![i] = fp]
    BY <1>1 DEF SetK, SetC, Jump
<1> HIDE DEF fk, fc, fp, f, i
<1>4. Inside(SetK(s, k)) /\ Len(SetK(s, k).ci) = i /\ Ci(SetK(s, k)) = fk
    BY <1>1, <1>2, <1>3, FrameChanged DEF i
<1>5. Inside(SetC(s, c)) /\ Len(SetC(s, c).ci) = i /\ Ci(SetC(s, c)) = fc
    BY <1>1, <1>2, <1>3, FrameChanged DEF i
<1>6. Inside(Jump(s, n)) /\ Len(Jump(s, n).ci) = i /\ Ci(Jump(s, n)) = fp
    BY <1>1, <1>2, <1>3, FrameChanged DEF i
<1> QED
    BY <1>1, <1>2, <1>4, <1>5, <1>6 DEF i

-----------------------------------------------------------------------------
(* Returns, errors and calls.                                              *)

LEMMA PoscallNested ==
    ASSUME NEW s, Inside(s), NEW results
    PROVE  Nested(luaD_poscall(s, results))
<1> DEFINE r == luaD_poscall(s, results)
<1>1. Len(s.ci) \in Nat /\ Len(s.ci) > 1 /\ FramesOK(s.ci) /\ "ci" \in DOMAIN s
    BY LastFrame DEF Inside, Nested
<1>2. "ci" \in DOMAIN r /\ r.ci = SubSeq(s.ci, 1, Len(s.ci) - 1)
    BY <1>1 DEF luaD_poscall, Put, Tuple, Front
<1>3. FramesOK(SubSeq(s.ci, 1, Len(s.ci) - 1))
    BY <1>1, FramesCut
<1> QED
    BY <1>2, <1>3 DEF Nested

LEMMA CReturnNested ==
    ASSUME NEW s, Inside(s), NEW results
    PROVE  Nested(CReturn(s, results))
<1> DEFINE r == luaD_poscall(s, results)
<1>1. Nested(r)
    BY PoscallNested
<1> HIDE DEF r
<1>2. Kept(r, CiTop(r))
    BY <1>1, FieldsKept DEF Nested
<1>3. Nested(CiTop(r))
    BY <1>1, <1>2, KeptNested
<1> QED
    BY <1>1, <1>3 DEF CReturn, Restored, r

LEMMA ThrowNested ==
    ASSUME NEW s, Nested(s), NEW msg
    PROVE  Nested(Throw(s, msg))
<1> DEFINE at == {i \in DOMAIN s.ci : s.ci[i].k.op = "pcall"}
           i  == CHOOSE x \in at : \A y \in at : y <= x
           shut == luaF_close(s, s.ci[i].base)
           back == [shut EXCEPT !.ci = SubSeq(@, 1, i)]
<1>1. "ci" \in DOMAIN s /\ Len(s.ci) \in Nat /\ DOMAIN s.ci = 1..Len(s.ci) /\ FramesOK(s.ci)
    BY LastFrame DEF Nested
<1>2. Nested([s EXCEPT !.err = msg])
    BY <1>1, FieldsKept, KeptNested
<1>3. ASSUME at # {} PROVE Nested(CReturn(back, <<False, <<"string", msg>>>>))
  <2>1. at \in SUBSET Nat /\ \A y \in at : y <= Len(s.ci)
      BY <1>1
  <2>2. i \in at
    <3> HIDE DEF at
    <3>1. \E x \in at : \A y \in at : y <= x
        BY <1>1, <1>3, <2>1, Largest
    <3> QED
        BY <3>1
  <2> HIDE DEF i
  <2>3. i \in 1..Len(s.ci) /\ i # 1
    <3>1. s.ci[1].k.op = "none"
        BY <1>1 DEF FramesOK, NoK
    <3> QED
        BY <1>1, <2>2, <3>1
  <2>4. Kept(s, shut)
      BY <1>1, CloseKept
  <2> HIDE DEF shut
  <2>5. "ci" \in DOMAIN back /\ back.ci = SubSeq(s.ci, 1, i)
      BY <2>4 DEF Kept
  <2> HIDE DEF back
  <2>6. Inside(back)
      BY <1>1, <2>3, <2>5, FramesCut DEF Inside, Nested
  <2> QED
      BY <2>6, CReturnNested
<1> QED
    BY <1>2, <1>3 DEF Throw

LEMMA CallBaseKept ==
    ASSUME NEW f, NEW s, "ci" \in DOMAIN s, NEW args
    PROVE  Kept(s, CallBase(f, s, args).s) /\ "op" \in DOMAIN CallBase(f, s, args).c
<1> DEFINE Keeps(r) == Kept(s, r.s) /\ "op" \in DOMAIN r.c
<1>1. ASSUME NEW r, Kept(s, r), NEW vs PROVE Keeps(Results(r, vs))
    BY <1>1 DEF Results, NoK
<1>2. ASSUME NEW msg PROVE Keeps(Failure(s, msg))
    BY DEF Failure, NoK, Kept
<1>3. ASSUME NEW name PROVE Keeps(CallsBack(s, [op |-> name]))
    BY DEF CallsBack, Kept
<1>4. Kept(s, s)
    BY DEF Kept
<1> HIDE DEF Keeps
<1>5. Keeps(luaB_setmetatable(s, args))
  <2>1. ASSUME NEW t, NEW v, NEW vs PROVE Keeps(Results([s EXCEPT !.tabs[t].meta = v], vs))
    <3>1. Kept(s, [s EXCEPT !.tabs[t].meta = v])
        BY TablesKept
    <3> QED
        BY <3>1, <1>1
  <2> QED
      BY <1>2, <2>1 DEF luaB_setmetatable
<1>6. Keeps(luaB_rawset(s, args))
    BY <1>1, <1>2, TablesKept DEF luaB_rawset
<1>7. Keeps(luaB_select(s, args)) /\ Keeps(luaB_unpack(s, args))
    BY <1>1, <1>2, <1>4 DEF luaB_select, luaB_unpack
<1>8. Keeps(luaB_ipairs(s, args)) /\ Keeps(ipairsaux(s, args))
    BY <1>1, <1>2, <1>4 DEF luaB_ipairs, ipairsaux
<1>9. Keeps(luaB_error(s, args)) /\ Keeps(luaB_pcall(s, args))
    BY <1>2, <1>3 DEF luaB_error, luaB_pcall
<1>10. Keeps(CallBase(f, s, args))
    BY <1>3, <1>5, <1>6, <1>7, <1>8, <1>9 DEF CallBase
<1> QED
    BY <1>10 DEF Keeps

LEMMA AfterCNested ==
    ASSUME NEW r, Inside(r.s), "op" \in DOMAIN r.c
    PROVE  Nested(AfterC(r))
<1>1. Nested(Throw(r.s, r.err))
    BY ThrowNested DEF Inside
<1>2. Nested(SetC(r.s, r.c))
    BY FrameEdits DEF Inside
<1>3. Nested(CReturn(r.s, r.r))
    BY CReturnNested
<1> QED
    BY <1>1, <1>2, <1>3 DEF AfterC

\* A frame may be put on top of these.
MayEnter(s, nresults, fresh) ==
  /\ Nested(s)
  /\ fresh <=> (Len(s.ci) = 1 \/ Waits(Ci(s)))
  /\ fresh /\ Len(s.ci) > 1 => LeavesWhat(Ci(s), nresults)
  /\ fresh => Cardinality(FromC(s.ci)) + 1 < LUAI_MAXCCALLS

LEMMA MayEnterKept ==
    ASSUME NEW s, NEW r, Kept(s, r), NEW nresults, NEW fresh, MayEnter(s, nresults, fresh)
    PROVE  MayEnter(r, nresults, fresh)
<1>1. Nested(r)
    BY KeptNested DEF MayEnter
<1>2. Ci(r) = Ci(s)
    BY DEF Ci, Kept
<1> QED
    BY <1>1, <1>2 DEF MayEnter, Kept

LEMMA Entered ==
    ASSUME NEW s, NEW nresults, NEW fresh, MayEnter(s, nresults, fresh),
           NEW f, IsFrame(f), f.fresh = fresh, f.nresults = nresults,
           NEW r, "ci" \in DOMAIN r, r.ci = Append(s.ci, f)
    PROVE  Inside(r)
<1>1. Ci(s) = s.ci[Len(s.ci)] /\ Len(s.ci) \in Nat /\ Len(s.ci) >= 1
    BY LastFrame DEF MayEnter
<1>2. FramesOK(r.ci)
    BY <1>1, FramesPush DEF MayEnter, Nested
<1>3. Len(r.ci) = Len(s.ci) + 1
    BY SeqPush DEF MayEnter, Nested, FramesOK
<1> QED
    BY <1>1, <1>2, <1>3 DEF Inside, Nested

LEMMA CallCNested ==
    ASSUME NEW s, NEW func, NEW nresults, NEW fresh, MayEnter(s, nresults, fresh)
    PROVE  Nested(CallC(s, func, nresults, fresh))
<1> DEFINE f == [func |-> func, base |-> func + 1, top |-> s.top, pc |-> 0,
                 nresults |-> nresults, fresh |-> fresh, k |-> NoK, c |-> NoK]
           t == EnterC(s, func, nresults, fresh)
           r == CallBase(Slot(s, func), t, Values(s, func + 1))
<1>1. "ci" \in DOMAIN t /\ t.ci = Append(s.ci, f)
    BY DEF EnterC, MayEnter, Nested
<1>2. IsFrame(f) /\ f.fresh = fresh /\ f.nresults = nresults
    BY DEF IsFrame, NoK
<1> HIDE DEF f, t
<1>3. Inside(t)
    BY <1>1, <1>2, Entered
<1>4. Kept(t, r.s) /\ "op" \in DOMAIN r.c
    BY <1>1, CallBaseKept
<1> HIDE DEF r
<1>5. Inside(r.s)
    BY <1>3, <1>4, KeptNested
<1>6. Nested(AfterC(r))
    BY <1>4, <1>5, AfterCNested
<1> QED
    BY <1>6 DEF CallC, r, t

LEMMA VarargsKept ==
    ASSUME NEW s, "ci" \in DOMAIN s, NEW p, NEW func
    PROVE  Kept(s, adjust_args(s, p, func).s)
<1>1. ASSUME NEW x, Kept(s, x), NEW i, NEW vs, NEW j, NEW ws
      PROVE  Kept(s, Put(Put(x, i, vs), j, ws))
    BY <1>1 DEF Kept, Put, Tuple
<1>2. ASSUME NEW x, Kept(s, x), NEW i, NEW vs, NEW top
      PROVE  Kept(s, [Set(x, i, vs) EXCEPT !.top = top]) /\ Kept(s, [x EXCEPT !.top = top])
    BY <1>2 DEF Kept, Set, Put, Tuple
<1>3. ASSUME NEW map PROVE Kept(s, NewTable(s, map))
    BY DEF Kept, NewTable
<1>4. Kept(s, s)
    BY DEF Kept
<1>5. Kept(s, adjust_varargs(s, p, func).s)
  <2>1. ASSUME NEW map, NEW i, NEW vs, NEW j, NEW ws, NEW m, NEW v, NEW top
        PROVE  Kept(s, [Set(Put(Put(NewTable(s, map), i, vs), j, ws), m, v) EXCEPT !.top = top])
      BY <1>1, <1>2, <1>3
  <2>2. ASSUME NEW i, NEW vs, NEW j, NEW ws, NEW top
        PROVE  Kept(s, [Put(Put(s, i, vs), j, ws) EXCEPT !.top = top])
      BY <1>1, <1>2, <1>4
  <2>3. CASE p.is_vararg >= NEEDSARG
      BY <2>1, <2>3 DEF adjust_varargs
  <2>4. CASE ~(p.is_vararg >= NEEDSARG)
      BY <2>2, <2>4 DEF adjust_varargs
  <2> QED
      BY <2>3, <2>4
<1>6. Kept(s, [s EXCEPT !.top = IF @ > func + 1 + p.numparams THEN func + 1 + p.numparams ELSE @])
    BY DEF Kept
<1> QED
    BY <1>5, <1>6 DEF adjust_args

LEMMA EnterLuaNested ==
    ASSUME NEW s, NEW func, NEW nresults, NEW fresh, MayEnter(s, nresults, fresh)
    PROVE  Inside(EnterLua(s, func, nresults, fresh))
<1> DEFINE p == ProtoOf(s.funs[Slot(s, func)[2]])
           a == adjust_args(s, p, func)
           ci == [func |-> func, base |-> 0, top |-> 0, pc |-> 0, nresults |-> nresults, fresh |-> fresh, k |-> NoK, c |-> NoK]
           f == [ci EXCEPT !.base = a.base, !.top = a.base + p.maxstacksize]
           r == Framed(a, p.maxstacksize, ci)
<1>1. Kept(s, a.s)
    BY VarargsKept DEF MayEnter, Nested
<1> HIDE DEF a
<1>2. "ci" \in DOMAIN r /\ r.ci = Append(s.ci, f)
  <2> DEFINE size == p.maxstacksize
             x == Put(a.s, a.s.top, Nils(a.base + size - a.s.top))
  <2>1. "ci" \in DOMAIN x /\ x.ci = s.ci
      BY <1>1, PutKept DEF Kept
  <2> HIDE DEF x
  <2>2. ASSUME NEW top, NEW e, NEW y, y = [x EXCEPT !.top = top, !.ci = Append(@, e)]
        PROVE  "ci" \in DOMAIN y /\ y.ci = Append(s.ci, e)
      BY <2>1, <2>2
  <2>3. r = [x EXCEPT !.top = a.base + size, !.ci = Append(@, f)]
      BY DEF Framed, x
  <2> HIDE DEF f, r
  <2> QED
      BY <2>2, <2>3
<1>3. IsFrame(f) /\ f.fresh = fresh /\ f.nresults = nresults
  <2>1. IsFrame(ci) /\ ci.fresh = fresh /\ ci.nresults = nresults
      BY DEF IsFrame, NoK
  <2> HIDE DEF ci
  <2> QED
      BY <2>1 DEF IsFrame
<1> HIDE DEF f, r
<1>4. Inside(r)
    BY <1>2, <1>3, Entered
<1> QED
    BY <1>4 DEF EnterLua, r, a

LEMMA PrecallNested ==
    ASSUME NEW s, NEW func, NEW nresults, NEW fresh, MayEnter(s, nresults, fresh)
    PROVE  Nested(luaD_precall(s, func, nresults, fresh))
<1> DEFINE t == IF IsFunction(Slot(s, func)) THEN s ELSE tryfuncTM(s, func)
<1>1. Kept(s, t)
    BY DEF tryfuncTM, Put, Tuple, Kept, MayEnter, Nested
<1>2. Nested(Throw(s, "call"))
    BY ThrowNested DEF MayEnter
<1> HIDE DEF t
<1>3. MayEnter(t, nresults, fresh)
    BY <1>1, MayEnterKept
<1>4. Nested(EnterLua(t, func, nresults, fresh)) /\ Nested(CallC(t, func, nresults, fresh))
    BY <1>3, EnterLuaNested, CallCNested DEF Inside
<1> QED
    BY <1>2, <1>4 DEF luaD_precall, t

\* luaD_call, from C code that waits for what it will leave.
LEMMA CallNested ==
    ASSUME NEW s, Nested(s), NEW func, NEW nresults,
           Len(s.ci) = 1 \/ (Waits(Ci(s)) /\ LeavesWhat(Ci(s), nresults))
    PROVE  Nested(luaD_call(s, func, nresults))
<1>1. Nested(Throw(s, "C stack overflow"))
    BY ThrowNested
<1>2. ASSUME ~(nCcalls(s) + 1 >= LUAI_MAXCCALLS) PROVE Nested(luaD_precall(s, func, nresults, TRUE))
  <2>1. nCcalls(s) = Cardinality(FromC(s.ci)) /\ nCcalls(s) \in Nat
      BY FromCFinite DEF nCcalls, FromC, Nested, FramesOK
  <2>2. Cardinality(FromC(s.ci)) + 1 < LUAI_MAXCCALLS
      BY <1>2, <2>1, OpsAssumption
  <2>3. Len(s.ci) > 1 => Len(s.ci) # 1
      BY LastFrame
  <2>4. MayEnter(s, nresults, TRUE)
      BY <2>2, <2>3 DEF MayEnter
  <2> QED
      BY <2>4, PrecallNested
<1> QED
    BY <1>1, <1>2 DEF luaD_call

-----------------------------------------------------------------------------
(* Metamethods: calls that the C code of an instruction makes.             *)

\* C code that takes one result.
TakesOne(k) == k.op \in {"store", "test", "concat"}

LEMMA TMresNested ==
    ASSUME NEW s, Inside(s), NEW tm, NEW p1, NEW p2, NEW k, TakesOne(k)
    PROVE  Nested(callTMres(s, tm, p1, p2, k))
<1> DEFINE x == Put(s, s.top, <<tm, p1, p2>>)
           y == SetK(x, k)
           z == [y EXCEPT !.top = @ + 3]
<1>1. Inside(x)
    BY PutKept, KeptNested DEF Inside, Nested
<1> HIDE DEF x
<1>2. Inside(y) /\ Ci(y).k = k
    BY <1>1, FrameEdits, NoKHasOp
<1> HIDE DEF y
<1>3. Kept(y, z)
    BY <1>2 DEF Kept, Inside, Nested
<1> HIDE DEF z
<1>4. Inside(z) /\ Ci(z).k = k
    BY <1>2, <1>3, KeptNested DEF Kept, Ci
<1>5. Waits(Ci(z)) /\ LeavesWhat(Ci(z), 1)
    BY <1>4 DEF Waits, LeavesWhat, TakesOne, NoK
<1>6. Nested(luaD_call(z, s.top, 1))
    BY <1>4, <1>5, CallNested DEF Inside
<1> QED
    BY <1>6 DEF callTMres, x, y, z

LEMMA TMNested ==
    ASSUME NEW s, Inside(s), NEW tm, NEW p1, NEW p2, NEW p3
    PROVE  Nested(callTM(s, tm, p1, p2, p3))
<1> DEFINE k == [op |-> "drop"]
           x == Put(s, s.top, <<tm, p1, p2, p3>>)
           y == SetK(x, k)
           z == [y EXCEPT !.top = @ + 4]
<1>1. Inside(x)
    BY PutKept, KeptNested DEF Inside, Nested
<1> HIDE DEF x
<1>2. Inside(y) /\ Ci(y).k = k
    BY <1>1, FrameEdits, NoKHasOp
<1> HIDE DEF y
<1>3. Kept(y, z)
    BY <1>2 DEF Kept, Inside, Nested
<1> HIDE DEF z
<1>4. Inside(z) /\ Ci(z).k = k
    BY <1>2, <1>3, KeptNested DEF Kept, Ci
<1>5. Waits(Ci(z)) /\ LeavesWhat(Ci(z), 0)
    BY <1>4 DEF Waits, LeavesWhat, NoK
<1>6. Nested(luaD_call(z, s.top, 0))
    BY <1>4, <1>5, CallNested DEF Inside
<1> QED
    BY <1>6 DEF callTM, x, y, z

LEMMA GettableNested ==
    ASSUME NEW s, Inside(s), NEW first, NEW key, NEW val
    PROVE  Nested(luaV_gettable(s, first, key, val))
<1>0. Nested(s) /\ "ci" \in DOMAIN s
    BY DEF Inside, Nested
<1>1. Nested(Throw(s, "loop")) /\ Nested(Throw(s, "index"))
    BY <1>0, ThrowNested
<1>2. ASSUME NEW v PROVE Nested(Set(s, val, v))
    BY <1>0, PutKept, KeptNested
<1>3. ASSUME NEW t PROVE Nested(Set(luaT_gettm(s, t, "__index"), val, Nil))
  <2> DEFINE r == luaT_gettm(s, t, "__index")
  <2>1. Nested(r) /\ "ci" \in DOMAIN r
      BY <1>0, TablesKept, KeptNested DEF Nested
  <2> HIDE DEF r
  <2>2. Nested(Set(r, val, Nil))
      BY <2>1, PutKept, KeptNested
  <2> QED
      BY <2>2 DEF r
<1>4. ASSUME NEW t, NEW tm PROVE Nested(callTMres(s, tm, t, key, StoreAt(val)))
    BY TMresNested DEF TakesOne, StoreAt
<1>5. ASSUME NEW t
      PROVE  LET res == Indexed(s, t, key)
                 tm == TMOf(s, t, "__index")
             IN  Nested(CASE res # Nil              -> Set(s, val, res)
                          [] res = Nil /\ tm = Nil  -> Set(luaT_gettm(s, t, "__index"), val, Nil)
                          [] res = Nil /\ tm # Nil  -> callTMres(s, tm, t, key, StoreAt(val)))
    BY <1>2, <1>3, <1>4
<1> QED
    BY <1>1, <1>5 DEF luaV_gettable

LEMMA TurnsKept ==
    ASSUME NEW s, "ci" \in DOMAIN s, NEW first, NEW key, NEW f, Turns(f, s, first, key)
    PROVE  \A n \in 0..(MAXTAGLOOP - 1) : Kept(s, f[n].s)
<1> DEFINE P == {N \in Nat : N \in 0..(MAXTAGLOOP - 1) => Kept(s, f[N].s)}
<1>0. MAXTAGLOOP \in Nat \ {0}
    BY VMAssumption
<1>1. ASSUME NEW r, Kept(s, r), NEW t PROVE Kept(s, AtObject(r, t, key).s)
    BY <1>1, TablesKept DEF AtObject, Placed, Kept
<1>2. 0 \in P
  <2>1. Kept(s, s)
      BY DEF Kept
  <2> QED
      BY <1>0, <1>1, <2>1 DEF Turns
<1>3. ASSUME NEW N \in Nat, N \in P PROVE N + 1 \in P
  <2> SUFFICES ASSUME N + 1 \in 0..(MAXTAGLOOP - 1) PROVE Kept(s, f[N + 1].s)
      OBVIOUS
  <2>1. Kept(s, f[N].s)
      BY <1>0, <1>3
  <2>2. f[N + 1] = Further(f[N], key)
      BY <1>0 DEF Turns
  <2> QED
      BY <2>1, <2>2, <1>1 DEF Further
<1> HIDE DEF P
<1>4. \A N \in Nat : N \in P
    BY <1>2, <1>3, SetInduction
<1> QED
    BY <1>4 DEF P

LEMMA SettableNested ==
    ASSUME NEW s, Inside(s), NEW first, NEW key, NEW val
    PROVE  Nested(luaV_settable(s, first, key, val))
<1> DEFINE f == CHOOSE x : Turns(x, s, first, key)
           Stops(n) == \/ ~GoesOn(f[n].s, f[n].t, key, "__newindex")
                       \/ IsTable(f[n].t) /\ ~GoodKey(key)
           last == {n \in 0..(MAXTAGLOOP - 1) : Stops(n)}
           i == CHOOSE n \in last : \A m \in last : n <= m
           set == f[i].s
           t == f[i].t
           old == Indexed(set, t, key)
           tm == TMOf(set, t, "__newindex")
<1>0. Nested(s) /\ "ci" \in DOMAIN s
    BY DEF Inside, Nested
<1>1. Turns(f, s, first, key)
    BY TurnsExist
<1>2. luaV_settable(s, first, key, val) =
        CASE last = {} -> Throw(s, "loop")
          [] last # {} /\ ~IsTable(t) -> IF tm = Nil THEN Throw(set, "index") ELSE callTM(set, tm, t, key, val)
          [] OTHER -> CASE old # Nil -> RawSet(set, t, key, val)
                        [] old = Nil /\ ~GoodKey(key) -> Throw(set, "bad key")
                        [] old = Nil /\ GoodKey(key) /\ tm = Nil -> RawSet(luaT_gettm(set, t, "__newindex"), t, key, val)
                        [] OTHER -> callTM(set, tm, t, key, val)
    BY DEF luaV_settable, Turns, Further
<1>3. last # {} => Kept(s, set)
  <2> HIDE DEF f, Stops
  <2>1. MAXTAGLOOP \in Nat
      BY VMAssumption
  <2>2. last \in SUBSET Nat /\ last \subseteq 0..(MAXTAGLOOP - 1)
      BY <2>1
  <2>3. last # {} => i \in last
    <3> HIDE DEF last
    <3> QED
        BY <2>2, Smallest
  <2> QED
      BY <1>0, <2>2, <2>3, <1>1, TurnsKept
<1> HIDE DEF f, last, i
<1>4. Nested(Throw(s, "loop"))
    BY <1>0, ThrowNested
<1> SUFFICES ASSUME last # {} PROVE Nested(luaV_settable(s, first, key, val))
    BY <1>2, <1>4
<1> HIDE DEF set
<1>5. Inside(set) /\ Nested(set) /\ "ci" \in DOMAIN set
    BY <1>3, KeptNested DEF Inside, Nested
<1>6. Nested(Throw(set, "index")) /\ Nested(Throw(set, "bad key"))
    BY <1>5, ThrowNested
<1>7. Nested(RawSet(set, t, key, val)) /\ Nested(RawSet(luaT_gettm(set, t, "__newindex"), t, key, val))
  <2> DEFINE r == luaT_gettm(set, t, "__newindex")
  <2>1. Nested(r) /\ "ci" \in DOMAIN r
      BY <1>5, TablesKept, KeptNested DEF Nested
  <2> HIDE DEF r
  <2>2. Nested(RawSet(r, t, key, val)) /\ Nested(RawSet(set, t, key, val))
      BY <1>5, <2>1, TablesKept, KeptNested
  <2> QED
      BY <2>2 DEF r
<1>8. Nested(callTM(set, tm, t, key, val))
    BY <1>5, TMNested
<1> QED
    BY <1>2, <1>6, <1>7, <1>8

LEMMA BinTMNested ==
    ASSUME NEW s, Inside(s), NEW p1, NEW p2, NEW k, TakesOne(k), NEW event, NEW msg
    PROVE  Nested(call_binTM(s, p1, p2, k, event, msg))
BY ThrowNested, TMresNested DEF call_binTM, Inside

LEMMA ArithNested ==
    ASSUME NEW s, Inside(s), NEW ra, NEW rb, NEW rc, NEW op
    PROVE  Nested(Arith(s, ra, rb, rc, op))
<1>1. ASSUME NEW v PROVE Nested(Set(s, ra, v))
    BY PutKept, KeptNested DEF Inside, Nested
<1>2. Nested(call_binTM(s, rb, rc, StoreAt(ra), EventOf[op], "arith"))
    BY BinTMNested DEF TakesOne, StoreAt
<1> QED
    BY <1>1, <1>2 DEF Arith

LEMMA ConcatNested ==
    ASSUME NEW s, Inside(s), NEW total, NEW last, NEW ra
    PROVE  Nested(luaV_concat(s, total, last, ra))
<1> DEFINE V(n)   == Slot(s, Ci(s).base + last + 1 - n)
           stops  == {n \in 1..total : ~CanStr(V(n))}
           n      == IF stops = {} THEN total ELSE (CHOOSE x \in stops : \A y \in stops : x <= y) - 1
           right  == IF n < 2 THEN V(1) ELSE Concatenated([j \in 1..n |-> V(n + 1 - j)])
           taken  == LargestOf(n, 1)
           joined == Set(s, Ci(s).base + last + 1 - taken, right)
           k      == [op |-> "concat", total |-> total - taken, last |-> last - taken, at |-> ra]
           tm     == call_binTM(joined, V(taken + 1), right, k, "__concat", "concat")
<1>1. luaV_concat(s, total, last, ra) = IF taken = total THEN Set(joined, ra, right) ELSE tm
    BY DEF luaV_concat
<1>2. Inside(joined) /\ "ci" \in DOMAIN joined
  <2> HIDE DEF right, taken
  <2> QED
      BY PutKept, KeptNested DEF Inside, Nested
<1>3. TakesOne(k)
    BY DEF TakesOne
<1> HIDE DEF joined, k, right, taken
<1>4. Nested(Set(joined, ra, right)) /\ Nested(tm)
    BY <1>2, <1>3, PutKept, KeptNested, BinTMNested DEF Inside
<1> QED
    BY <1>1, <1>4

\* A comparison is decided inside, or left to a call.
Answered(cmp) == Nested(cmp.s) /\ (~cmp.called => Inside(cmp.s))

LEMMA CompareNested ==
    ASSUME NEW s, Inside(s), NEW a, NEW b, NEW k, TakesOne(k)
    PROVE  Answered(luaV_equalval(s, a, b)) /\ Answered(luaV_lessthan(s, a, b, k)) /\ Answered(lessequal(s, a, b))
<1>1. ASSUME NEW r, Kept(s, r), NEW res PROVE Answered(Decided(r, res))
    BY <1>1, KeptNested DEF Answered, Decided, Inside
<1>2. ASSUME NEW r, Nested(r) PROVE Answered(Called(r))
    BY <1>2 DEF Answered, Called
<1>3. ASSUME NEW tm, NEW p1, NEW p2, NEW then, TakesOne(then)
      PROVE  Answered(Called(callTMres(s, tm, p1, p2, then)))
    BY <1>2, <1>3, TMresNested
<1>4. Answered(Called(Throw(s, "compare")))
    BY <1>2, ThrowNested DEF Inside
<1>5. TakesOne(ThenTest(TRUE)) /\ TakesOne(ThenTest(FALSE))
    BY DEF TakesOne, ThenTest
<1>6. Kept(s, s) /\ "ci" \in DOMAIN s
    BY DEF Kept, Inside, Nested
<1> HIDE DEF Answered
<1>7. Answered(luaV_equalval(s, a, b))
  <2> DEFINE seen1 == luaT_gettm(s, a, "__eq")
             seen2 == IF fasttm(s, a, "__eq") = Nil \/ s.tabs[a[2]].meta = s.tabs[b[2]].meta THEN seen1
                      ELSE luaT_gettm(seen1, b, "__eq")
             tm == get_compTM(s, a, b)
             x == callTMres(s, tm, a, b, ThenTest(TRUE))
             equal == RawEqual(a, b)
  <2>1. Kept(s, seen1)
      BY <1>6, TablesKept
  <2> HIDE DEF seen1
  <2>2. Kept(s, seen2)
      BY <2>1, TablesKept DEF Kept
  <2>3. luaV_equalval(s, a, b) \in {Decided(s, equal), Decided(seen2, FALSE), Called(x)}
      BY DEF luaV_equalval, seen1
  <2> HIDE DEF seen2, equal, tm
  <2>4. Answered(Decided(s, equal)) /\ Answered(Decided(seen2, FALSE)) /\ Answered(Called(x))
      BY <1>1, <1>3, <1>5, <1>6, <2>2
  <2> QED
      BY <2>3, <2>4
<1>8. Answered(luaV_lessthan(s, a, b, k))
    BY <1>1, <1>3, <1>4, <1>6 DEF luaV_lessthan
<1>9. Answered(lessequal(s, a, b))
    BY <1>1, <1>3, <1>4, <1>5, <1>6 DEF lessequal
<1> QED
    BY <1>7, <1>8, <1>9

-----------------------------------------------------------------------------
(* Instructions, and what C code does after a call.                        *)

LEMMA StepInside ==
    ASSUME NEW s, Inside(s), NEW i, NEW v, NEW vs, NEW n, NEW x
    PROVE  /\ Nested(s) /\ "ci" \in DOMAIN s
           /\ Inside(Put(s, i, vs)) /\ Inside(Set(s, i, v)) /\ Inside(luaF_close(s, i)) /\ Inside(CiTop(s))
           /\ Inside([s EXCEPT !.top = x]) /\ Inside([s EXCEPT !.tabs = x]) /\ Inside(Jump(s, n)) /\ Inside(SetK(s, NoK))
<1>1. Nested(s) /\ "ci" \in DOMAIN s
    BY DEF Inside, Nested
<1>2. Inside(Put(s, i, vs)) /\ Inside(Set(s, i, v)) /\ Inside(luaF_close(s, i))
    BY <1>1, PutKept, CloseKept, KeptNested
<1>3. Inside(CiTop(s)) /\ Inside([s EXCEPT !.top = x]) /\ Inside([s EXCEPT !.tabs = x])
    BY <1>1, FieldsKept, KeptNested
<1>4. Inside(Jump(s, n)) /\ Inside(SetK(s, NoK))
    BY FrameEdits, NoKHasOp
<1> QED
    BY <1>1, <1>2, <1>3, <1>4

LEMMA DojumpInside ==
    ASSUME NEW s, Inside(s), NEW cond
    PROVE  Inside(dojump(s, cond))
<1>1. ASSUME NEW n PROVE Inside(Jump(s, n))
    BY StepInside
<1> QED
    BY <1>1 DEF dojump

LEMMA FetchedInside ==
    ASSUME Inside(L)
    PROVE  Inside(Fetched) /\ Ci(Fetched).k = Ci(L).k /\ Ci(Fetched).c = Ci(L).c /\ Len(Fetched.ci) = Len(L.ci)
BY FrameEdits, NoKHasOp DEF Fetched

LEMMA SetupvalInside ==
    ASSUME NEW s, Inside(s), NEW u, NEW v
    PROVE  Inside(SetUpvalValue(s, u, v))
<1>1. Kept(s, [s EXCEPT !.upvals[u].v = v])
    BY DEF Inside, Nested, Kept
<1> QED
    BY <1>1, KeptNested, StepInside DEF SetUpvalValue

\* The instructions that write registers and upvalues.
LEMMA RegistersNested ==
    ASSUME Inside(L), SetsRegister \/ LoadNil \/ SetUpval
    PROVE  Inside(L')
<1>1. ASSUME SetsRegister PROVE Inside(L')
  <2>1. ASSUME NEW v, NEW n PROVE Inside(Jump(Set(Fetched, RA, v), n))
      BY FetchedInside, StepInside
  <2> QED
      BY <1>1, <2>1 DEF SetsRegister
<1>2. ASSUME LoadNil PROVE Inside(L')
    BY <1>2, FetchedInside, StepInside DEF LoadNil
<1>3. ASSUME SetUpval PROVE Inside(L')
    BY <1>3, FetchedInside, SetupvalInside DEF SetUpval
<1> QED
    BY <1>1, <1>2, <1>3

\* The instructions on tables.
LEMMA TableOpsNested ==
    ASSUME Inside(L), GetTable \/ SetTable \/ NewTableOp
    PROVE  Nested(L')
<1>1. ASSUME GetTable PROVE Nested(L')
  <2> DEFINE self == Set(Fetched, RA + 1, R(I.b))
  <2>1. Inside(Fetched) /\ Inside(self)
      BY FetchedInside, StepInside
  <2>2. ASSUME NEW t, NEW key PROVE Nested(luaV_gettable(Fetched, t, key, RA)) /\ Nested(luaV_gettable(self, t, key, RA))
      BY <2>1, GettableNested
  <2> HIDE DEF self
  <2>3. /\ I.op \in {"GETGLOBAL", "GETTABLE", "SELF"}
        /\ L' = CASE I.op = "GETGLOBAL" -> luaV_gettable(Fetched, Globals, K(I.b), RA)
                  [] I.op = "GETTABLE"  -> luaV_gettable(Fetched, R(I.b), RK(I.c), RA)
                  [] I.op = "SELF"      -> luaV_gettable(self, R(I.b), RK(I.c), RA)
      BY <1>1 DEF GetTable, Executes, self
  <2> QED
      BY <2>2, <2>3
<1>2. ASSUME SetTable PROVE Nested(L')
    BY <1>2, FetchedInside, SettableNested DEF SetTable
<1>3. ASSUME NewTableOp PROVE Nested(L')
  <2> DEFINE t == NewTable(Fetched, [x \in {} |-> Nil])
  <2>1. Inside(t)
    <3>1. Kept(Fetched, t)
        BY FetchedInside, TablesKept DEF Inside, Nested
    <3> QED
        BY <3>1, FetchedInside, KeptNested
  <2>2. L' = Set(t, RA, LastTable(t))
      BY <1>3 DEF NewTableOp
  <2> HIDE DEF t
  <2> QED
      BY <2>1, <2>2, StepInside DEF Inside
<1> QED
    BY <1>1, <1>2, <1>3

\* The operators.
LEMMA OperatorsNested ==
    ASSUME Inside(L), ArithOp \/ Length \/ Concat
    PROVE  Nested(L')
<1>1. ASSUME ArithOp PROVE Nested(L')
    BY <1>1, FetchedInside, ArithNested DEF ArithOp
<1>2. ASSUME Length PROVE Nested(L')
  <2>1. ASSUME NEW v PROVE Nested(Set(Fetched, RA, v)) /\ Nested(call_binTM(Fetched, v, Nil, StoreAt(RA), "__len", "length"))
    <3>1. Inside(Set(Fetched, RA, v))
        BY FetchedInside, StepInside
    <3>2. TakesOne(StoreAt(RA))
        BY DEF TakesOne, StoreAt
    <3> QED
        BY <3>1, <3>2, FetchedInside, BinTMNested DEF Inside
  <2> QED
      BY <1>2, <2>1 DEF Length
<1>3. ASSUME Concat PROVE Nested(L')
    BY <1>3, FetchedInside, ConcatNested DEF Concat
<1> QED
    BY <1>1, <1>2, <1>3

\* Jumps and tests.
LEMMA TestsNested ==
    ASSUME Inside(L), Jmp \/ Compare \/ Test
    PROVE  Nested(L')
<1>1. ASSUME Jmp PROVE Nested(L')
    BY <1>1, FetchedInside, StepInside DEF Jmp, Inside
<1>2. ASSUME Compare PROVE Nested(L')
  <2> DEFINE cmp == Compared(I.op, RK(I.b), RK(I.c))
  <2>1. I.op \in {"EQ", "LT", "LE"} /\ L' = Tested(cmp)
      BY <1>2 DEF Compare, Executes
  <2>2. Answered(cmp)
    <3>1. TakesOne(ThenTest(TRUE))
        BY DEF TakesOne, ThenTest
    <3>2. ASSUME NEW b, NEW c
          PROVE  /\ Answered(luaV_equalval(Fetched, b, c))
                 /\ Answered(luaV_lessthan(Fetched, b, c, ThenTest(TRUE)))
                 /\ Answered(lessequal(Fetched, b, c))
        BY <3>1, FetchedInside, CompareNested
    <3> QED
        BY <2>1, <3>2 DEF Compared
  <2> HIDE DEF cmp
  <2>3. ASSUME ~cmp.called, NEW cond PROVE Nested(dojump(cmp.s, cond))
      BY <2>2, <2>3, DojumpInside DEF Answered, Inside
  <2> QED
      BY <2>1, <2>2, <2>3 DEF Tested, Answered
<1>3. ASSUME Test PROVE Nested(L')
  <2>1. ASSUME NEW v, NEW cond, NEW set
        PROVE  Nested(dojump(IF set THEN Set(Fetched, RA, v) ELSE Fetched, cond))
      BY FetchedInside, StepInside, DojumpInside DEF Inside
  <2> QED
      BY <1>3, <2>1 DEF Test
<1> QED
    BY <1>1, <1>2, <1>3

\* The frame of a tail call takes over what is known of that of its caller.
LEMMA ReplaceNested ==
    ASSUME NEW s, Nested(s), Len(s.ci) > 2
    PROVE  Nested(Replace(s))
<1> DEFINE q == s.ci
           m == Len(q) - 1
           p == SubSeq(q, 1, m)
           new == Ci(s)
           top == q[m] .func + (s.top - new.func)
           base == q[m].func + (new.base - new.func)
           g == [q[m] EXCEPT !.base = base, !.top = top, !.pc = 0]
           cut == SubSeq(p, 1, m - 1)
           r == Append(cut, g)
<1>1. m \in Nat /\ m >= 2 /\ m \in 1..Len(q) /\ FramesOK(q) /\ IsSeq(q) /\ "ci" \in DOMAIN s /\ DOMAIN q = 1..Len(q)
    BY LastFrame DEF Nested, FramesOK
<1>2. FramesOK(p) /\ Len(p) = m /\ IsSeq(p) /\ \A i \in 1..m : p[i] = q[i]
  <2>1. m \in 0..Len(q)
      BY <1>1
  <2> HIDE DEF q, m
  <2> QED
      BY <1>1, <2>1, FramesCut, SeqCut
<1>3. "ci" \in DOMAIN Replace(s) /\ Replace(s).ci = r
  <2> DEFINE shut == luaF_close(s, q[m].base)
             put == Put(shut, q[m].func, SubSeq(shut.stack, new.func + 1, s.top))
  <2>1. "ci" \in DOMAIN shut /\ shut.ci = q
      BY <1>1, CloseKept DEF Kept
  <2> HIDE DEF shut
  <2>2. "ci" \in DOMAIN put /\ put.ci = q
      BY <2>1, PutKept DEF Kept
  <2> HIDE DEF put
  <2>3. Front(Front(q)) = cut
    <3>1. Front(q) = p
        BY DEF Front
    <3> HIDE DEF p
    <3>2. Front(p) = cut
        BY <1>2 DEF Front
    <3> QED
        BY <3>1, <3>2
  <2>4. ASSUME NEW x, NEW e, NEW y, y = [put EXCEPT !.top = x, !.ci = Append(Front(Front(@)), e)]
        PROVE  "ci" \in DOMAIN y /\ y.ci = Append(cut, e)
      BY <2>2, <2>3, <2>4
  <2>5. Replace(s) = [put EXCEPT !.top = top, !.ci = Append(Front(Front(@)), g)]
      BY DEF Replace, put, shut
  <2> HIDE DEF g, top, cut
  <2> QED
      BY <2>4, <2>5
<1>4. IsFrame(q[m]) /\ IsFrame(g) /\ g.fresh = q[m].fresh /\ g.nresults = q[m].nresults
  <2> DEFINE f == q[m]
  <2>1. IsFrame(f)
      BY <1>1 DEF FramesOK
  <2> HIDE DEF f, base, top
  <2>2. g = [f EXCEPT !.base = base, !.top = top, !.pc = 0]
      BY DEF f
  <2> HIDE DEF g
  <2>3. IsFrame(g) /\ g.fresh = f.fresh /\ g.nresults = f.nresults
      BY <2>1, <2>2 DEF IsFrame
  <2> QED
      BY <2>1, <2>3 DEF f
<1> HIDE DEF g, p, q, m
<1>5. IsSeq(cut) /\ Len(cut) = m - 1 /\ \A i \in 1..(m - 1) : cut[i] = p[i]
  <2>1. m - 1 \in 0..Len(p)
      BY <1>1, <1>2
  <2> QED
      BY <1>2, <2>1, SeqCut
<1> HIDE DEF cut
<1>6. IsSeq(r) /\ Len(r) = m /\ r[m] = g /\ \A i \in 1..(m - 1) : r[i] = p[i]
    BY <1>1, <1>5, SeqPush
<1> HIDE DEF r
<1>7. r[1].k = NoK
    BY <1>1, <1>2, <1>6 DEF FramesOK
<1>8. ASSUME NEW i \in 1..m
      PROVE  IsFrame(r[i]) /\ r[i].fresh = p[i].fresh /\ r[i].nresults = p[i].nresults
  <2>1. CASE i = m
      BY <2>1, <1>1, <1>2, <1>4, <1>6
  <2>2. CASE i \in 1..(m - 1)
      BY <2>2, <1>1, <1>2, <1>6 DEF FramesOK
  <2> QED
      BY <1>1, <2>1, <2>2
<1>9. FramesOK(r)
    BY <1>2, <1>6, <1>7, <1>8, FramesAlike
<1> QED
    BY <1>3, <1>9 DEF Nested

\* Calls and returns.
LEMMA CallsNested ==
    ASSUME Inside(L), Call \/ TailCall \/ Return \/ Pcall
    PROVE  Nested(L')
<1>1. ASSUME Running, NEW n PROVE Nested(luaD_precall(Arguments, RA, n, FALSE))
  <2>1. Kept(Fetched, Arguments)
      BY FetchedInside DEF Arguments, Kept, Inside, Nested
  <2>2. Nested(Fetched) /\ Len(Fetched.ci) > 1 /\ ~Waits(Ci(Fetched)) /\ Len(Fetched.ci) # 1
    <3>1. Ci(L).k = NoK /\ Ci(L).c = NoK
        BY <1>1 DEF Running
    <3>2. Inside(Fetched) /\ ~Waits(Ci(Fetched))
        BY <3>1, FetchedInside DEF Waits
    <3>3. Nested(Fetched) /\ Len(Fetched.ci) > 1 /\ Len(Fetched.ci) \in Nat
        BY <3>2, LastFrame DEF Inside
    <3>4. \A x \in Nat : x > 1 => x # 1
        OBVIOUS
    <3> QED
        BY <3>2, <3>3, <3>4
  <2>3. MayEnter(Fetched, n, FALSE)
      BY <2>2 DEF MayEnter
  <2>4. MayEnter(Arguments, n, FALSE)
      BY <2>1, <2>3, MayEnterKept
  <2> QED
      BY <2>4, PrecallNested
<1>2. ASSUME Call PROVE Nested(L')
    BY <1>1, <1>2 DEF Call, Executes
<1>3. ASSUME TailCall PROVE Nested(L')
  <2> DEFINE s == luaD_precall(Arguments, RA, LUA_MULTRET, FALSE)
  <2>1. Nested(s)
      BY <1>1, <1>3 DEF TailCall, Executes
  <2>2. L' = TailCalled(s)
      BY <1>3 DEF TailCall
  <2> HIDE DEF s
  <2>3. ASSUME Len(s.ci) = Len(L.ci) + 1 PROVE Nested(Replace(s))
    <3>1. Len(s.ci) > 2
        BY <2>3, LastFrame DEF Inside
    <3> QED
        BY <2>1, <3>1, ReplaceNested
  <2> QED
      BY <2>1, <2>2, <2>3 DEF TailCalled
<1>4. ASSUME Return PROVE Nested(L')
  <2> DEFINE closed == luaF_close(Fetched, Base)
  <2>1. Inside(closed)
      BY FetchedInside, StepInside
  <2> HIDE DEF closed
  <2>2. ASSUME NEW vs PROVE Nested(luaD_poscall(closed, vs)) /\ Nested(CiTop(luaD_poscall(closed, vs)))
    <3> DEFINE r == luaD_poscall(closed, vs)
    <3>1. Nested(r)
        BY <2>1, PoscallNested
    <3> HIDE DEF r
    <3>2. Nested(CiTop(r))
        BY <3>1, FieldsKept, KeptNested DEF Nested
    <3> QED
        BY <3>1, <3>2 DEF r
  <2> QED
      BY <1>4, <2>2 DEF Return, closed
<1>5. ASSUME Pcall PROVE Nested(L')
  <2> DEFINE k == [op |-> "pcall"]
             x == SetK(L, k)
             y == SetC(x, NoK)
  <2>1. Inside(x) /\ Ci(x).k = k
      BY FrameEdits, NoKHasOp
  <2> HIDE DEF x
  <2>2. Inside(y) /\ Ci(y).k = k
      BY <2>1, FrameEdits, NoKHasOp
  <2> HIDE DEF y
  <2>3. Waits(Ci(y)) /\ LeavesWhat(Ci(y), LUA_MULTRET)
      BY <2>2 DEF Waits, LeavesWhat, NoK
  <2>4. Nested(luaD_call(y, Base, LUA_MULTRET))
      BY <2>2, <2>3, CallNested DEF Inside
  <2> QED
      BY <1>5, <2>4 DEF Pcall, x, y
<1> QED
    BY <1>2, <1>3, <1>4, <1>5

\* Loops.
LEMMA LoopsNested ==
    ASSUME Inside(L), ForPrep \/ ForLoop \/ TForLoop
    PROVE  Nested(L')
<1>1. ASSUME ForPrep PROVE Nested(L')
  <2>1. ASSUME NEW vs, NEW n PROVE Nested(Jump(Put(Fetched, RA, vs), n)) /\ Nested(Throw(Fetched, "for"))
    <3>1. Inside(Put(Fetched, RA, vs))
        BY FetchedInside, StepInside
    <3>2. Inside(Jump(Put(Fetched, RA, vs), n))
        BY <3>1, StepInside
    <3> QED
        BY <3>2, FetchedInside, ThrowNested DEF Inside
  <2> QED
      BY <1>1, <2>1 DEF ForPrep
<1>2. ASSUME ForLoop PROVE Nested(L')
  <2>1. ASSUME NEW v, NEW n PROVE Nested(Jump(Set(Set(Fetched, RA, v), RA + 3, v), n)) /\ Nested(Fetched)
    <3>1. Inside(Set(Set(Fetched, RA, v), RA + 3, v))
        BY FetchedInside, StepInside
    <3>2. Inside(Jump(Set(Set(Fetched, RA, v), RA + 3, v), n))
        BY <3>1, StepInside
    <3> QED
        BY <3>2, FetchedInside DEF Inside
  <2> QED
      BY <1>2, <2>1 DEF ForLoop
<1>3. ASSUME TForLoop PROVE Nested(L')
  <2> DEFINE s == [Put(Fetched, RA + 3, <<R(I.a), R(I.a + 1), R(I.a + 2)>>) EXCEPT !.top = RA + 3 + 3]
             k == [op |-> "tfor", at |-> RA + 3]
             x == SetK(s, k)
  <2>1. Inside(s)
      BY FetchedInside, StepInside
  <2>2. L' = luaD_call(x, RA + 3, I.c)
      BY <1>3 DEF TForLoop
  <2> HIDE DEF s
  <2>3. Inside(x) /\ Ci(x).k = k
      BY <2>1, FrameEdits, NoKHasOp
  <2> HIDE DEF x
  <2>4. Waits(Ci(x)) /\ LeavesWhat(Ci(x), I.c)
      BY <2>3 DEF Waits, LeavesWhat, NoK
  <2> QED
      BY <2>2, <2>3, <2>4, CallNested DEF Inside
<1> QED
    BY <1>1, <1>2, <1>3

\* Lists, closures and variable arguments.
LEMMA ClosuresNested ==
    ASSUME Inside(L), SetList \/ Close \/ ClosureOp \/ VarArg
    PROVE  Nested(L')
<1>1. ASSUME SetList PROVE Nested(L')
  <2>1. ASSUME NEW s, Inside(s), NEW t, NEW map, NEW n
        PROVE  Nested(Jump([s EXCEPT !.tabs[t].map = map], n)) /\ Nested(Jump(s, n))
    <3>1. Kept(s, [s EXCEPT !.tabs[t].map = map])
        BY <2>1 DEF Inside, Nested, Kept
    <3>2. Inside([s EXCEPT !.tabs[t].map = map])
        BY <2>1, <3>1, KeptNested
    <3> QED
        BY <2>1, <3>2, StepInside DEF Inside
  <2>2. Inside(CiTop(Fetched)) /\ Inside(Fetched)
      BY FetchedInside, StepInside
  <2> DEFINE n == IF I.b = 0 THEN L.top - RA - 1 ELSE I.b
             s == IF I.b = 0 THEN CiTop(Fetched) ELSE Fetched
             c == IF I.c = 0 THEN AsWord(Proto.code[Ci(L).pc + 2]) - (511 - MAXARG_C) ELSE I.c
             first == (c - 1) * LFIELDS_PER_FLUSH
             t == R(I.a)[2]
             given == {j \in 1..n : R(I.a + j) # Nil}
             items == [x \in {<<"number", first + j>> : j \in given} |-> R(I.a + x[2] - first)]
             kept  == {x \in DOMAIN L.tabs[t].map : ~(IsNumber(x) /\ x[2] - first \in 1..n)}
             stored == [s EXCEPT !.tabs[t].map = Over(items, [x \in kept |-> @[x]])]
             map == Over(items, [x \in kept |-> s.tabs[t].map[x]])
  <2>3. L' = Jump(IF IsTable(R(I.a)) THEN stored ELSE s, IF I.c = 0 THEN 1 ELSE 0)
      BY <1>1 DEF SetList
  <2>4. Inside(s)
      BY <2>2
  <2> HIDE DEF s, kept, items
  <2>5. stored = [s EXCEPT !.tabs[t].map = map]
      OBVIOUS
  <2> HIDE DEF stored, map, t
  <2> QED
      BY <2>1, <2>3, <2>4, <2>5
<1>2. ASSUME Close PROVE Nested(L')
    BY <1>2, FetchedInside, StepInside DEF Close, Inside
<1>3. ASSUME ClosureOp PROVE Nested(L')
  <2>1. ASSUME NEW upvals, NEW f PROVE Inside([Fetched EXCEPT !.upvals = upvals, !.funs = Append(@, f)])
    <3>1. Kept(Fetched, [Fetched EXCEPT !.upvals = upvals, !.funs = Append(@, f)])
        BY FetchedInside DEF Inside, Nested, Kept
    <3> QED
        BY <3>1, FetchedInside, KeptNested
  <2>2. ASSUME NEW s, Inside(s), NEW v, NEW n PROVE Nested(Jump(Set(s, RA, v), n))
      BY <2>2, StepInside DEF Inside
  <2> QED
      BY <1>3, <2>1, <2>2 DEF ClosureOp
<1>4. ASSUME VarArg PROVE Nested(L')
  <2>1. ASSUME NEW vs PROVE Inside(Put(Fetched, RA, vs))
      BY FetchedInside, StepInside
  <2>2. ASSUME NEW vs, NEW top PROVE Inside([Put(Fetched, RA, vs) EXCEPT !.top = top])
      BY <2>1, StepInside
  <2> QED
      BY <1>4, <2>1, <2>2 DEF VarArg, Inside
<1> QED
    BY <1>1, <1>2, <1>3, <1>4

\* What C code does after a call.
LEMMA ContinueNested ==
    ASSUME Inside(L), Continue
    PROVE  Nested(L')
<1>1. Inside(Back) /\ Inside(Taken)
  <2>1. Inside(Back)
      BY StepInside DEF Back
  <2> QED
      BY <2>1, StepInside DEF Taken
<1>2. ASSUME StoreResult PROVE Nested(L')
    BY <1>1, <1>2, StepInside DEF StoreResult, Inside
<1>3. ASSUME DropResult PROVE Nested(L')
    BY <1>1, <1>3 DEF DropResult, Inside
<1>4. ASSUME TestResult PROVE Nested(L')
  <2>1. ASSUME NEW cond PROVE Nested(dojump(Taken, cond))
      BY <1>1, DojumpInside DEF Inside
  <2> QED
      BY <1>4, <2>1 DEF TestResult
<1>5. ASSUME ConcatResult PROVE Nested(L')
  <2>1. ASSUME NEW i, NEW v PROVE Inside(Set(Taken, i, v))
      BY <1>1, StepInside
  <2> QED
      BY <1>5, <2>1, ConcatNested DEF ConcatResult
<1>6. ASSUME TForResult PROVE Nested(L')
  <2>1. ASSUME NEW i, NEW v PROVE Inside(Set(Back, i, v)) /\ Inside(CiTop(Set(Back, i, v))) /\ Inside(CiTop(Back))
      BY <1>1, StepInside
  <2>2. ASSUME NEW i, NEW v, NEW set, NEW cond
        PROVE  Nested(dojump(CiTop(IF set THEN Set(Back, i, v) ELSE Back), cond))
      BY <2>1, DojumpInside DEF Inside
  <2> QED
      BY <1>6, <2>2 DEF TForResult
<1>7. ASSUME PcallReturns PROVE Nested(L')
    BY <1>7, CReturnNested DEF PcallReturns
<1> QED
    BY <1>2, <1>3, <1>4, <1>5, <1>6, <1>7 DEF Continue

-----------------------------------------------------------------------------
(* The libraries.                                                          *)

\* What a function of C does in its frame.
Keeps(s, r) == Kept(s, r.s) /\ "op" \in DOMAIN r.c

LEMMA EndsKept ==
    ASSUME NEW s, NEW r, Kept(s, r), NEW vs, NEW msg
    PROVE  Keeps(s, Results(r, vs)) /\ Keeps(s, Failure(r, msg))
BY DEF Keeps, Results, Failure, NoK

LEMMA StoresKept ==
    ASSUME NEW s, NEW r, Kept(s, r), NEW t, NEW i, NEW v, NEW c, NEW j, NEW w
    PROVE  Kept(s, lua_rawseti(r, t, i, v)) /\ Kept(s, set2(r, c, i, v, j, w))
<1>1. ASSUME NEW x, Kept(s, x), NEW y, NEW n, NEW z PROVE Kept(s, lua_rawseti(x, y, n, z))
    BY <1>1, TablesKept DEF lua_rawseti, Kept
<1> QED
    BY <1>1 DEF set2

LEMMA MovesKept ==
    ASSUME NEW s, "ci" \in DOMAIN s, NEW t, NEW first, NEW step, NEW count
    PROVE  Kept(s, Moves(s, t, first, step, count))
<1>0. Kept(s, s)
    BY DEF Kept
<1> SUFFICES ASSUME count \in Nat PROVE Kept(s, Moves(s, t, first, step, count))
    BY <1>0 DEF Moves
<1> DEFINE f == CHOOSE x : IsMoves(x, s, t, first, step, count)
           P == {N \in Nat : N \in 0..count => Kept(s, f[N])}
<1>1. IsMoves(f, s, t, first, step, count)
    BY MovesExist
<1>2. Moves(s, t, first, step, count) = f[count]
    BY DEF Moves, IsMoves, Moving
<1> HIDE DEF f
<1>3. 0 \in P
    BY <1>0, <1>1 DEF IsMoves
<1>4. ASSUME NEW N \in Nat, N \in P PROVE N + 1 \in P
  <2> SUFFICES ASSUME N + 1 \in 0..count PROVE Kept(s, f[N + 1])
      OBVIOUS
  <2>1. Kept(s, f[N])
      BY <1>4
  <2>2. f[N + 1] = Moving(f[N], t, first - (N + 1 - 1) * step, step)
      BY <1>1 DEF IsMoves
  <2>3. ASSUME NEW i PROVE Kept(s, Moving(f[N], t, i, step))
      BY <2>1, StoresKept DEF Moving
  <2> QED
      BY <2>2, <2>3
<1> HIDE DEF P
<1>5. \A N \in Nat : N \in P
    BY <1>3, <1>4, SetInduction
<1> QED
    BY <1>2, <1>5 DEF P

\* What a function of a library does before it calls another.
LEMMA LibraryKept ==
    ASSUME NEW f, NEW s, "ci" \in DOMAIN s, NEW args
    PROVE  Keeps(s, Library(f, s, args))
<1>0. Kept(s, s) /\ \A t, key, v : Kept(s, RawSet(s, t, key, v))
    BY TablesKept DEF Kept
<1>1. ASSUME NEW vs, NEW msg PROVE Keeps(s, Results(s, vs)) /\ Keeps(s, Failure(s, msg))
    BY <1>0, EndsKept
<1>2. ASSUME NEW r, Kept(s, r), NEW first, NEW captures PROVE Keeps(s, Captured(r, first, captures))
    BY <1>2, EndsKept DEF Captured
<1>3. ASSUME NEW find PROVE Keeps(s, str_find_aux(s, args, find))
  <2>1. ASSUME NEW at, NEW len PROVE Keeps(s, FoundPlain(s, at, len))
      BY <1>1 DEF FoundPlain
  <2>2. ASSUME NEW m PROVE Keeps(s, FoundMatch(s, m, find))
      BY <1>0, <1>1, <1>2 DEF FoundMatch
  <2> QED
      BY <1>1, <2>1, <2>2 DEF str_find_aux
<1>4. Keeps(s, gmatch(s, args))
  <2> DEFINE map == With([x \in {Number(1), Number(2)} |-> Arg(args, x[2])], Number(3), Number(0))
  <2> HIDE DEF map
  <2>1. Kept(s, NewTable(s, map))
      BY TablesKept
  <2>2. ASSUME NEW vs PROVE Keeps(s, Results(NewTable(s, map), vs))
      BY <2>1, EndsKept
  <2> QED
      BY <1>1, <2>2 DEF gmatch, map
<1>5. Keeps(s, gmatch_aux(f, s))
  <2>1. ASSUME NEW t, NEW m PROVE Keeps(s, NextMatch(s, t, m))
      BY <1>0, <1>1, <1>2 DEF NextMatch
  <2> QED
      BY <1>1, <2>1 DEF gmatch_aux
<1>6. Keeps(s, str_gsub(s, args))
  <2>1. ASSUME NEW c, "op" \in DOMAIN c PROVE Keeps(s, CallsBack(s, c))
      BY <1>0, <2>1 DEF Keeps, CallsBack
  <2> HIDE DEF Keeps
  <2> QED
      BY <1>1, <2>1 DEF str_gsub
<1>7. /\ Keeps(s, str_len(s, args)) /\ Keeps(s, str_sub(s, args))
      /\ Keeps(s, str_rep(s, args)) /\ Keeps(s, str_reverse(s, args))
    BY <1>1 DEF str_len, str_sub, str_rep, str_reverse
<1>8. Keeps(s, tconcat(s, args)) /\ Keeps(s, getn(s, args)) /\ Keeps(s, maxn(s, args)) /\ Keeps(s, setn(s, args))
    BY <1>1 DEF tconcat, getn, maxn, setn
<1>9. Keeps(s, foreachi(s, args)) /\ Keeps(s, sort(s, args))
  <2>1. ASSUME NEW c, "op" \in DOMAIN c PROVE Keeps(s, CallsBack(s, c))
      BY <1>0, <2>1 DEF Keeps, CallsBack
  <2> HIDE DEF Keeps
  <2> QED
      BY <1>1, <2>1 DEF foreachi, sort
<1>10. ASSUME NEW t, NEW first, NEW step, NEW count, NEW i, NEW v, NEW vs
       PROVE  Keeps(s, Results(lua_rawseti(Moves(s, t, first, step, count), t, i, v), vs))
    BY MovesKept, StoresKept, EndsKept
<1>11. Keeps(s, tinsert(s, args))
    BY <1>1, <1>10 DEF tinsert
<1>12. Keeps(s, tremove(s, args))
    BY <1>1, <1>10 DEF tremove
<1> QED
    BY <1>1, <1>3, <1>4, <1>5, <1>6, <1>7, <1>8, <1>9, <1>11, <1>12 DEF Library

\* A function of C that calls waits in c, and takes one result.
SameOp(d, c) == "op" \in DOMAIN d /\ d.op = c.op
Calling(s, c) == Inside(s) /\ Ci(s).k = NoK /\ "op" \in DOMAIN c /\ c.op # "none"

LEMMA LuaCallNested ==
    ASSUME NEW s, NEW c, Calling(s, c), NEW f, NEW args
    PROVE  Nested(lua_call(s, c, f, args))
<1> DEFINE x == Put(s, s.top, <<f>> \o args)
           y == SetC(x, c)
           z == [y EXCEPT !.top = @ + 1 + Len(args)]
<1>1. Inside(x) /\ Ci(x).k = NoK
  <2>1. Kept(s, x)
      BY PutKept DEF Calling, Inside, Nested
  <2> QED
      BY <2>1, KeptNested DEF Calling, Kept, Ci
<1> HIDE DEF x
<1>2. Inside(y) /\ Ci(y).k = NoK /\ Ci(y).c = c
  <2>1. "op" \in DOMAIN c
      BY DEF Calling
  <2> QED
      BY <1>1, <2>1, FrameEdits
<1> HIDE DEF y
<1>3. Kept(y, z)
    BY <1>2 DEF Kept, Inside, Nested
<1> HIDE DEF z
<1>4. Inside(z) /\ Ci(z).k = NoK /\ Ci(z).c = c
    BY <1>2, <1>3, KeptNested DEF Kept, Ci
<1>5. Waits(Ci(z)) /\ LeavesWhat(Ci(z), 1)
    BY <1>4 DEF Waits, LeavesWhat, NoK, Calling
<1>6. Nested(luaD_call(z, s.top, 1))
    BY <1>4, <1>5, CallNested DEF Inside
<1> QED
    BY <1>6 DEF lua_call, x, y, z

LEMMA DoneCalls ==
    ASSUME Inside(L), NEW op, Doing(op), op # "none"
    PROVE  Calling(L, C) /\ Calling(Done, C) /\ Kept(L, Done) /\ C.op = op
<1>1. Calling(L, C) /\ C.op = op
    BY LastFrame DEF Doing, Calling, C, Inside, IsFrame
<1>2. Kept(L, Done)
    BY DEF Inside, Nested, Kept, Done
<1>3. Inside(Done) /\ Ci(Done) = Ci(L)
    BY <1>2, KeptNested DEF Kept, Ci
<1> QED
    BY <1>1, <1>2, <1>3 DEF Calling

LEMMA ForeachiNested ==
    ASSUME Inside(L), Foreachi
    PROVE  Nested(L')
<1>1. Calling(L, C) /\ Calling(Done, C)
    BY DoneCalls DEF Foreachi
<1>2. ASSUME NEW vs PROVE Nested(CReturn(L, vs)) /\ Nested(CReturn(Done, vs))
    BY <1>1, CReturnNested DEF Calling
<1>3. ASSUME NEW i, NEW f, NEW args
      PROVE  Nested(lua_call(L, [C EXCEPT !.i = i], f, args)) /\ Nested(lua_call(Done, [C EXCEPT !.i = i], f, args))
  <2>1. Calling(L, [C EXCEPT !.i = i]) /\ Calling(Done, [C EXCEPT !.i = i])
      BY <1>1 DEF Calling
  <2> QED
      BY <2>1, LuaCallNested
<1> QED
    BY <1>2, <1>3 DEF Foreachi

LEMMA GsubNested ==
    ASSUME Inside(L), GsubMatch \/ GsubReplace
    PROVE  Nested(L')
<1>1. Calling(L, C) /\ Calling(Done, C)
    BY DoneCalls DEF GsubMatch, GsubReplace
<1>2. ASSUME NEW msg, NEW vs PROVE Nested(Throw(L, msg)) /\ Nested(CReturn(L, vs))
    BY ThrowNested, CReturnNested DEF Inside
<1>3. ASSUME NEW c, "op" \in DOMAIN c PROVE Nested(SetC(L, c)) /\ Nested(SetC(Done, c))
    BY <1>1, <1>3, FrameEdits DEF Calling, Inside
<1>4. ASSUME NEW c, "op" \in DOMAIN c, NEW out PROVE "op" \in DOMAIN GsubNext(c, out)
    BY <1>4 DEF GsubNext
<1>5. ASSUME NEW found, Calling(L, found), NEW news PROVE Nested(AddString(found, news))
    BY <1>2, <1>3, <1>4, <1>5 DEF AddString, Calling
<1>6. ASSUME NEW found, Calling(L, found), NEW args PROVE Nested(AskFunction(found, args))
    BY <1>2, <1>6, LuaCallNested DEF AskFunction
<1>7. ASSUME NEW found, Calling(L, found), NEW key PROVE Nested(AskTable(found, key))
  <2> DEFINE s == SetC(L, found)
             t == [s EXCEPT !.top = @ + 1]
  <2>1. Inside(s)
      BY <1>7, FrameEdits DEF Calling
  <2> HIDE DEF s
  <2>2. Kept(s, t)
      BY <2>1 DEF Inside, Nested, Kept
  <2>3. Inside(t)
      BY <2>1, <2>2, KeptNested
  <2> HIDE DEF t
  <2>4. Nested(luaV_gettable(t, found.repl, key.r[1], L.top))
      BY <2>3, GettableNested
  <2> QED
      BY <1>2, <2>4 DEF AskTable, s, t
<1>8. ASSUME NEW found, Calling(L, found), NEW m PROVE Nested(add_value(found, m))
    BY <1>5, <1>6, <1>7, <1>8 DEF add_value
<1>9. ASSUME NEW m PROVE Nested(AfterMatch(m))
  <2> DEFINE found == [C EXCEPT !.n = @ + 1, !.e = m.s]
  <2>1. Calling(L, found)
      BY <1>1 DEF Calling
  <2> HIDE DEF found
  <2>2. Nested(add_value(found, m))
      BY <2>1, <1>8
  <2>3. Nested(SetC(L, GsubNext(C, C.out)))
      BY <1>1, <1>3, <1>4 DEF Calling
  <2> QED
      BY <1>2, <2>2, <2>3 DEF AfterMatch, found
<1>10. ASSUME GsubMatch PROVE Nested(L')
    BY <1>2, <1>9, <1>10 DEF GsubMatch
<1>11. ASSUME GsubReplace PROVE Nested(L')
  <2>1. ASSUME NEW text PROVE Nested(SetC(Done, GsubNext(C, C.out \o text)))
      BY <1>1, <1>3, <1>4 DEF Calling
  <2> QED
      BY <1>2, <1>11, <2>1 DEF GsubReplace
<1> QED
    BY <1>10, <1>11

\* One step of a sort.
Sorts(s, c, r) == Kept(s, r.s) /\ SameOp(r.c, c)

LEMMA AuxsortKept ==
    ASSUME NEW s, "ci" \in DOMAIN s, NEW c, "op" \in DOMAIN c, NEW yes
    PROVE  Sorts(s, c, auxsort(s, c, yes))
<1>0. Kept(s, s) /\ SameOp(c, c)
    BY DEF Kept, SameOp
<1>1. ASSUME NEW x, Kept(s, x), NEW d, SameOp(d, c), NEW at, NEW v, NEW w
      PROVE  Sorts(s, c, Compares(x, d, at, v, w)) /\ Sorts(s, c, Ends(x, d, at))
    BY <1>1 DEF Compares, Ends, Sorts, SameOp
<1> HIDE DEF Sorts
<1>2. ASSUME NEW x, Kept(s, x), NEW d, SameOp(d, c) PROVE Sorts(s, c, SortPart(x, d)) /\ Sorts(s, c, SortRest(x, d))
  <2>1. ASSUME NEW e, SameOp(e, c) PROVE Sorts(s, c, SortPart(x, e))
    <3>1. ASSUME NEW l, NEW u, NEW rest PROVE SameOp([e EXCEPT !.l = l, !.u = u, !.rest = rest], c)
        BY <2>1 DEF SameOp
    <3>2. ASSUME NEW g, SameOp(g, c) PROVE Sorts(s, c, SortEnds(x, g))
        BY <1>1, <1>2, <3>2 DEF SortEnds
    <3> QED
        BY <1>1, <1>2, <2>1, <3>1, <3>2 DEF SortPart
  <2>2. SameOp([d EXCEPT !.l = d.u], c)
      BY <1>2 DEF SameOp
  <2> QED
      BY <1>2, <2>1, <2>2 DEF SortRest
<1>3. ASSUME NEW x, Kept(s, x), NEW d, SameOp(d, c) PROVE Sorts(s, c, SortUp(x, d)) /\ Sorts(s, c, SortDown(x, d))
  <2>1. SameOp([d EXCEPT !.i = @ + 1], c) /\ SameOp([d EXCEPT !.j = @ - 1], c)
      BY <1>3 DEF SameOp
  <2> QED
      BY <1>1, <1>3, <2>1 DEF SortUp, SortDown
<1>4. ASSUME NEW x, Kept(s, x), NEW d, NEW i, NEW v, NEW j, NEW w
      PROVE  Kept(s, set2(x, d, i, v, j, w))
    BY <1>4, StoresKept
<1>5. ASSUME NEW x, Kept(s, x), NEW d, SameOp(d, c) PROVE Sorts(s, c, SortPivot(x, d))
  <2>1. ASSUME NEW P, NEW i, NEW j PROVE SameOp([d EXCEPT !.P = P, !.i = i, !.j = j], c)
      BY <1>5 DEF SameOp
  <2> QED
      BY <1>2, <1>3, <1>4, <1>5, <2>1 DEF SortPivot
<1>6. ASSUME NEW x, Kept(s, x), NEW d, SameOp(d, c) PROVE Sorts(s, c, SortHalves(x, d))
  <2>1. ASSUME NEW y, Kept(s, y) PROVE Sorts(s, c, Halves(y, d))
    <3>1. ASSUME NEW l, NEW u, NEW part PROVE SameOp([d EXCEPT !.l = l, !.u = u, !.rest = Append(@, part)], c)
        BY <1>6 DEF SameOp
    <3> QED
        BY <1>2, <2>1, <3>1 DEF Halves
  <2> QED
      BY <1>4, <1>6, <2>1 DEF SortHalves
<1> DEFINE ends == IF yes THEN set2(s, c, c.l, c.x, c.u, c.y) ELSE s
<1>7. Kept(s, ends)
    BY <1>0, <1>4
<1> HIDE DEF ends
<1>8. CASE c.at = "begin"
    BY <1>0, <1>2, <1>8 DEF auxsort
<1>9. CASE c.at = "ends"
  <2>1. ASSUME NEW i PROVE SameOp([c EXCEPT !.i = i], c)
      BY <1>0 DEF SameOp
  <2>2. ASSUME NEW i, NEW v, NEW w PROVE Sorts(s, c, Compares(ends, [c EXCEPT !.i = i], "middle", v, w))
      BY <1>1, <1>7, <2>1
  <2>3. Sorts(s, c, SortRest(ends, c))
      BY <1>0, <1>2, <1>7
  <2> QED
      BY <1>9, <2>2, <2>3 DEF auxsort, ends
<1>10. CASE c.at = "middle"
  <2>1. Sorts(s, c, SortPivot(set2(s, c, c.i, c.y, c.l, c.x), c))
      BY <1>0, <1>4, <1>5
  <2>2. ASSUME NEW v, NEW w PROVE Sorts(s, c, Compares(s, c, "top", v, w))
      BY <1>0, <1>1
  <2> QED
      BY <1>10, <2>1, <2>2 DEF auxsort
<1>11. CASE c.at = "top"
  <2>1. Kept(s, IF yes THEN set2(s, c, c.i, c.x, c.u, c.y) ELSE s)
      BY <1>0, <1>4
  <2>2. Sorts(s, c, SortPivot(IF yes THEN set2(s, c, c.i, c.x, c.u, c.y) ELSE s, c))
      BY <1>0, <1>5, <2>1
  <2> QED
      BY <1>11, <2>2 DEF auxsort
<1>12. CASE c.at = "up"
  <2> DEFINE down == SortDown(s, [c EXCEPT !.a = c.x])
             up == SortUp(s, c)
             end == Ends(s, c, "invalid order function")
  <2>1. auxsort(s, c, yes) = CASE yes /\ c.i > c.u -> end
                               [] yes /\ c.i <= c.u -> up
                               [] OTHER -> down
      BY <1>12 DEF auxsort
  <2>2. SameOp([c EXCEPT !.a = c.x], c)
      BY <1>0 DEF SameOp
  <2>3. Sorts(s, c, end) /\ Sorts(s, c, up) /\ Sorts(s, c, down)
      BY <1>0, <1>1, <1>3, <2>2
  <2> HIDE DEF down, up, end
  <2> QED
      BY <2>1, <2>3
<1>13. CASE c.at \notin {"begin", "ends", "middle", "top", "up"}
  <2> DEFINE up == SortUp(set2(s, c, c.i, c.y, c.j, c.a), c)
             end == Ends(s, c, "invalid order function")
             down == SortDown(s, c)
             halves == SortHalves(s, c)
  <2>1. auxsort(s, c, yes) = CASE yes /\ c.j < c.l -> end
                               [] yes /\ c.j >= c.l -> down
                               [] OTHER -> IF c.j < c.i THEN halves ELSE up
      BY <1>13 DEF auxsort
  <2>2. Sorts(s, c, end) /\ Sorts(s, c, down) /\ Sorts(s, c, halves) /\ Sorts(s, c, up)
      BY <1>0, <1>1, <1>3, <1>4, <1>6
  <2> HIDE DEF up, end, down, halves
  <2> QED
      BY <2>1, <2>2
<1> QED
    BY <1>8, <1>9, <1>10, <1>11, <1>12, <1>13

LEMMA SortNested ==
    ASSUME Inside(L), AuxSort
    PROVE  Nested(L')
<1>1. ASSUME NEW s, NEW c, Calling(s, c) PROVE Nested(sort_comp(s, c))
  <2> DEFINE made == [SetC(s, c) EXCEPT !.top = @ + 1]
             less == luaV_lessthan(made, c.x, c.y, StoreAt(s.top))
  <2>1. Inside(SetC(s, c))
      BY <1>1, FrameEdits DEF Calling
  <2>2. Inside(made)
      BY <2>1, StepInside
  <2> HIDE DEF made
  <2>3. Answered(less)
      BY <2>2, CompareNested DEF TakesOne, StoreAt
  <2>4. Nested(lua_call(s, c, c.f, <<c.x, c.y>>))
      BY <1>1, LuaCallNested
  <2> HIDE DEF less
  <2>5. ASSUME ~less.called, NEW v PROVE Nested(Set(less.s, s.top, v))
      BY <2>3, <2>5, StepInside DEF Answered, Inside
  <2> QED
      BY <2>3, <2>4, <2>5 DEF sort_comp, made, less, Answered
<1> DEFINE begin == C.at = "begin"
           from == IF begin THEN L ELSE Done
           next == auxsort(from, C, ~begin /\ ~IsFalse(Result))
<1>2. Calling(from, C) /\ C.op = "sort"
    BY DoneCalls DEF AuxSort
<1>3. L' = CASE next.c.at = "sorted" -> CReturn(next.s, <<>>)
             [] next.c.at = "invalid order function" -> Throw(L, next.c.at)
             [] OTHER -> sort_comp(next.s, next.c)
    BY DEF AuxSort
<1> HIDE DEF from, begin
<1>4. Sorts(from, C, next)
    BY <1>2, AuxsortKept DEF Calling, Inside, Nested
<1> HIDE DEF next
<1>5. Calling(next.s, next.c)
  <2>1. Kept(from, next.s) /\ SameOp(next.c, C)
      BY <1>4 DEF Sorts
  <2>2. Inside(next.s) /\ Ci(next.s) = Ci(from)
      BY <1>2, <2>1, KeptNested DEF Kept, Ci, Calling
  <2> QED
      BY <1>2, <2>1, <2>2 DEF Calling, SameOp
<1>6. ASSUME NEW msg PROVE Nested(Throw(L, msg)) /\ Nested(CReturn(next.s, <<>>)) /\ Nested(sort_comp(next.s, next.c))
    BY <1>1, <1>5, ThrowNested, CReturnNested DEF Calling, Inside
<1> QED
    BY <1>3, <1>6

-----------------------------------------------------------------------------
(* Every step.                                                             *)

\* Until the chunk is called there is only the frame of the host.
CallsOK == Nested(L) /\ (phase \in {"source", "compiled", "loaded"} => Len(L.ci) = 1)

LEMMA InitCalls ==
    ASSUME Init
    PROVE  CallsOK
<1> DEFINE q == <<Host>>
<1>1. "ci" \in DOMAIN L /\ L.ci = q
    BY DEF Init, lua_newstate
<1>2. DOMAIN q = 1..1 /\ q[1] = Host /\ q = [i \in 1..1 |-> q[i]]
    OBVIOUS
<1>3. /\ IsFrame(Host) /\ Host.k = NoK /\ Host.fresh = FALSE
  <2>1. DOMAIN NoK = {"op"}
      BY DEF NoK
  <2>2. Host.c = NoK /\ Host.k = NoK /\ Host.fresh = FALSE
      BY DEF Host, NoK
  <2> QED
      BY <2>1, <2>2 DEF IsFrame, Host
<1> HIDE DEF q
<1>4. IsSeq(q) /\ Len(q) = 1
    BY <1>2, SeqBuilt
<1>5. FromC(q) = {}
    BY <1>2, <1>3 DEF FromC
<1>6. Cardinality(FromC(q)) < LUAI_MAXCCALLS
    BY <1>5, FS_EmptySet, OpsAssumption
<1>7. FramesOK(q)
    BY <1>2, <1>3, <1>4, <1>6 DEF FramesOK
<1> QED
    BY <1>1, <1>4, <1>7 DEF CallsOK, Nested

\* A chunk that is compiled, read back and called.
LEMMA LifeNested ==
    ASSUME CallsOK, Compile \/ Reload \/ Start
    PROVE  CallsOK'
<1>1. ASSUME NEW msg PROVE Kept(L, [L EXCEPT !.err = msg])
    BY DEF CallsOK, Nested, Kept
<1>2. ASSUME Compile \/ Reload PROVE Kept(L, L') /\ phase \in {"source", "compiled"}
  <2>1. Kept(L, L)
      BY DEF CallsOK, Nested, Kept
  <2> QED
      BY <1>1, <1>2, <2>1 DEF Compile, Reload
<1>3. ASSUME Compile \/ Reload PROVE Nested(L') /\ Len(L'.ci) = 1
    BY <1>2, <1>3, KeptNested DEF CallsOK, Kept
<1>4. ASSUME Start PROVE Nested(L') /\ phase' = "run"
  <2> DEFINE s == [L EXCEPT !.stack = Append(@, <<"function", 1>>), !.top = 2,
                            !.funs = <<[p |-> <<>>, upvals |-> <<>>]>>]
  <2>1. Kept(L, s)
      BY DEF CallsOK, Nested, Kept
  <2>2. L' = luaD_call(s, 1, LUA_MULTRET) /\ phase' = "run" /\ phase \in {"compiled", "loaded"}
      BY <1>4 DEF Start
  <2> HIDE DEF s
  <2>3. Nested(s) /\ Len(s.ci) = 1
      BY <2>1, <2>2, KeptNested DEF CallsOK, Kept
  <2> QED
      BY <2>2, <2>3, CallNested
<1> QED
    BY <1>3, <1>4 DEF CallsOK, Nested

LEMMA RunNested ==
    ASSUME CallsOK, Execute \/ Continue \/ LibraryCall \/ Foreachi \/ GsubMatch \/ GsubReplace \/ AuxSort
    PROVE  CallsOK'
<1>1. Active /\ phase' = phase
    BY DEF Execute, Continue, SetsRegister, LoadNil, SetUpval, GetTable, SetTable, NewTableOp, ArithOp, Length, Concat,
       Jmp, Compare, Test, Call, TailCall, Return, ForPrep, ForLoop, TForLoop, SetList, Close, ClosureOp, VarArg, Pcall,
       StoreResult, DropResult, TestResult, ConcatResult, TForResult, PcallReturns, LibraryCall, Foreachi, GsubMatch,
       GsubReplace, AuxSort, Executes, Running, Returned, Doing, Idle
<1>2. Inside(L)
    BY <1>1 DEF Active, Inside, CallsOK
<1>3. ASSUME Execute PROVE Nested(L')
    BY <1>2, <1>3, RegistersNested, TableOpsNested, OperatorsNested, TestsNested, CallsNested, LoopsNested,
       ClosuresNested DEF Execute, Inside
<1>4. ASSUME Continue PROVE Nested(L')
    BY <1>2, <1>4, ContinueNested
<1>5. ASSUME LibraryCall PROVE Nested(L')
  <2>1. ASSUME NEW r, Keeps(L, r) PROVE Nested(AfterC(r))
    <3>1. Inside(r.s) /\ "op" \in DOMAIN r.c
        BY <1>2, <2>1, KeptNested DEF Keeps
    <3> QED
        BY <3>1, AfterCNested
  <2>2. ASSUME NEW f, NEW args PROVE Keeps(L, Library(f, L, args))
      BY <1>2, LibraryKept DEF Inside, Nested
  <2> QED
      BY <1>5, <2>1, <2>2 DEF LibraryCall
<1>6. ASSUME Foreachi \/ GsubMatch \/ GsubReplace \/ AuxSort PROVE Nested(L')
    BY <1>2, <1>6, ForeachiNested, GsubNested, SortNested
<1>7. Nested(L')
    BY <1>3, <1>4, <1>5, <1>6
<1>8. phase' = "run"
    BY <1>1 DEF Active
<1> QED
    BY <1>7, <1>8 DEF CallsOK, Nested

LEMMA LibNextCalls ==
    ASSUME CallsOK, [LibNext]_vars
    PROVE  CallsOK'
<1>1. CASE Compile \/ Reload \/ Start
    BY <1>1, LifeNested
<1>2. CASE Execute \/ Continue \/ LibraryCall \/ Foreachi \/ GsubMatch \/ GsubReplace \/ AuxSort
    BY <1>2, RunNested
<1>3. CASE Stopped \/ UNCHANGED vars
    BY <1>3 DEF Stopped, vars, CallsOK, Nested
<1> QED
    BY <1>1, <1>2, <1>3 DEF LibNext, Next

-----------------------------------------------------------------------------
(* The theorems.                                                           *)

\* In every table of the machine no event of its flags is an entry, and no
\* entry that is looked up by name is nil (luaT_gettm, luaH_set).
THEOREM Invariance == LibSpec => []IInv
<1>1. Init => IInv
    BY InitSound
<1>2. IInv /\ [LibNext]_vars => IInv'
    BY LibNextSound
<1> QED
    BY <1>1, <1>2, PTL DEF LibSpec

\* No metamethod is missed: an event that the flags of a metatable say it
\* lacks is not there (fasttm).
THEOREM CachedAbsenceThm == LibSpec => []CachedAbsence
<1>1. IInv => CachedAbsence
    BY DEF IInv, TablesOK, TableOK, CachedAbsence
<1> QED
    BY <1>1, Invariance, PTL

\* The frames and the C code between them (luaD_call, luaV_execute) agree.
THEOREM CallsInvariance == LibSpec => []CallsOK
<1>1. Init => CallsOK
    BY InitCalls
<1>2. CallsOK /\ [LibNext]_vars => CallsOK'
    BY LibNextCalls
<1> QED
    BY <1>1, <1>2, PTL DEF LibSpec

\* luaV_execute goes back to C exactly where it was called from C, with the
\* results that the C code takes, and never nests to the limit.
THEOREM ReentryThm == LibSpec => []Reentry
<1>1. ASSUME CallsOK PROVE Reentry
  <2>1. FramesOK(L.ci)
      BY <1>1 DEF CallsOK, Nested
  <2>2. nCcalls(L) < LUAI_MAXCCALLS
      BY <2>1 DEF FramesOK, FromC, nCcalls
  <2>3. ASSUME NEW i \in 1..(Len(L.ci) - 1) PROVE Agree(L.ci, i)
      BY <2>1 DEF FramesOK
  <2> QED
      BY <2>2, <2>3 DEF Reentry, Agree, Waits
<1>2. CallsOK => Reentry
    BY <1>1
<1> QED
    BY <1>2, CallsInvariance, PTL

-----------------------------------------------------------------------------
(* Tables: what insert and remove leave at each number.                    *)

\* Only what t maps its keys to may differ.
Elsewhere(s, r, t) ==
  /\ DOMAIN r.tabs = DOMAIN s.tabs
  /\ \A u \in DOMAIN s.tabs : u # t[2] => r.tabs[u] = s.tabs[u]
  /\ r.tabs[t[2]].meta = s.tabs[t[2]].meta

Is(s, t) == Sound(s) /\ t[2] \in DOMAIN s.tabs

LEMMA RawSetGet ==
    ASSUME NEW s, NEW t, Is(s, t), NEW key, NEW v
    PROVE  /\ Is(RawSet(s, t, key, v), t) /\ Elsewhere(s, RawSet(s, t, key, v), t)
           /\ \A x : RawGet(RawSet(s, t, key, v), t, x) = IF x = key THEN v ELSE RawGet(s, t, x)
<1> DEFINE n == t[2]
           map == s.tabs[n].map
           without == [x \in DOMAIN map \ {key} |-> map[x]]
           new == IF v = Nil THEN without ELSE With(map, key, v)
<1>1. PICK r : r = RawSet(s, t, key, v)
    OBVIOUS
<1>2. r.tabs = [s.tabs EXCEPT ![n].flags = {}, ![n].map = new]
    BY <1>1 DEF Is, Sound, RawSet
<1>3. TableOK(s.tabs[n]) /\ n \in DOMAIN s.tabs
    BY DEF Is, Sound, TablesOK
<1>4. r.tabs[n] = [map |-> new, meta |-> s.tabs[n].meta, flags |-> {}]
    BY <1>2, <1>3 DEF TableOK
<1>5. DOMAIN r.tabs = DOMAIN s.tabs
    BY <1>2
<1>6. \A u \in DOMAIN s.tabs : u # n => r.tabs[u] = s.tabs[u]
    BY <1>2
<1>7. Elsewhere(s, r, t)
  <2>1. r.tabs[n].meta = s.tabs[n].meta
      BY <1>4
  <2> QED
      BY <1>5, <1>6, <2>1 DEF Elsewhere
<1>8. Is(r, t)
    BY <1>1, <1>3, <1>5, RawSetSound DEF Is
<1>9. r.tabs[n].map = new
    BY <1>4
<1>10. ASSUME NEW x PROVE RawGet(r, t, x) = IF x = key THEN v ELSE RawGet(s, t, x)
  <2>1. RawGet(r, t, x) = IF x \in DOMAIN new THEN new[x] ELSE Nil
      BY <1>9 DEF RawGet
  <2>2. RawGet(s, t, x) = IF x \in DOMAIN map THEN map[x] ELSE Nil
      BY DEF RawGet
  <2>3. CASE v = Nil
    <3>1. new = without
        BY <2>3
    <3> QED
        BY <2>1, <2>2, <2>3, <3>1
  <2>4. CASE v # Nil
    <3>1. new = [y \in {key} \cup DOMAIN map |-> IF y \in {key} THEN v ELSE map[y]]
        BY <2>4 DEF With, Over
    <3> HIDE DEF new
    <3>2. DOMAIN new = {key} \cup DOMAIN map
        BY <3>1
    <3>3. x \in DOMAIN new => new[x] = IF x = key THEN v ELSE map[x]
        BY <3>1
    <3> QED
        BY <2>1, <2>2, <2>4, <3>2, <3>3
  <2> QED
      BY <2>3, <2>4
<1> QED
    BY <1>1, <1>7, <1>8, <1>10

NotANumber(key) == \A i \in Int : key # Number(i)
Target(first, step, n) == IF step = 1 THEN first - n + 1 .. first ELSE first .. first + n - 1

\* The numbers of M have what was a step before them.
Shifted(s, r, t, step, M) ==
  /\ Is(r, t) /\ Elsewhere(s, r, t)
  /\ \A i \in Int : lua_rawgeti(r, t, i) = lua_rawgeti(s, t, IF i \in M THEN i - step ELSE i)
  /\ \A key : NotANumber(key) => RawGet(r, t, key) = RawGet(s, t, key)

LEMMA MoveShifts ==
    ASSUME NEW s, NEW x, NEW t, NEW step \in {1, -1}, NEW first \in Int, NEW n \in Nat,
           Shifted(s, x, t, step, Target(first, step, n))
    PROVE  Shifted(s, Moving(x, t, first - n * step, step), t, step, Target(first, step, n + 1))
<1>1. PICK i \in Int : i = first - n * step
    OBVIOUS
<1>2. PICK v : v = lua_rawgeti(x, t, i - step)
    OBVIOUS
<1>3. PICK r : r = RawSet(x, t, Number(i), v)
    OBVIOUS
<1>4. r = Moving(x, t, first - n * step, step)
    BY <1>1, <1>2, <1>3 DEF Moving, lua_rawseti
<1>5. /\ Is(r, t) /\ Elsewhere(x, r, t)
      /\ \A key : RawGet(r, t, key) = IF key = Number(i) THEN v ELSE RawGet(x, t, key)
    BY <1>3, RawSetGet DEF Shifted
<1>6. Elsewhere(s, r, t)
    BY <1>5 DEF Elsewhere, Shifted, Is
<1> DEFINE M == Target(first, step, n)
           M1 == Target(first, step, n + 1)
<1>7. i - step \notin M /\ i \in M1 /\ i - step \in Int /\ \A j \in Int : j # i => (j \in M1 <=> j \in M)
  <2>1. CASE step = 1
      BY <1>1, <2>1 DEF Target
  <2>2. CASE step = -1
      BY <1>1, <2>2 DEF Target
  <2> QED
      BY <2>1, <2>2
<1> HIDE DEF M, M1
<1>8. \A j \in Int : lua_rawgeti(x, t, j) = lua_rawgeti(s, t, IF j \in M THEN j - step ELSE j)
    BY DEF Shifted, M
<1>9. v = lua_rawgeti(s, t, i - step)
    BY <1>2, <1>7, <1>8
<1>10. ASSUME NEW j \in Int
       PROVE  lua_rawgeti(r, t, j) = lua_rawgeti(s, t, IF j \in M1 THEN j - step ELSE j)
  <2>1. lua_rawgeti(r, t, j) = IF Number(j) = Number(i) THEN v ELSE lua_rawgeti(x, t, j)
      BY <1>5 DEF lua_rawgeti
  <2>2. Number(j) = Number(i) <=> j = i
      BY DEF Number
  <2>3. CASE j = i
      BY <1>7, <1>9, <2>1, <2>2, <2>3
  <2>4. CASE j # i
      BY <1>7, <1>8, <2>1, <2>2, <2>4
  <2> QED
      BY <2>3, <2>4
<1>11. ASSUME NEW key, NotANumber(key) PROVE RawGet(r, t, key) = RawGet(s, t, key)
    BY <1>5, <1>11 DEF NotANumber, Shifted
<1> QED
    BY <1>4, <1>5, <1>6, <1>10, <1>11 DEF Shifted, M1

LEMMA MovesShift ==
    ASSUME NEW s, NEW t, Is(s, t), NEW step \in {1, -1}, NEW first \in Int, NEW count \in Nat
    PROVE  Shifted(s, Moves(s, t, first, step, count), t, step, Target(first, step, count))
<1> DEFINE f == CHOOSE x : IsMoves(x, s, t, first, step, count)
           P == {N \in Nat : N \in 0..count => Shifted(s, f[N], t, step, Target(first, step, N))}
<1>1. IsMoves(f, s, t, first, step, count)
    BY MovesExist
<1>2. Moves(s, t, first, step, count) = f[count]
    BY DEF Moves, IsMoves, Moving
<1> HIDE DEF f
<1>3. 0 \in P
  <2>1. f[0] = s
      BY <1>1 DEF IsMoves
  <2>2. \A i \in Int : i \notin Target(first, step, 0)
      BY DEF Target
  <2>3. Elsewhere(s, s, t)
      BY DEF Elsewhere
  <2>4. Shifted(s, s, t, step, Target(first, step, 0))
      BY <2>2, <2>3 DEF Shifted
  <2> QED
      BY <2>1, <2>4
<1>4. ASSUME NEW N \in Nat, N \in P PROVE N + 1 \in P
  <2> SUFFICES ASSUME N + 1 \in 0..count PROVE Shifted(s, f[N + 1], t, step, Target(first, step, N + 1))
      OBVIOUS
  <2>1. Shifted(s, f[N], t, step, Target(first, step, N))
      BY <1>4
  <2>2. f[N + 1] = Moving(f[N], t, first - (N + 1 - 1) * step, step)
      BY <1>1 DEF IsMoves
  <2>3. N + 1 - 1 = N
      OBVIOUS
  <2> QED
      BY <2>1, <2>2, <2>3, MoveShifts
<1> HIDE DEF P
<1>5. \A N \in Nat : N \in P
    BY <1>3, <1>4, SetInduction
<1> QED
    BY <1>2, <1>5 DEF P

LEMMA ResultsFields ==
    ASSUME NEW x, NEW s, NEW r, x = Results(s, r)
    PROVE  x.s = s /\ x.r = r /\ x.err = ""
BY DEF Results

LEMMA NumberValue ==
    ASSUME NEW n
    PROVE  luaV_tonumber(Number(n)) = Number(n) /\ Number(n) # Nil /\ Number(n)[2] = n
<1>1. Number(n)[1] = "number" /\ Number(n)[2] = n
    BY DEF Number
<1>2. Nil[1] = "nil"
    BY DEF Nil
<1>3. IsNumber(Number(n))
    BY <1>1 DEF IsNumber
<1>4. luaV_tonumber(Number(n)) = Number(n)
    BY <1>1, <1>3 DEF luaV_tonumber, IsString
<1> QED
    BY <1>1, <1>2, <1>4

LEMMA LengthIsNat ==
    ASSUME NEW s, NEW t, IsFiniteSet(DOMAIN s.tabs[t[2]].map)
    PROVE  luaH_getn(s, t) \in Nat
<1>1. IsFiniteSet({x \in DOMAIN s.tabs[t[2]].map : IsNumber(x) /\ x[2] >= 1})
    BY FS_Subset
<1> QED
    BY <1>1, FS_CardinalityType DEF luaH_getn

\* table.insert opens a place at pos, in a table of any size: what was there
\* and after it moves up by one, and nothing else changes (tinsert, ltablib.c:
\* it must move from the end, and may be told a place beyond it).
THEOREM InsertThm ==
    ASSUME NEW s, NEW t, IsTable(t), Is(s, t), IsFiniteSet(DOMAIN s.tabs[t[2]].map),
           NEW pos \in Int, NEW v, NEW args,
           args = <<t, Number(pos), v>> \/ (args = <<t, v>> /\ pos = luaH_getn(s, t) + 1)
    PROVE  LET r == tinsert(s, args)
           IN  /\ r.err = "" /\ r.r = <<>> /\ Elsewhere(s, r.s, t)
               /\ \A i \in Int : lua_rawgeti(r.s, t, i) =
                    IF i = pos THEN v
                    ELSE lua_rawgeti(s, t, IF i \in pos + 1 .. luaH_getn(s, t) + 1 THEN i - 1 ELSE i)
               /\ \A key : NotANumber(key) => RawGet(r.s, t, key) = RawGet(s, t, key)
<1> DEFINE n == luaH_getn(s, t) + 1
           e == LargestOf(n, pos)
           moved == Moves(s, t, e, 1, e - pos)
<1>1. n \in Nat /\ e \in Int /\ e - pos \in Nat /\ (e = n \/ (e = pos /\ pos > n))
    BY LengthIsNat DEF LargestOf
<1>2. Arg(args, 1) = t /\ IsTab(args) /\ Len(args) \in 2..3 /\ Last(args) = v
  <2>1. PICK p : args = <<t, p, v>> \/ args = <<t, v>>
      OBVIOUS
  <2>2. Len(args) \in 2..3 /\ args[1] = t /\ args[Len(args)] = v
    <3>1. CASE args = <<t, p, v>>
        BY <3>1
    <3>2. CASE args = <<t, v>>
        BY <3>2
    <3> QED
        BY <2>1, <3>1, <3>2
  <2> QED
      BY <2>2 DEF Arg, IsTab, Last
<1>3. Len(args) = 3 => IsInt(args, 2) /\ IntArg(args, 2) = pos
  <2>1. ASSUME Len(args) = 3 PROVE Arg(args, 2) = Number(pos)
      BY <2>1 DEF Arg
  <2>2. luaV_tonumber(Number(pos)) = Number(pos) /\ Number(pos) # Nil /\ Number(pos)[2] = pos
      BY NumberValue
  <2> QED
      BY <2>1, <2>2 DEF IsInt, IntArg
<1>4. Len(args) = 2 => pos = n
    OBVIOUS
<1>5. tinsert(s, args) = Results(lua_rawseti(moved, t, pos, v), <<>>)
  <2>1. (IF Len(args) = 2 THEN n ELSE IntArg(args, 2)) = pos
      BY <1>2, <1>3, <1>4
  <2> QED
      BY <1>2, <1>3, <2>1 DEF tinsert
<1>6. Shifted(s, moved, t, 1, Target(e, 1, e - pos))
    BY <1>1, MovesShift
<1>7. \A i \in Int : i # pos => (i \in Target(e, 1, e - pos) <=> i \in pos + 1 .. n)
    BY <1>1 DEF Target
<1>8. PICK r : r = RawSet(moved, t, Number(pos), v)
    OBVIOUS
<1>9. tinsert(s, args).s = r /\ tinsert(s, args).err = "" /\ tinsert(s, args).r = <<>>
  <2> HIDE DEF moved
  <2>1. tinsert(s, args) = Results(r, <<>>)
      BY <1>5, <1>8 DEF lua_rawseti
  <2> QED
      BY <2>1, ResultsFields
<1> HIDE DEF moved, e, n
<1>10. /\ Elsewhere(moved, r, t)
       /\ \A key : RawGet(r, t, key) = IF key = Number(pos) THEN v ELSE RawGet(moved, t, key)
    BY <1>6, <1>8, RawSetGet DEF Shifted
<1>11. Elsewhere(s, r, t)
    BY <1>6, <1>10 DEF Elsewhere, Shifted, Is
<1>12. ASSUME NEW i \in Int
       PROVE  lua_rawgeti(r, t, i) =
                IF i = pos THEN v ELSE lua_rawgeti(s, t, IF i \in pos + 1 .. n THEN i - 1 ELSE i)
  <2>1. lua_rawgeti(r, t, i) = IF Number(i) = Number(pos) THEN v ELSE lua_rawgeti(moved, t, i)
      BY <1>10 DEF lua_rawgeti
  <2>2. Number(i) = Number(pos) <=> i = pos
      BY DEF Number
  <2>3. lua_rawgeti(moved, t, i) = lua_rawgeti(s, t, IF i \in Target(e, 1, e - pos) THEN i - 1 ELSE i)
      BY <1>6 DEF Shifted
  <2> QED
      BY <1>7, <2>1, <2>2, <2>3
<1>13. ASSUME NEW key, NotANumber(key) PROVE RawGet(r, t, key) = RawGet(s, t, key)
    BY <1>6, <1>10, <1>13 DEF NotANumber, Shifted
<1> QED
    BY <1>9, <1>11, <1>12, <1>13 DEF n

\* table.remove takes the value at pos out and closes the place, if there is
\* one: what is after it moves down by one (tremove, ltablib.c).
THEOREM RemoveThm ==
    ASSUME NEW s, NEW t, IsTable(t), Is(s, t), IsFiniteSet(DOMAIN s.tabs[t[2]].map),
           NEW pos \in Int, NEW args,
           args = <<t, Number(pos)>> \/ (args = <<t>> /\ pos = luaH_getn(s, t))
    PROVE  LET r == tremove(s, args)
               n == luaH_getn(s, t)
           IN  /\ r.err = "" /\ Elsewhere(s, r.s, t)
               /\ pos \notin 1..n => r.s = s /\ r.r = <<>>
               /\ pos \in 1..n =>
                    /\ r.r = <<lua_rawgeti(s, t, pos)>>
                    /\ \A i \in Int : lua_rawgeti(r.s, t, i) =
                         IF i = n THEN Nil ELSE lua_rawgeti(s, t, IF i \in pos .. n - 1 THEN i + 1 ELSE i)
                    /\ \A key : NotANumber(key) => RawGet(r.s, t, key) = RawGet(s, t, key)
<1> DEFINE n == luaH_getn(s, t)
           moved == Moves(s, t, pos, -1, n - pos)
<1>1. n \in Nat
    BY LengthIsNat
<1>2. Arg(args, 1) = t /\ IsTab(args)
  <2>1. PICK p : args = <<t, p>> \/ args = <<t>>
      OBVIOUS
  <2>2. Len(args) >= 1 /\ args[1] = t
      BY <2>1
  <2> QED
      BY <2>2 DEF Arg, IsTab
<1>3. OptInt(args, 2) /\ luaL_optinteger(args, 2, n) = pos
  <2>1. CASE args = <<t, Number(pos)>>
    <3>1. Arg(args, 2) = Number(pos)
        BY <2>1 DEF Arg
    <3>2. luaV_tonumber(Number(pos)) = Number(pos) /\ Number(pos) # Nil /\ Number(pos)[2] = pos
        BY NumberValue
    <3> QED
        BY <3>1, <3>2 DEF OptInt, luaL_optinteger, IsGiven, IsInt, IntArg
  <2>2. CASE args = <<t>> /\ pos = n
    <3>1. Arg(args, 2) = Nil
        BY <2>2 DEF Arg
    <3> QED
        BY <2>2, <3>1 DEF OptInt, luaL_optinteger, IsGiven
  <2> QED
      BY <2>1, <2>2
<1>4. CASE pos \notin 1..n
  <2>1. tremove(s, args) = Results(s, <<>>)
      BY <1>2, <1>3, <1>4 DEF tremove
  <2>2. tremove(s, args).s = s /\ tremove(s, args).r = <<>> /\ tremove(s, args).err = ""
      BY <2>1, ResultsFields
  <2>3. Elsewhere(s, s, t)
      BY DEF Elsewhere
  <2> QED
      BY <1>4, <2>2, <2>3
<1>5. CASE pos \in 1..n
  <2>1. tremove(s, args) = Results(lua_rawseti(moved, t, n, Nil), <<lua_rawgeti(s, t, pos)>>)
      BY <1>2, <1>3, <1>5 DEF tremove
  <2>2. Shifted(s, moved, t, -1, Target(pos, -1, n - pos))
    <3>1. n - pos \in Nat /\ -1 \in {1, -1}
        BY <1>1, <1>5
    <3> QED
        BY <3>1, MovesShift
  <2>3. \A i \in Int : i \in Target(pos, -1, n - pos) <=> i \in pos .. n - 1
      BY <1>1, <1>5 DEF Target
  <2>4. PICK r : r = RawSet(moved, t, Number(n), Nil)
      OBVIOUS
  <2>5. /\ tremove(s, args).s = r /\ tremove(s, args).err = ""
        /\ tremove(s, args).r = <<lua_rawgeti(s, t, pos)>>
    <3>1. tremove(s, args) = Results(r, <<lua_rawgeti(s, t, pos)>>)
        BY <2>1, <2>4 DEF lua_rawseti
    <3> QED
        BY <3>1, ResultsFields
  <2> HIDE DEF moved, n
  <2>6. /\ Elsewhere(moved, r, t)
        /\ \A key : RawGet(r, t, key) = IF key = Number(n) THEN Nil ELSE RawGet(moved, t, key)
      BY <2>2, <2>4, RawSetGet DEF Shifted
  <2>7. Elsewhere(s, r, t)
      BY <2>2, <2>6 DEF Elsewhere, Shifted, Is
  <2>8. ASSUME NEW i \in Int
        PROVE  lua_rawgeti(r, t, i) =
                 IF i = n THEN Nil ELSE lua_rawgeti(s, t, IF i \in pos .. n - 1 THEN i + 1 ELSE i)
    <3>1. lua_rawgeti(r, t, i) = IF Number(i) = Number(n) THEN Nil ELSE lua_rawgeti(moved, t, i)
        BY <2>6 DEF lua_rawgeti
    <3>2. Number(i) = Number(n) <=> i = n
        BY DEF Number
    <3>3. lua_rawgeti(moved, t, i) = lua_rawgeti(s, t, IF i \in Target(pos, -1, n - pos) THEN i - -1 ELSE i)
        BY <2>2 DEF Shifted
    <3>4. i - -1 = i + 1
        OBVIOUS
    <3> QED
        BY <2>3, <3>1, <3>2, <3>3, <3>4
  <2>9. ASSUME NEW key, NotANumber(key) PROVE RawGet(r, t, key) = RawGet(s, t, key)
      BY <1>1, <2>2, <2>6, <2>9 DEF NotANumber, Shifted
  <2> QED
      BY <1>5, <2>5, <2>7, <2>8, <2>9 DEF n
<1> QED
    BY <1>4, <1>5

-----------------------------------------------------------------------------
(* Streams.                                                                *)

\* The pieces one after the other; f[k] is the last k of them.
Before(q, k, bytes) == q[Len(q) + 1 - k] \o bytes
IsJoin(f, q) == f = [k \in 0..Len(q) |-> IF k = 0 THEN <<>> ELSE Before(q, k, f[k - 1])]
Joined(q) == (CHOOSE f : IsJoin(f, q))[Len(q)]

\* What is left to be read.
Left(z) == z.p \o Joined(z.rest)

IsStream(z, S) == z = [p |-> z.p, rest |-> z.rest] /\ z.p \in Seq(S) /\ z.rest \in Seq(Seq(S))

LEMMA JoinExists ==
    ASSUME NEW S, NEW q \in Seq(Seq(S))
    PROVE  \E f : IsJoin(f, q)
<1> DEFINE n == Len(q)
           Good(g, N) == \A k \in 0..N : g[k] = IF k = 0 THEN <<>> ELSE Before(q, k, g[k - 1])
           P == {N \in Nat : \E g : Good(g, N)}
<1>0. n \in Nat
    BY LenProperties
<1>1. 0 \in P
  <2>1. Good([k \in {0} |-> <<>>], 0)
      OBVIOUS
  <2> QED
      BY <2>1
<1>2. ASSUME NEW N \in Nat, N \in P PROVE N + 1 \in P
  <2>1. PICK g : Good(g, N)
      BY <1>2
  <2> DEFINE h == [k \in 0..N + 1 |-> IF k = N + 1 THEN Before(q, N + 1, g[N]) ELSE g[k]]
  <2>2. \A k \in 0..N : h[k] = g[k]
      OBVIOUS
  <2>3. h[N + 1] = Before(q, N + 1, g[N])
      OBVIOUS
  <2> HIDE DEF h, n
  <2>4. ASSUME NEW k \in 0..N + 1
        PROVE  h[k] = IF k = 0 THEN <<>> ELSE Before(q, k, h[k - 1])
    <3>1. CASE k = N + 1
        BY <2>2, <2>3, <3>1
    <3>2. CASE k \in 0..N
      <4>1. h[k] = g[k] /\ (k # 0 => h[k - 1] = g[k - 1])
          BY <3>2, <2>2
      <4> QED
          BY <3>2, <4>1, <2>1
    <3> QED
        BY <3>1, <3>2
  <2>5. Good(h, N + 1)
      BY <2>4
  <2> QED
      BY <2>5
<1>3. n \in P
  <2> HIDE DEF P, n
  <2> QED
      BY <1>0, <1>1, <1>2, SetInduction
<1>4. PICK g : Good(g, n)
    BY <1>3
<1> DEFINE f == [k \in 0..n |-> g[k]]
<1>5. ASSUME NEW k \in 0..n
      PROVE  f[k] = IF k = 0 THEN <<>> ELSE Before(q, k, f[k - 1])
  <2>1. f[k] = g[k] /\ (k # 0 => f[k - 1] = g[k - 1])
      BY <1>0
  <2> HIDE DEF f
  <2> QED
      BY <2>1, <1>4
<1>6. f = [k \in 0..n |-> f[k]]
    OBVIOUS
<1> HIDE DEF f
<1> QED
    BY <1>5, <1>6 DEF IsJoin

LEMMA JoinedPieces ==
    ASSUME NEW S, NEW q \in Seq(Seq(S))
    PROVE  /\ Joined(q) \in Seq(S)
           /\ q = <<>> => Joined(q) = <<>>
           /\ q # <<>> => Joined(q) = Head(q) \o Joined(Tail(q))
<1> DEFINE n == Len(q)
<1>1. n \in Nat /\ DOMAIN q = 1..n /\ \A i \in 1..n : q[i] \in Seq(S)
    BY LenProperties, ElementOfSeq
<1>2. PICK f : IsJoin(f, q) /\ Joined(q) = f[n]
  <2> DEFINE f == CHOOSE f : IsJoin(f, q)
  <2>1. IsJoin(f, q)
      BY JoinExists
  <2> QED
      BY <2>1 DEF Joined
<1> HIDE DEF n
<1>3. f[0] = <<>> /\ \A k \in 1..n : f[k] = Before(q, k, f[k - 1])
  <2>1. Len(q) = n
      BY DEF n
  <2>2. f = [k \in 0..n |-> IF k = 0 THEN <<>> ELSE Before(q, k, f[k - 1])]
      BY <1>2, <2>1 DEF IsJoin
  <2>3. 0 \in 0..n
      BY <1>1
  <2>4. ASSUME NEW k \in 1..n PROVE k \in 0..n /\ k # 0
      BY <1>1
  <2> QED
      BY <2>2, <2>3, <2>4
<1>4. \A k \in Nat : k \in 0..n => f[k] \in Seq(S)
  <2> DEFINE P == {k \in Nat : k \in 0..n => f[k] \in Seq(S)}
  <2>1. 0 \in P
      BY <1>3, EmptySeq
  <2>2. ASSUME NEW k \in Nat, k \in P PROVE k + 1 \in P
    <3> SUFFICES ASSUME k + 1 \in 0..n PROVE f[k + 1] \in Seq(S)
        OBVIOUS
    <3>1. f[k] \in Seq(S) /\ n - k \in 1..n /\ k + 1 \in 1..n /\ k + 1 - 1 = k /\ n + 1 - (k + 1) = n - k
        BY <1>1, <2>2
    <3>2. f[k + 1] = Before(q, k + 1, f[k])
        BY <1>3, <3>1
    <3>3. f[k + 1] = q[n - k] \o f[k]
        BY <3>1, <3>2 DEF Before, n
    <3> QED
        BY <1>1, <3>1, <3>3, ConcatProperties
  <2> HIDE DEF P
  <2>3. \A k \in Nat : k \in P
      BY <2>1, <2>2, SetInduction
  <2> QED
      BY <2>3 DEF P
<1>5. Joined(q) \in Seq(S)
    BY <1>1, <1>2, <1>4
<1>6. ASSUME q = <<>> PROVE Joined(q) = <<>>
    BY <1>2, <1>3, <1>6, EmptySeq DEF n
<1>7. ASSUME q # <<>> PROVE Joined(q) = Head(q) \o Joined(Tail(q))
  <2> DEFINE r == Tail(q)
             m == Len(r)
  <2>1. r \in Seq(Seq(S)) /\ m = n - 1 /\ n >= 1 /\ m \in Nat /\ \A i \in 1..m : r[i] = q[i + 1]
    <3>1. n # 0
        BY <1>7, <1>1, EmptySeq DEF n
    <3> QED
        BY <3>1, <1>1, <1>7, HeadTailProperties DEF n
  <2>2. PICK g : IsJoin(g, r) /\ Joined(r) = g[m]
    <3> DEFINE g == CHOOSE g : IsJoin(g, r)
    <3>1. IsJoin(g, r)
        BY <2>1, JoinExists
    <3> QED
        BY <3>1 DEF Joined
  <2> HIDE DEF m, r
  <2>3. g[0] = <<>> /\ \A k \in 1..m : g[k] = Before(r, k, g[k - 1])
    <3>1. Len(r) = m
        BY DEF m
    <3>2. g = [k \in 0..m |-> IF k = 0 THEN <<>> ELSE Before(r, k, g[k - 1])]
        BY <2>2, <3>1 DEF IsJoin
    <3>3. 0 \in 0..m
        BY <2>1
    <3>4. ASSUME NEW k \in 1..m PROVE k \in 0..m /\ k # 0
        BY <2>1
    <3> QED
        BY <3>2, <3>3, <3>4
  <2> DEFINE P == {k \in Nat : k \in 0..m => g[k] = f[k]}
  <2>4. 0 \in P
      BY <1>3, <2>3
  <2>5. ASSUME NEW k \in Nat, k \in P PROVE k + 1 \in P
    <3> SUFFICES ASSUME k + 1 \in 0..m PROVE g[k + 1] = f[k + 1]
        OBVIOUS
    <3>0. /\ k + 1 \in 1..m /\ k + 1 \in 1..n /\ k + 1 - 1 = k /\ k \in 0..m
          /\ m - k \in 1..m /\ m + 1 - (k + 1) = m - k /\ n + 1 - (k + 1) = m - k + 1
        BY <1>1, <2>1
    <3>1. g[k + 1] = Before(r, k + 1, g[k])
        BY <2>3, <3>0
    <3>2. f[k + 1] = Before(q, k + 1, f[k])
        BY <1>3, <3>0
    <3>3. r[m - k] = q[m - k + 1]
        BY <2>1, <3>0
    <3>4. g[k] = f[k]
        BY <2>5, <3>0
    <3> QED
        BY <3>0, <3>1, <3>2, <3>3, <3>4 DEF Before, n, m
  <2> HIDE DEF P
  <2>6. \A k \in Nat : k \in P
      BY <2>4, <2>5, SetInduction
  <2>7. g[m] = f[n - 1]
    <3>1. m \in 0..m /\ n - 1 = m
        BY <1>1, <2>1
    <3> QED
        BY <2>1, <2>6, <3>1 DEF P
  <2>8. f[n] = q[1] \o f[n - 1]
    <3>1. n \in 1..n /\ n + 1 - n = 1
        BY <1>1, <2>1
    <3>2. f[n] = Before(q, n, f[n - 1])
        BY <1>3, <3>1
    <3> QED
        BY <3>1, <3>2 DEF Before, n
  <2>9. Head(q) = q[1]
      OBVIOUS
  <2> QED
      BY <1>2, <2>2, <2>7, <2>8, <2>9 DEF r
<1> QED
    BY <1>5, <1>6, <1>7

\* Concatenation, by a name that hides it.
Cat(s, t) == s \o t

LEMMA Associative ==
    \A S : \A s \in Seq(S), t \in Seq(S), u \in Seq(S) : Cat(Cat(s, t), u) = Cat(s, Cat(t, u))
<1>1. ASSUME NEW S, NEW s \in Seq(S), NEW t \in Seq(S), NEW u \in Seq(S)
      PROVE  (s \o t) \o u = s \o (t \o u)
    BY ConcatAssociative
<1> QED
    BY <1>1, Zenon DEF Cat

LEMMA LeftSeq ==
    ASSUME NEW S, NEW z, IsStream(z, S)
    PROVE  Left(z) \in Seq(S)
BY JoinedPieces, ConcatProperties DEF Left, IsStream

\* To look ahead takes nothing from the stream.
LEMMA LookaheadKeeps ==
    ASSUME NEW S, NEW z, IsStream(z, S)
    PROVE  IsStream(luaZ_lookahead(z), S) /\ Left(luaZ_lookahead(z)) = Left(z)
<1>1. CASE z.p = <<>> /\ z.rest # <<>>
  <2>1. luaZ_lookahead(z) = [p |-> Head(z.rest), rest |-> Tail(z.rest)]
      BY <1>1 DEF luaZ_lookahead, luaZ_fill
  <2>2. Head(z.rest) \in Seq(S) /\ Tail(z.rest) \in Seq(Seq(S))
      BY <1>1, HeadTailProperties DEF IsStream
  <2>3. Joined(z.rest) \in Seq(S) /\ Joined(z.rest) = Head(z.rest) \o Joined(Tail(z.rest))
      BY <1>1, JoinedPieces DEF IsStream
  <2>4. Left(z) = Joined(z.rest)
      BY <1>1, <2>3, ConcatEmptySeq DEF Left
  <2>5. Left(luaZ_lookahead(z)) = Head(z.rest) \o Joined(Tail(z.rest))
    <3>1. luaZ_lookahead(z).p = Head(z.rest) /\ luaZ_lookahead(z).rest = Tail(z.rest)
        BY <2>1
    <3> QED
        BY <3>1 DEF Left
  <2>6. IsStream(luaZ_lookahead(z), S)
      BY <2>1, <2>2 DEF IsStream
  <2> QED
      BY <2>3, <2>4, <2>5, <2>6
<1>2. CASE ~(z.p = <<>> /\ z.rest # <<>>)
    BY <1>2 DEF luaZ_lookahead, luaZ_fill
<1> QED
    BY <1>1, <1>2

\* A reader that has more to give gives a byte at least.
NoEmptyPiece(z) == \A i \in DOMAIN z.rest : z.rest[i] # <<>>

LEMMA LookaheadFull ==
    ASSUME NEW S, NEW z, IsStream(z, S), NoEmptyPiece(z)
    PROVE  /\ NoEmptyPiece(luaZ_lookahead(z))
           /\ luaZ_lookahead(z).p = <<>> => Left(luaZ_lookahead(z)) = <<>>
<1> DEFINE q == z.rest
<1>0. z.p \in Seq(S) /\ q \in Seq(Seq(S))
    BY DEF IsStream
<1>1. CASE z.p = <<>> /\ q # <<>>
  <2>1. luaZ_lookahead(z).p = Head(q) /\ luaZ_lookahead(z).rest = Tail(q)
      BY <1>1 DEF luaZ_lookahead, luaZ_fill
  <2>2. Len(q) \in Nat /\ Len(q) # 0 /\ DOMAIN q = 1..Len(q)
      BY <1>0, <1>1, LenProperties, EmptySeq
  <2>3. Head(q) # <<>>
    <3>1. Head(q) = q[1] /\ 1 \in DOMAIN q
        BY <2>2
    <3> QED
        BY <3>1 DEF NoEmptyPiece
  <2>4. ASSUME NEW i \in DOMAIN Tail(q) PROVE Tail(q)[i] # <<>>
    <3>1. Tail(q) \in Seq(Seq(S)) /\ Len(Tail(q)) = Len(q) - 1
          /\ \A j \in 1..Len(Tail(q)) : Tail(q)[j] = q[j + 1]
        BY <1>0, <1>1, HeadTailProperties
    <3>2. DOMAIN Tail(q) = 1..Len(Tail(q))
        BY <3>1, LenProperties
    <3>3. i + 1 \in DOMAIN q /\ Tail(q)[i] = q[i + 1]
        BY <2>2, <3>1, <3>2
    <3> QED
        BY <3>3 DEF NoEmptyPiece
  <2> QED
      BY <2>1, <2>3, <2>4 DEF NoEmptyPiece
<1>2. CASE z.p = <<>> /\ q = <<>>
  <2>1. luaZ_lookahead(z) = z
      BY <1>2 DEF luaZ_lookahead, luaZ_fill
  <2>2. Joined(z.rest) = <<>>
      BY <1>0, <1>2, JoinedPieces
  <2>3. Left(z) = <<>>
      BY <1>2, <2>2, EmptySeq, ConcatEmptySeq DEF Left
  <2> QED
      BY <2>1, <2>3
<1>3. CASE z.p # <<>>
    BY <1>3 DEF luaZ_lookahead
<1> QED
    BY <1>1, <1>2, <1>3

\* The loop of luaZ_read after t turns, for n bytes of a stream of the bytes
\* `all`: what was read and what is left make up the stream; each turn
\* reads, unless all is read.
Reading(S, all, n, t, r) ==
  /\ IsStream(r.z, S) /\ NoEmptyPiece(r.z)
  /\ r.b \in Seq(S) /\ r.missing \in Nat
  /\ r.b \o Left(r.z) = all
  /\ Len(r.b) + r.missing = n
  /\ r.eoz => Left(r.z) = <<>>
  /\ r.missing = 0 \/ r.eoz \/ r.missing + t <= n

LEMMA ExceptP ==
    ASSUME NEW y, NEW a, NEW b, NEW x, y = [p |-> a, rest |-> b]
    PROVE  [y EXCEPT !.p = x] = [p |-> x, rest |-> b]
OBVIOUS

LEMMA TurnReads ==
    ASSUME NEW S, NEW all, NEW n \in Nat, NEW t \in Nat, NEW r,
           Reading(S, all, n, t, r), r.missing # 0, ~r.eoz
    PROVE  Reading(S, all, n, t + 1, ReadTurn(r))
<1> DEFINE y == luaZ_lookahead(r.z)
           m == IF r.missing <= Len(y.p) THEN r.missing ELSE Len(y.p)
           first == SubSeq(y.p, 1, m)
           last == SubSeq(y.p, m + 1, Len(y.p))
           J == Joined(y.rest)
<1>1. IsStream(y, S) /\ Left(y) = Left(r.z) /\ NoEmptyPiece(y) /\ (y.p = <<>> => Left(y) = <<>>)
    BY LookaheadKeeps, LookaheadFull DEF Reading
<1>2. /\ y = [p |-> y.p, rest |-> y.rest] /\ y.p \in Seq(S) /\ y.rest \in Seq(Seq(S))
      /\ J \in Seq(S) /\ Left(y) = y.p \o J
    BY <1>1, JoinedPieces DEF IsStream, Left
<1>3. Len(y.p) \in Nat /\ m \in 0..Len(y.p) /\ m <= r.missing
    BY <1>2, LenProperties DEF Reading
<1>4. first \in Seq(S) /\ last \in Seq(S) /\ first \o last = y.p /\ Len(first) = m
  <2> HIDE DEF y, m
  <2>1. \A i \in 1..Len(y.p) : y.p[i] \in S
      BY <1>2, ElementOfSeq
  <2>2. first \in Seq(S) /\ Len(first) = m
    <3>1. \A i \in 1..m : y.p[i] \in S
        BY <1>3, <2>1
    <3>2. first \in Seq(S) /\ Len(first) = IF 1 <= m THEN m - 1 + 1 ELSE 0
        BY <1>3, <3>1, SubSeqProperties
    <3> QED
        BY <1>3, <3>2
  <2>3. last \in Seq(S)
    <3>1. \A i \in m + 1..Len(y.p) : y.p[i] \in S
        BY <1>3, <2>1
    <3> QED
        BY <1>3, <3>1, SubSeqProperties
  <2>4. first \o last = SubSeq(y.p, 1, Len(y.p))
    <3>1. 1 \in 1..Len(y.p) + 1 /\ m \in 1 - 1..Len(y.p) /\ Len(y.p) \in m..Len(y.p)
        BY <1>3
    <3> QED
        BY <1>2, <3>1, ConcatAdjacentSubSeq
  <2> QED
      BY <1>2, <2>2, <2>3, <2>4, SubSeqFull
<1>5. PICK r1 : r1 = ReadTurn(r)
    OBVIOUS
<1>6. /\ r1.z.p = last /\ r1.z.rest = y.rest /\ r1.z = [p |-> last, rest |-> y.rest]
      /\ r1.b = r.b \o first /\ r1.missing = r.missing - m /\ (r1.eoz <=> y.p = <<>>)
  <2>1. r1.z = [y EXCEPT !.p = last] /\ r1.b = r.b \o first /\ r1.missing = r.missing - m
        /\ (r1.eoz <=> y.p = <<>>)
      BY <1>5 DEF ReadTurn
  <2> HIDE DEF y, m, first, last
  <2>2. PICK a, b : y = [p |-> a, rest |-> b] /\ b = y.rest
      BY <1>2
  <2>3. [y EXCEPT !.p = last] = [p |-> last, rest |-> b]
      BY <2>2, ExceptP
  <2>4. r1.z = [p |-> last, rest |-> y.rest]
      BY <2>1, <2>2, <2>3
  <2> QED
      BY <2>1, <2>4
<1> HIDE DEF y, m, first, last, J
<1>7. r.b \in Seq(S) /\ r.missing \in Nat /\ r.b \o Left(r.z) = all /\ Len(r.b) + r.missing = n
      /\ r.missing + t <= n
    BY DEF Reading
<1>8. IsStream(r1.z, S) /\ NoEmptyPiece(r1.z)
    BY <1>1, <1>2, <1>4, <1>6 DEF IsStream, NoEmptyPiece
<1>9. r1.b \in Seq(S) /\ Len(r1.b) = Len(r.b) + m
    BY <1>4, <1>6, <1>7, ConcatProperties
<1>10. r1.b \o Left(r1.z) = all
  <2>1. Left(r1.z) = last \o J
    <3>1. r1.z.p = last /\ r1.z.rest = y.rest
        BY <1>6
    <3> QED
        BY <3>1 DEF Left, J
  <2>2. first \o (last \o J) = Left(y)
    <3>1. J \in Seq(S) /\ first \in Seq(S) /\ last \in Seq(S)
        BY <1>2, <1>4
    <3>2. Cat(Cat(first, last), J) = Cat(first, Cat(last, J))
        BY <3>1, Associative
    <3>3. first \o last = y.p
        BY <1>4
    <3>4. Left(y) = y.p \o J
        BY <1>2
    <3> QED
        BY <3>2, <3>3, <3>4, Zenon DEF Cat
  <2>3. last \o J \in Seq(S)
    <3>1. J \in Seq(S) /\ last \in Seq(S)
        BY <1>2, <1>4
    <3> QED
        BY <3>1, ConcatProperties
  <2>4. (r.b \o first) \o (last \o J) = r.b \o (first \o (last \o J))
    <3>1. r.b \in Seq(S) /\ first \in Seq(S)
        BY <1>4, <1>7
    <3>2. Cat(Cat(r.b, first), Cat(last, J)) = Cat(r.b, Cat(first, Cat(last, J)))
      <4>1. Cat(last, J) \in Seq(S)
          BY <2>3 DEF Cat
      <4> QED
          BY <3>1, <4>1, Associative
    <3> QED
        BY <3>2, Zenon DEF Cat
  <2> QED
      BY <1>1, <1>6, <1>7, <2>1, <2>2, <2>4
<1>11. Len(r.b) \in Nat /\ m \in Nat /\ (y.p # <<>> => m # 0)
  <2>1. Len(r.b) \in Nat
      BY <1>7, LenProperties
  <2>2. y.p # <<>> => Len(y.p) # 0
      BY <1>2, EmptySeq
  <2>3. r.missing \in Nat /\ r.missing # 0 /\ Len(y.p) \in Nat
      BY <1>3, <1>7
  <2>4. m = IF r.missing <= Len(y.p) THEN r.missing ELSE Len(y.p)
      BY DEF m
  <2> QED
      BY <2>1, <2>2, <2>3, <2>4
<1>12. r1.missing \in Nat /\ Len(r1.b) + r1.missing = n
  <2>1. Len(r1.b) = Len(r.b) + m /\ r1.missing = r.missing - m
      BY <1>6, <1>9
  <2>2. Len(r.b) + r.missing = n /\ r.missing \in Nat /\ Len(r.b) \in Nat /\ m \in Nat /\ m <= r.missing
      BY <1>3, <1>7, <1>11
  <2> QED
      BY <2>1, <2>2
<1>13. CASE y.p = <<>>
  <2>1. m = 0
      BY <1>3, <1>13, EmptySeq
  <2>2. last = <<>>
    <3>1. Len(y.p) < m + 1
        BY <1>3, <1>13, EmptySeq
    <3> QED
        BY <1>3, <3>1, SubSeqEmpty DEF last
  <2>3. Left(r1.z) = Left(y)
      BY <1>6, <1>13, <2>2 DEF Left
  <2>4. r1.eoz /\ Left(r1.z) = <<>>
      BY <1>1, <1>6, <1>13, <2>3
  <2> QED
      BY <1>5, <1>8, <1>9, <1>10, <1>12, <2>4 DEF Reading
<1>14. CASE y.p # <<>>
  <2>1. r1.missing + (t + 1) <= n
      BY <1>3, <1>6, <1>7, <1>11, <1>14
  <2> QED
      BY <1>5, <1>6, <1>8, <1>9, <1>10, <1>12, <1>14, <2>1 DEF Reading
<1> QED
    BY <1>13, <1>14

ReadNext(r) == IF r.missing = 0 \/ r.eoz THEN r ELSE ReadTurn(r)
IsRead(f, z, n) ==
  f = [t \in 0..n |->
         IF t = 0 THEN [z |-> z, b |-> <<>>, missing |-> n, eoz |-> FALSE]
         ELSE ReadNext(f[t - 1])]

LEMMA ReadExists ==
    ASSUME NEW z, NEW n \in Nat
    PROVE  \E f : IsRead(f, z, n)
<1> DEFINE First == [z |-> z, b |-> <<>>, missing |-> n, eoz |-> FALSE]
           Good(g, N) == \A t \in 0..N : g[t] = IF t = 0 THEN First ELSE ReadNext(g[t - 1])
           P == {N \in Nat : \E g : Good(g, N)}
<1> HIDE DEF First
<1>1. 0 \in P
  <2>1. Good([t \in {0} |-> First], 0)
      OBVIOUS
  <2> QED
      BY <2>1
<1>2. ASSUME NEW N \in Nat, N \in P PROVE N + 1 \in P
  <2>1. PICK g : Good(g, N)
      BY <1>2
  <2> DEFINE h == [t \in 0..N + 1 |-> IF t = N + 1 THEN ReadNext(g[N]) ELSE g[t]]
  <2>2. \A t \in 0..N : h[t] = g[t]
      OBVIOUS
  <2>3. h[N + 1] = ReadNext(g[N])
      OBVIOUS
  <2> HIDE DEF h
  <2>4. ASSUME NEW t \in 0..N + 1
        PROVE  h[t] = IF t = 0 THEN First ELSE ReadNext(h[t - 1])
    <3>1. CASE t = N + 1
        BY <2>2, <2>3, <3>1
    <3>2. CASE t \in 0..N
      <4>1. h[t] = g[t] /\ (t # 0 => h[t - 1] = g[t - 1])
          BY <3>2, <2>2
      <4> QED
          BY <3>2, <4>1, <2>1
    <3> QED
        BY <3>1, <3>2
  <2> QED
      BY <2>4
<1>3. n \in P
  <2> HIDE DEF P
  <2> QED
      BY <1>1, <1>2, SetInduction
<1>4. PICK g : Good(g, n)
    BY <1>3
<1> DEFINE f == [t \in 0..n |-> g[t]]
<1>5. ASSUME NEW t \in 0..n
      PROVE  f[t] = IF t = 0 THEN First ELSE ReadNext(f[t - 1])
  <2>1. f[t] = g[t] /\ (t # 0 => f[t - 1] = g[t - 1])
      OBVIOUS
  <2> HIDE DEF f
  <2> QED
      BY <2>1, <1>4
<1>6. f = [t \in 0..n |-> f[t]]
    OBVIOUS
<1> HIDE DEF f
<1>7. f = [t \in 0..n |-> IF t = 0 THEN First ELSE ReadNext(f[t - 1])]
    BY <1>5, <1>6
<1> QED
    BY <1>7 DEF IsRead, First

LEMMA ReadSteps ==
    ASSUME NEW z, NEW n \in Nat, NEW f, IsRead(f, z, n)
    PROVE  /\ f[0] = [z |-> z, b |-> <<>>, missing |-> n, eoz |-> FALSE]
           /\ \A t \in Nat : t + 1 \in 0..n => f[t + 1] = ReadNext(f[t])
<1>1. \A t \in 0..n : f[t] = IF t = 0 THEN [z |-> z, b |-> <<>>, missing |-> n, eoz |-> FALSE]
                            ELSE ReadNext(f[t - 1])
    BY Zenon DEF IsRead
<1>2. 0 \in 0..n
    OBVIOUS
<1>3. ASSUME NEW t \in Nat, t + 1 \in 0..n PROVE f[t + 1] = ReadNext(f[t])
  <2>1. t + 1 # 0 /\ t + 1 - 1 = t
      OBVIOUS
  <2> QED
      BY <1>1, <1>3, <2>1
<1> QED
    BY <1>1, <1>2, <1>3

\* luaZ_read takes the next n bytes of a stream, or all when there are fewer,
\* and says how many are missing, wherever the pieces end that the reader
\* gives: so a chunk is loaded alike however it is cut (luaZ_read, lzio.c).
THEOREM ReadThm ==
    ASSUME NEW S, NEW z, IsStream(z, S), NoEmptyPiece(z), NEW n \in Nat
    PROVE  LET r == luaZ_read(z, n)
           IN  /\ r.b \o Left(r.z) = Left(z)
               /\ Len(r.b) = IF n <= Len(Left(z)) THEN n ELSE Len(Left(z))
               /\ r.missing = n - Len(r.b)
               /\ IsStream(r.z, S) /\ NoEmptyPiece(r.z)
<1> DEFINE f == CHOOSE f : IsRead(f, z, n)
           First == [z |-> z, b |-> <<>>, missing |-> n, eoz |-> FALSE]
           all == Left(z)
           P == {t \in Nat : t \in 0..n => Reading(S, all, n, t, f[t])}
<1>1. IsRead(f, z, n)
    BY ReadExists
<1>2. luaZ_read(z, n) = f[n]
    BY DEF luaZ_read, IsRead, ReadNext
<1> HIDE DEF f
<1>3. 0 \in P
  <2>1. f[0] = First
      BY <1>1, ReadSteps
  <2>2. all \in Seq(S) /\ <<>> \o all = all
      BY LeftSeq, ConcatEmptySeq
  <2>3. <<>> \in Seq(S) /\ Len(<<>>) = 0
      BY EmptySeq
  <2>4. Reading(S, all, n, 0, First)
    <3> HIDE DEF all
    <3>1. First.z = z /\ First.b = <<>> /\ First.missing = n /\ ~First.eoz
        OBVIOUS
    <3> HIDE DEF First
    <3>2. First.b \o Left(First.z) = all
        BY <2>2, <3>1 DEF all
    <3> QED
        BY <2>3, <3>1, <3>2 DEF Reading
  <2> QED
      BY <2>1, <2>4
<1>4. ASSUME NEW t \in Nat, t \in P PROVE t + 1 \in P
  <2> SUFFICES ASSUME t + 1 \in 0..n PROVE Reading(S, all, n, t + 1, f[t + 1])
      OBVIOUS
  <2>1. PICK r : r = f[t] /\ Reading(S, all, n, t, r)
      BY <1>4
  <2>2. f[t + 1] = IF r.missing = 0 \/ r.eoz THEN r ELSE ReadTurn(r)
    <3>1. f[t + 1] = ReadNext(f[t])
        BY <1>1, ReadSteps
    <3> QED
        BY <2>1, <3>1 DEF ReadNext
  <2> HIDE DEF all
  <2>3. CASE r.missing = 0 \/ r.eoz
      BY <2>1, <2>2, <2>3 DEF Reading
  <2>4. CASE ~(r.missing = 0 \/ r.eoz)
      BY <2>1, <2>2, <2>4, TurnReads
  <2> QED
      BY <2>3, <2>4
<1>5. PICK r : r = luaZ_read(z, n) /\ Reading(S, all, n, n, r)
  <2> HIDE DEF P
  <2>1. n \in P
      BY <1>3, <1>4, SetInduction
  <2> QED
      BY <1>2, <2>1 DEF P
<1>6. /\ r.b \in Seq(S) /\ Left(r.z) \in Seq(S) /\ r.b \o Left(r.z) = all /\ r.missing \in Nat
      /\ Len(r.b) + r.missing = n /\ Len(r.b) \in Nat /\ Len(Left(r.z)) \in Nat
      /\ Len(all) = Len(r.b) + Len(Left(r.z))
  <2>1. r.b \in Seq(S) /\ IsStream(r.z, S) /\ r.missing \in Nat
      BY <1>5 DEF Reading
  <2>2. r.b \o Left(r.z) = all /\ Len(r.b) + r.missing = n
      BY <1>5 DEF Reading
  <2>3. Left(r.z) \in Seq(S)
      BY <2>1, LeftSeq
  <2>4. Len(r.b \o Left(r.z)) = Len(r.b) + Len(Left(r.z))
      BY <2>1, <2>3, ConcatProperties
  <2>5. Len(r.b) \in Nat /\ Len(Left(r.z)) \in Nat
      BY <2>1, <2>3, LenProperties
  <2> QED
      BY <2>1, <2>2, <2>3, <2>4, <2>5
<1>7. r.missing = 0 \/ Len(Left(r.z)) = 0
  <2>1. r.missing + n <= n => r.missing = 0
      BY <1>6
  <2>2. r.missing = 0 \/ Left(r.z) = <<>>
      BY <1>5, <2>1 DEF Reading
  <2>3. Left(r.z) \in Seq(S)
      BY <1>6
  <2>4. Left(r.z) = <<>> => Len(Left(r.z)) = 0
      BY <2>3, EmptySeq
  <2> QED
      BY <2>2, <2>4
<1>8. Len(r.b) = IF n <= Len(all) THEN n ELSE Len(all)
  <2>1. /\ r.missing \in Nat /\ Len(r.b) + r.missing = n /\ Len(r.b) \in Nat
        /\ Len(Left(r.z)) \in Nat /\ Len(all) = Len(r.b) + Len(Left(r.z))
      BY <1>6
  <2>2. PICK b, left : b = Len(r.b) /\ left = Len(Left(r.z))
      OBVIOUS
  <2>3. /\ r.missing \in Nat /\ b + r.missing = n /\ b \in Nat /\ left \in Nat
        /\ Len(all) = b + left /\ (r.missing = 0 \/ left = 0)
      BY <1>7, <2>1, <2>2
  <2>4. b = IF n <= Len(all) THEN n ELSE Len(all)
    <3> HIDE DEF all
    <3>1. CASE r.missing = 0
        BY <2>3, <3>1
    <3>2. CASE r.missing # 0
        BY <2>3, <3>2
    <3> QED
        BY <3>1, <3>2
  <2> QED
      BY <2>2, <2>4
<1>9. r.missing = n - Len(r.b)
    BY <1>6
<1> QED
    BY <1>5, <1>6, <1>8, <1>9 DEF Reading
=============================================================================
