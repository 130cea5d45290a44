------------------------------- MODULE LuaVM -------------------------------
(***************************************************************************)
(* The virtual machine of Lua 5.1: luaV_execute and the metamethods of     *)
(* lvm.c, with the calls of ldo.c, the upvalues of lfunc.c and the tag     *)
(* methods of ltm.c as the machine uses them.  What it runs comes from a   *)
(* parser and perhaps through the chunk format; they are parameters, and   *)
(* the runs give it those of LuaParser and LuaChunk.                       *)
(*                                                                         *)
(* An action is one instruction, or the rest of one that called a function *)
(* from C: luaV_execute then runs again inside, and the frame keeps in k   *)
(* what the C code will do with the result; a C function that calls keeps  *)
(* in c where it is.  A frame entered that way is fresh.  Slots of the     *)
(* stack are numbered from 0, as in the code.                              *)
(*                                                                         *)
(* A table is a map here (ltable.c is modelled in Table), an upvalue a     *)
(* cell that is open at a level or closed (lfunc.c in UpVals), and memory  *)
(* is never collected (lgc.c in LuaGC).                                    *)
(***************************************************************************)
EXTENDS LuaCheck, SequencesExt, FiniteSets, TLC

CONSTANTS Programs,      \* what may be loaded
          Tokens(_),     \* the tokens of a program
          Meaning(_),    \* what the language says it does
          Parser(_),     \* the function that tokens compile to, as [err, v]
          Dump(_, _), Undump(_),  \* a function as bytes; what pieces of them give
          Loads(_),      \* the ways it is loaded: from source, or dumped first
          Libraries,     \* by name, the functions of a library by their names
          StrLess(_, _), \* the order of strings in the locale (l_strcmp)
          MAXTAGLOOP     \* lvm.c

ASSUME VMAssumption == MAXTAGLOOP \in Nat \ {0} /\ IsFiniteSet(DOMAIN Libraries)

VARIABLES prog,    \* the program
          load,    \* how it is loaded: [dumped, piece, strip, cut]
          phase,   \* "source", "compiled", "loaded", "run" or "refused"
          main,    \* the prototype of the chunk
          L        \* the lua_State
vars == <<prog, load, phase, main, L>>

\* A host that has not run anything: its own frame, and the globals.
Host == [func |-> 0, base |-> 1, top |-> 1, pc |-> 0, nresults |-> 0, fresh |-> FALSE,
         k |-> [op |-> "none"], c |-> [op |-> "none"]]

IsTable(v) == v[1] = "table"
IsFunction(v) == v[1] \in {"function", "cfunction"}
IsNumber(v) == v[1] = "number"
IsString(v) == v[1] = "string"

-----------------------------------------------------------------------------
(* The stack and the frames of a lua_State s *)

Slot(s, i) == s.stack[i + 1]
Nils(n) == [i \in 1..n |-> Nil]
LargestOf(a, b) == IF a > b THEN a ELSE b

\* The values vs are written from slot i on.
Put(s, i, vs) ==
  LET New(n) == CASE n \in (i + 1)..(i + Len(vs)) -> vs[n - i]
                  [] n <= Len(s.stack) /\ n \notin (i + 1)..(i + Len(vs)) -> s.stack[n]
                  [] OTHER -> Nil
  IN  [s EXCEPT !.stack = Tuple(LargestOf(Len(@), i + Len(vs)), New)]
Set(s, i, v) == Put(s, i, <<v>>)
Values(s, i) == SubSeq(s.stack, i + 1, s.top)     \* from slot i to the top

NoK == [op |-> "none"]
Ci(s) == Last(s.ci)
SetK(s, k) == [s EXCEPT !.ci[Len(s.ci)].k = k]
SetC(s, c) == [s EXCEPT !.ci[Len(s.ci)].c = c]
Jump(s, n) == [s EXCEPT !.ci[Len(s.ci)].pc = @ + n]
CiTop(s) == [s EXCEPT !.top = Ci(s).top]

\* A closure names its prototype by the way to it from the main one.
Follow(p, path) == FoldLeft(LAMBDA q, j : q.p[j], p, path)
Closure(s, ci) == s.funs[Slot(s, ci.func)[2]]
ProtoOf(f) == Follow(main, f.p)
IsLua(s, ci) == Slot(s, ci.func)[1] = "function"

\* The frames that luaD_call entered.
nCcalls(s) == Cardinality({i \in DOMAIN s.ci : s.ci[i].fresh})

-----------------------------------------------------------------------------
(* Upvalues *)

CLOSED == -1
UpvalValue(s, u) == IF s.upvals[u].level = CLOSED THEN s.upvals[u].v ELSE Slot(s, s.upvals[u].level)
SetUpvalValue(s, u, v) == IF s.upvals[u].level = CLOSED THEN [s EXCEPT !.upvals[u].v = v]
                          ELSE Set(s, s.upvals[u].level, v)

\* The upvalues, with one that is open at the level.
luaF_findupval(upvals, level) ==
  IF \E u \in DOMAIN upvals : upvals[u].level = level THEN upvals
  ELSE Append(upvals, [level |-> level, v |-> Nil])
UpvalAt(upvals, level) == CHOOSE u \in DOMAIN upvals : upvals[u].level = level

\* Mutant: the variable at the level itself is left open.
luaF_close_Above(s, level) ==
  LET Shut(u) == IF s.upvals[u].level > level THEN [level |-> CLOSED, v |-> Slot(s, s.upvals[u].level)]
                 ELSE s.upvals[u]
  IN  [s EXCEPT !.upvals = Tuple(Len(@), Shut)]

luaF_close(s, level) ==
  LET Shut(u) == IF s.upvals[u].level >= level THEN [level |-> CLOSED, v |-> Slot(s, s.upvals[u].level)]
                 ELSE s.upvals[u]
  IN  [s EXCEPT !.upvals = Tuple(Len(@), Shut)]

-----------------------------------------------------------------------------
(* Returning, errors and calls *)

\* luaD_poscall: the results go where the function was, as many as wanted.
luaD_poscall(s, results) ==
  LET ci == Ci(s)
      given == IF ci.nresults = LUA_MULTRET THEN results
               ELSE SubSeq(results \o Nils(ci.nresults), 1, ci.nresults)
  IN  [Put(s, ci.func, given) EXCEPT !.ci = Front(@), !.top = ci.func + Len(given)]

\* Mutant: the top is left after the results.
CReturn_LowTop(s, results) == luaD_poscall(s, results)

\* A C function returns.  OP_CALL restores the top unless results are open;
\* the C code behind a metamethod takes its result from below the top.
Restored(s, nresults) == IF IsLua(s, Ci(s)) /\ Ci(s).k = NoK /\ nresults # LUA_MULTRET THEN CiTop(s) ELSE s
CReturn(s, results) == Restored(luaD_poscall(s, results), Ci(s).nresults)

\* luaD_throw: the innermost pcall closes the upvalues of what it called
\* and returns false with the error; without one the state is left.
Throw(s, msg) ==
  LET at == {i \in DOMAIN s.ci : s.ci[i].k.op = "pcall"}
      i  == CHOOSE x \in at : \A y \in at : y <= x
      back == [luaF_close(s, s.ci[i].base) EXCEPT !.ci = SubSeq(@, 1, i)]
  IN  IF at = {} THEN [s EXCEPT !.err = msg] ELSE CReturn(back, <<False, <<"string", msg>>>>)

\* The contents of a table, with those of f in front, or with one more entry.
Over(f, map) == [x \in DOMAIN f \cup DOMAIN map |-> IF x \in DOMAIN f THEN f[x] ELSE map[x]]
With(map, key, v) == Over([x \in {key} |-> v], map)

NewTable(s, map) == [s EXCEPT !.tabs = Append(@, [map |-> map, meta |-> 0, flags |-> {}])]
LastTable(s) == <<"table", Len(s.tabs)>>

\* adjust_varargs: the fixed parameters move above the extra arguments; a
\* function with `...' that never uses it gets the table `arg'.
adjust_varargs(s, p, func) ==
  LET given  == Values(s, func + 1)
      args   == given \o Nils(LargestOf(p.numparams - Len(given), 0))
      fixed  == SubSeq(args, 1, p.numparams)
      extra  == SubSeq(args, p.numparams + 1, Len(args))
      fields == [x \in {<<"number", i>> : i \in {j \in DOMAIN extra : extra[j] # Nil}} |-> extra[x[2]]]
      t      == NewTable(s, With(fields, <<"string", "n">>, <<"number", Len(extra)>>))
      base   == func + 1 + Len(args)
      moved(x) == Put(Put(x, func + 1, Nils(p.numparams) \o extra), base, fixed)
  IN  IF p.is_vararg >= NEEDSARG
      THEN [s |-> [Set(moved(t), base + p.numparams, LastTable(t)) EXCEPT !.top = base + p.numparams + 1],
            base |-> base]
      ELSE [s |-> [moved(s) EXCEPT !.top = base + p.numparams], base |-> base]

adjust_args(s, p, func) ==
  IF p.is_vararg # 0 THEN adjust_varargs(s, p, func)
  ELSE [s |-> [s EXCEPT !.top = IF @ > func + 1 + p.numparams THEN func + 1 + p.numparams ELSE @], base |-> func + 1]
Framed(a, size, ci) ==
  [Put(a.s, a.s.top, Nils(a.base + size - a.s.top)) EXCEPT
     !.top = a.base + size, !.ci = Append(@, [ci EXCEPT !.base = a.base, !.top = a.base + size])]
EnterLua(s, func, nresults, fresh) ==
  LET p == ProtoOf(s.funs[Slot(s, func)[2]])
  IN  Framed(adjust_args(s, p, func), p.maxstacksize,
             [func |-> func, base |-> 0, top |-> 0, pc |-> 0, nresults |-> nresults, fresh |-> fresh, k |-> NoK, c |-> NoK])

\* An event of a value: of the basic types only strings have a metatable.
metatable(s, v) == CASE IsTable(v) -> s.tabs[v[2]].meta [] IsString(v) -> s.strmeta [] OTHER -> 0
FieldOf(map, event) == IF <<"string", event>> \in DOMAIN map THEN map[<<"string", event>>] ELSE Nil
EventIn(s, mt, event) == IF mt = 0 THEN Nil ELSE FieldOf(s.tabs[mt].map, event)
luaT_gettmbyobj(s, v, event) == EventIn(s, metatable(s, v), event)

\* tryfuncTM: the value is called by its __call, with itself as argument.
tryfuncTM(s, func) ==
  LET tm == luaT_gettmbyobj(s, Slot(s, func), "__call")
  IN  [Put(s, func, <<tm>> \o Values(s, func)) EXCEPT !.top = @ + 1]
CanCall(s, v) == IsFunction(v) \/ IsFunction(luaT_gettmbyobj(s, v, "__call"))

-----------------------------------------------------------------------------
(* The functions of lbaselib.c that programs use: what f(args) does to the *)
(* state, as [s, r] with its results r, or [s, err]; one that calls other  *)
(* functions gives in c where it begins.                                   *)

RawGet(s, t, key) == LET map == s.tabs[t[2]].map IN IF key \in DOMAIN map THEN map[key] ELSE Nil

\* Mutant: what the table was known to lack is still believed.
RawSet_KeepsFlags(s, t, key, v) ==
  LET map == s.tabs[t[2]].map
      without == [x \in DOMAIN map \ {key} |-> map[x]]
  IN  [s EXCEPT !.tabs[t[2]].map = IF v = Nil THEN without ELSE With(map, key, v)]

\* luaH_set forgets what the table was known to lack.
RawSet(s, t, key, v) ==
  LET map == s.tabs[t[2]].map
      without == [x \in DOMAIN map \ {key} |-> map[x]]
  IN  [s EXCEPT !.tabs[t[2]].flags = {}, !.tabs[t[2]].map = IF v = Nil THEN without ELSE With(map, key, v)]

GoodKey(key) == key # Nil /\ key # <<"number", NaN>>

\* luaH_getn, for a table without holes.
luaH_getn(s, t) == Cardinality({x \in DOMAIN s.tabs[t[2]].map : IsNumber(x) /\ x[2] >= 1})

Results(s, r) == [s |-> s, r |-> r, err |-> "", c |-> NoK]
Failure(s, msg) == [s |-> s, r |-> <<>>, err |-> msg, c |-> NoK]
CallsBack(s, c) == [s |-> s, r |-> <<>>, err |-> "", c |-> c]

Arg(args, i) == IF i <= Len(args) THEN args[i] ELSE Nil

luaB_setmetatable(s, args) ==
  CASE ~IsTable(Arg(args, 1)) \/ Len(args) < 2 \/ Arg(args, 2)[1] \notin {"nil", "table"} -> Failure(s, "argument")
    [] luaT_gettmbyobj(s, Arg(args, 1), "__metatable") # Nil -> Failure(s, "protected metatable")
    [] OTHER -> Results([s EXCEPT !.tabs[Arg(args, 1)[2]].meta = IF Arg(args, 2) = Nil THEN 0 ELSE Arg(args, 2)[2]],
                        <<Arg(args, 1)>>)

luaB_rawset(s, args) ==
  CASE ~IsTable(Arg(args, 1)) -> Failure(s, "argument")
    [] IsTable(Arg(args, 1)) /\ ~GoodKey(Arg(args, 2)) -> Failure(s, "bad key")
    [] OTHER -> Results(RawSet(s, Arg(args, 1), Arg(args, 2), Arg(args, 3)), <<Arg(args, 1)>>)

luaB_select(s, args) ==
  LET n == Len(args)
      i == IF Arg(args, 1)[2] < 0 THEN n + Arg(args, 1)[2] ELSE IF Arg(args, 1)[2] > n THEN n ELSE Arg(args, 1)[2]
  IN  CASE Arg(args, 1) = <<"string", "#">> -> Results(s, <<<<"number", n - 1>>>>)
        [] IsNumber(Arg(args, 1)) /\ i >= 1 -> Results(s, SubSeq(args, i + 1, n))
        [] OTHER -> Failure(s, "argument")

luaB_unpack(s, args) ==
  LET i == IF Len(args) >= 2 THEN Arg(args, 2)[2] ELSE 1
      e == IF Len(args) >= 3 THEN Arg(args, 3)[2] ELSE luaH_getn(s, Arg(args, 1))
  IN  IF IsTable(Arg(args, 1)) THEN Results(s, [n \in 1..(e - i + 1) |-> RawGet(s, Arg(args, 1), <<"number", i + n - 1>>)])
      ELSE Failure(s, "argument")

luaB_ipairs(s, args) == IF IsTable(Arg(args, 1)) THEN Results(s, <<<<"cfunction", "ipairsaux">>, Arg(args, 1), <<"number", 0>>>>)
                        ELSE Failure(s, "argument")
ipairsaux(s, args) ==
  LET i == <<"number", Arg(args, 2)[2] + 1>>
      v == RawGet(s, Arg(args, 1), i)
  IN  Results(s, IF v = Nil THEN <<>> ELSE <<i, v>>)

luaB_error(s, args) == Failure(s, IF IsString(Arg(args, 1)) THEN Arg(args, 1)[2] ELSE Arg(args, 1)[1])
luaB_pcall(s, args) == IF args = <<>> THEN Failure(s, "argument") ELSE CallsBack(s, [op |-> "pcall"])

BaseFunctions == {"setmetatable", "rawset", "select", "unpack", "ipairs", "error", "pcall"}
CallBase(f, s, args) ==
  CASE f[2] = "setmetatable" -> luaB_setmetatable(s, args)
    [] f[2] = "rawset"       -> luaB_rawset(s, args)
    [] f[2] = "select"       -> luaB_select(s, args)
    [] f[2] = "unpack"       -> luaB_unpack(s, args)
    [] f[2] = "ipairs"       -> luaB_ipairs(s, args)
    [] f[2] = "ipairsaux"    -> ipairsaux(s, args)
    [] f[2] = "error"        -> luaB_error(s, args)
    [] f[2] = "pcall"        -> luaB_pcall(s, args)
    [] OTHER                 -> CallsBack(s, [op |-> "library"])

\* The frame of a C function, whose arguments start at its base.
EnterC(s, func, nresults, fresh) ==
  [s EXCEPT !.ci = Append(@, [func |-> func, base |-> func + 1, top |-> s.top, pc |-> 0,
                              nresults |-> nresults, fresh |-> fresh, k |-> NoK, c |-> NoK])]

\* The function fails, calls back or returns.
AfterC(r) == CASE r.err # ""              -> Throw(r.s, r.err)
               [] r.err = "" /\ r.c # NoK -> SetC(r.s, r.c)
               [] OTHER                   -> CReturn(r.s, r.r)
CallC(s, func, nresults, fresh) ==
  AfterC(CallBase(Slot(s, func), EnterC(s, func, nresults, fresh), Values(s, func + 1)))

luaD_precall(s, func, nresults, fresh) ==
  LET t  == IF IsFunction(Slot(s, func)) THEN s ELSE tryfuncTM(s, func)
  IN  CASE ~CanCall(s, Slot(s, func))    -> Throw(s, "call")
        [] Slot(t, func)[1] = "function" -> EnterLua(t, func, nresults, fresh)
        [] OTHER                         -> CallC(t, func, nresults, fresh)

luaD_call(s, func, nresults) ==
  IF nCcalls(s) + 1 >= LUAI_MAXCCALLS THEN Throw(s, "C stack overflow")
  ELSE luaD_precall(s, func, nresults, TRUE)

-----------------------------------------------------------------------------
(* Metamethods *)

\* callTMres and callTM: the call goes above the top; k says what becomes of
\* its result.
callTMres(s, tm, p1, p2, k) ==
  luaD_call([SetK(Put(s, s.top, <<tm, p1, p2>>), k) EXCEPT !.top = @ + 3], s.top, 1)
callTM(s, tm, p1, p2, p3) ==
  luaD_call([SetK(Put(s, s.top, <<tm, p1, p2, p3>>), [op |-> "drop"]) EXCEPT !.top = @ + 4], s.top, 0)
StoreAt(i) == [op |-> "store", at |-> i]

\* fasttm: a metatable remembers in its flags the events it lacks.
fasttm(s, t, event) ==
  LET mt == s.tabs[t[2]].meta
  IN  IF mt = 0 \/ event \in s.tabs[mt].flags THEN Nil ELSE RawGet(s, <<"table", mt>>, <<"string", event>>)
luaT_gettm(s, t, event) ==
  LET mt == s.tabs[t[2]].meta
  IN  IF mt = 0 \/ fasttm(s, t, event) # Nil THEN s ELSE [s EXCEPT !.tabs[mt].flags = @ \cup {event}]

\* The loops of luaV_gettable and luaV_settable go from an object t to what
\* its metatable has instead, in MAXTAGLOOP turns at most.
Indexed(s, t, key) == IF IsTable(t) THEN RawGet(s, t, key) ELSE Nil
TMOf(s, t, event) == IF IsTable(t) THEN fasttm(s, t, event) ELSE luaT_gettmbyobj(s, t, event)
GoesOn(s, t, key, event) == Indexed(s, t, key) = Nil /\ TMOf(s, t, event) # Nil /\ ~IsFunction(TMOf(s, t, event))

luaV_gettable(s, first, key, val) ==
  LET Turn[n \in 0..(MAXTAGLOOP - 1)] == IF n = 0 THEN first ELSE TMOf(s, Turn[n - 1], "__index")
      last == {n \in 0..(MAXTAGLOOP - 1) : ~GoesOn(s, Turn[n], key, "__index")}
      t    == Turn[CHOOSE n \in last : \A m \in last : n <= m]
      res  == Indexed(s, t, key)
      tm   == TMOf(s, t, "__index")
  IN  CASE last = {} -> Throw(s, "loop")
        [] last # {} /\ ~IsTable(t) /\ tm = Nil -> Throw(s, "index")
        [] OTHER -> CASE res # Nil              -> Set(s, val, res)
                      [] res = Nil /\ tm = Nil  -> Set(luaT_gettm(s, t, "__index"), val, Nil)
                      [] res = Nil /\ tm # Nil  -> callTMres(s, tm, t, key, StoreAt(val))

\* luaH_set makes a place for the key in each table on the way.
Placed(s, t, key) == IF IsTable(t) THEN RawSet(s, t, key, RawGet(s, t, key)) ELSE s
AtObject(s, t, key) == [s |-> Placed(s, t, key), t |-> t]

luaV_settable(s, first, key, val) ==
  LET Turn[n \in 0..(MAXTAGLOOP - 1)] ==
        IF n = 0 THEN AtObject(s, first, key)
        ELSE AtObject(Turn[n - 1].s, TMOf(Turn[n - 1].s, Turn[n - 1].t, "__newindex"), key)
      Stops(n) == \/ ~GoesOn(Turn[n].s, Turn[n].t, key, "__newindex")
                  \/ IsTable(Turn[n].t) /\ ~GoodKey(key)
      last == {n \in 0..(MAXTAGLOOP - 1) : Stops(n)}
      set  == Turn[CHOOSE n \in last : \A m \in last : n <= m].s
      t    == Turn[CHOOSE n \in last : \A m \in last : n <= m].t
      old  == Indexed(set, t, key)
      tm   == TMOf(set, t, "__newindex")
  IN  CASE last = {} -> Throw(s, "loop")
        [] last # {} /\ ~IsTable(t) -> IF tm = Nil THEN Throw(set, "index") ELSE callTM(set, tm, t, key, val)
        [] OTHER -> CASE old # Nil -> RawSet(set, t, key, val)
                      [] old = Nil /\ ~GoodKey(key) -> Throw(set, "bad key")
                      [] old = Nil /\ GoodKey(key) /\ tm = Nil -> RawSet(luaT_gettm(set, t, "__newindex"), t, key, val)
                      [] OTHER -> callTM(set, tm, t, key, val)

\* call_binTM: the event of the first operand, else of the second.
BinTM(s, p1, p2, event) ==
  IF luaT_gettmbyobj(s, p1, event) # Nil THEN luaT_gettmbyobj(s, p1, event) ELSE luaT_gettmbyobj(s, p2, event)
call_binTM(s, p1, p2, k, event, msg) ==
  IF BinTM(s, p1, p2, event) = Nil THEN Throw(s, msg)
  ELSE callTMres(s, BinTM(s, p1, p2, event), p1, p2, k)

\* luaV_tonumber, for the numerals of small integers.
Numerals == 0..20
luaV_tonumber(v) ==
  CASE IsNumber(v) -> v
    [] IsString(v) /\ \E n \in Numerals : ToString(n) = v[2] ->
         <<"number", CHOOSE n \in Numerals : ToString(n) = v[2]>>
    [] OTHER -> Nil

EventOf == [op \in {"ADD", "SUB", "MUL", "DIV", "MOD", "POW", "UNM"} |->
  CASE op = "ADD" -> "__add" [] op = "SUB" -> "__sub" [] op = "MUL" -> "__mul" [] op = "DIV" -> "__div"
    [] op = "MOD" -> "__mod" [] op = "POW" -> "__pow" [] op = "UNM" -> "__unm"]

Arith(s, ra, rb, rc, op) ==
  LET b == luaV_tonumber(rb)
      c == luaV_tonumber(rc)
  IN  IF b # Nil /\ c # Nil THEN Set(s, ra, <<"number", NumArith(op, b[2], c[2])>>)
      ELSE call_binTM(s, rb, rc, StoreAt(ra), EventOf[op], "arith")

\* luaV_concat on the registers last - total + 1 .. last: the strings and
\* numbers at the right are joined, and what comes before them by __concat.
ToStr(v) == IF IsNumber(v) THEN ToString(v[2]) ELSE v[2]
CanStr(v) == IsString(v) \/ IsNumber(v)

Concatenated(vs) == <<"string", FoldLeft(LAMBDA t, v : t \o ToStr(v), "", vs)>>

luaV_concat(s, total, last, ra) ==
  LET V(n)   == Slot(s, Ci(s).base + last + 1 - n)      \* the n-th from the right
      stops  == {n \in 1..total : ~CanStr(V(n))}
      n      == IF stops = {} THEN total ELSE (CHOOSE x \in stops : \A y \in stops : x <= y) - 1
      right  == IF n < 2 THEN V(1) ELSE Concatenated([j \in 1..n |-> V(n + 1 - j)])
      taken  == LargestOf(n, 1)
      joined == Set(s, Ci(s).base + last + 1 - taken, right)
      k      == [op |-> "concat", total |-> total - taken, last |-> last - taken, at |-> ra]
  IN  IF taken = total THEN Set(joined, ra, right)
      ELSE call_binTM(joined, V(taken + 1), right, k, "__concat", "concat")

\* A comparison gives a result, or leaves it to a call (or an error): the
\* result of the call is then kept or negated.
Decided(s, res) == [s |-> s, res |-> res, called |-> FALSE]
Called(s) == [s |-> s, res |-> FALSE, called |-> TRUE]
ThenTest(res) == [op |-> "test", res |-> res]

get_compTM(s, t1, t2) ==
  LET tm1 == fasttm(s, t1, "__eq")
      tm2 == fasttm(s, t2, "__eq")
  IN  IF tm1 # Nil /\ (s.tabs[t1[2]].meta = s.tabs[t2[2]].meta \/ RawEqual(tm1, tm2)) THEN tm1 ELSE Nil
luaV_equalval(s, a, b) ==
  LET seen1 == luaT_gettm(s, a, "__eq")
      seen2 == IF fasttm(s, a, "__eq") = Nil \/ s.tabs[a[2]].meta = s.tabs[b[2]].meta THEN seen1
               ELSE luaT_gettm(seen1, b, "__eq")
  IN  CASE ~IsTable(a) \/ ~IsTable(b) \/ a = b -> Decided(s, RawEqual(a, b))
        [] OTHER -> IF get_compTM(s, a, b) = Nil THEN Decided(seen2, FALSE)
                    ELSE Called(callTMres(s, get_compTM(s, a, b), a, b, ThenTest(TRUE)))

\* The event both operands have in common, if any (call_orderTM).
OrderTM(s, a, b, event) == LET tm == luaT_gettmbyobj(s, a, event)
                           IN  IF tm # Nil /\ RawEqual(tm, luaT_gettmbyobj(s, b, event)) THEN tm ELSE Nil

luaV_lessthan(s, a, b, k) ==
  CASE IsNumber(a) /\ IsNumber(b) -> Decided(s, NumLess(a[2], b[2]))
    [] IsString(a) /\ IsString(b) -> Decided(s, StrLess(a[2], b[2]))
    [] a[1] = b[1] /\ OrderTM(s, a, b, "__lt") # Nil ->
         Called(callTMres(s, OrderTM(s, a, b, "__lt"), a, b, k))
    [] OTHER -> Called(Throw(s, "compare"))

\* Without __le, a <= b is not (b < a).
lessequal(s, a, b) ==
  CASE IsNumber(a) /\ IsNumber(b) -> Decided(s, NumLessEqual(a[2], b[2]))
    [] IsString(a) /\ IsString(b) -> Decided(s, ~StrLess(b[2], a[2]))
    [] a[1] = b[1] /\ OrderTM(s, a, b, "__le") # Nil ->
         Called(callTMres(s, OrderTM(s, a, b, "__le"), a, b, ThenTest(TRUE)))
    [] a[1] = b[1] /\ OrderTM(s, a, b, "__le") = Nil /\ OrderTM(s, b, a, "__lt") # Nil ->
         Called(callTMres(s, OrderTM(s, b, a, "__lt"), b, a, ThenTest(FALSE)))
    [] OTHER -> Called(Throw(s, "compare"))

-----------------------------------------------------------------------------
(* luaV_execute: one action for each kind of instruction.  Fetched is the  *)
(* state with pc past the instruction I of the running function.           *)

Idle == <<prog, load, phase, main>>
Active == phase = "run" /\ L.err = "" /\ Len(L.ci) > 1
Proto == ProtoOf(Closure(L, Ci(L)))
I == Proto.code[Ci(L).pc + 1]
Running == Active /\ Ci(L).k = NoK /\ Ci(L).c = NoK
Executes(ops) == Running /\ I.op \in ops

Fetched == Jump(L, 1)
Base == Ci(L).base
RA == Base + I.a
R(n) == Slot(L, Base + n)
K(n) == Proto.k[n + 1]
RK(n) == IF ISK(n) THEN K(INDEXK(n)) ELSE R(n)
UpVal(n) == Closure(L, Ci(L)).upvals[n + 1]
Globals == <<"table", 1>>

\* The instructions that only write their target register.
SetsRegister ==
  LET v == CASE I.op = "MOVE"     -> R(I.b)
             [] I.op = "LOADK"    -> K(I.b)
             [] I.op = "LOADBOOL" -> <<"boolean", I.b = 1>>
             [] I.op = "GETUPVAL" -> UpvalValue(L, UpVal(I.b))
             [] I.op = "NOT"      -> <<"boolean", IsFalse(R(I.b))>>
  IN  /\ Executes({"MOVE", "LOADK", "LOADBOOL", "GETUPVAL", "NOT"})
      /\ L' = Jump(Set(Fetched, RA, v), IF I.op = "LOADBOOL" /\ I.c # 0 THEN 1 ELSE 0)
      /\ UNCHANGED Idle

LoadNil == /\ Executes({"LOADNIL"})
           /\ L' = Put(Fetched, RA, Nils(I.b - I.a + 1))
           /\ UNCHANGED Idle

SetUpval == /\ Executes({"SETUPVAL"})
            /\ L' = SetUpvalValue(Fetched, UpVal(I.b), R(I.a))
            /\ UNCHANGED Idle

GetTable ==
  LET self == Set(Fetched, RA + 1, R(I.b))
  IN  /\ Executes({"GETGLOBAL", "GETTABLE", "SELF"})
      /\ L' = CASE I.op = "GETGLOBAL" -> luaV_gettable(Fetched, Globals, K(I.b), RA)
                [] I.op = "GETTABLE"  -> luaV_gettable(Fetched, R(I.b), RK(I.c), RA)
                [] I.op = "SELF"      -> luaV_gettable(self, R(I.b), RK(I.c), RA)
      /\ UNCHANGED Idle

SetTable ==
  /\ Executes({"SETGLOBAL", "SETTABLE"})
  /\ L' = IF I.op = "SETGLOBAL" THEN luaV_settable(Fetched, Globals, K(I.b), R(I.a))
          ELSE luaV_settable(Fetched, R(I.a), RK(I.b), RK(I.c))
  /\ UNCHANGED Idle

NewTableOp == LET t == NewTable(Fetched, [x \in {} |-> Nil])
              IN  Executes({"NEWTABLE"}) /\ L' = Set(t, RA, LastTable(t)) /\ UNCHANGED Idle

ArithOp ==
  /\ Executes({"ADD", "SUB", "MUL", "DIV", "MOD", "POW", "UNM"})
  /\ L' = IF I.op = "UNM" THEN Arith(Fetched, RA, R(I.b), R(I.b), "UNM")
          ELSE Arith(Fetched, RA, RK(I.b), RK(I.c), I.op)
  /\ UNCHANGED Idle

Length ==
  LET v == R(I.b)
  IN  /\ Executes({"LEN"})
      /\ L' = CASE IsTable(v)  -> Set(Fetched, RA, <<"number", luaH_getn(L, v)>>)
                [] IsString(v) -> Set(Fetched, RA, <<"number", Len(v[2])>>)
                [] OTHER       -> call_binTM(Fetched, v, Nil, StoreAt(RA), "__len", "length")
      /\ UNCHANGED Idle

Concat == /\ Executes({"CONCAT"})
          /\ L' = luaV_concat(Fetched, I.c - I.b + 1, I.c, RA)
          /\ UNCHANGED Idle

Jmp == Executes({"JMP"}) /\ L' = Jump(Fetched, I.b) /\ UNCHANGED Idle

\* The jump after a test is taken, or skipped; pc is past the test.
dojump(s, cond) == Jump(s, IF cond THEN Proto.code[Ci(s).pc + 1].b + 1 ELSE 1)

Compared(op, b, c) == CASE op = "EQ" -> luaV_equalval(Fetched, b, c)
                        [] op = "LT" -> luaV_lessthan(Fetched, b, c, ThenTest(TRUE))
                        [] op = "LE" -> lessequal(Fetched, b, c)
Tested(cmp) == IF cmp.called THEN cmp.s ELSE dojump(cmp.s, cmp.res = (I.a = 1))
Compare ==
  /\ Executes({"EQ", "LT", "LE"})
  /\ L' = Tested(Compared(I.op, RK(I.b), RK(I.c)))
  /\ UNCHANGED Idle

Test ==
  LET v    == IF I.op = "TEST" THEN R(I.a) ELSE R(I.b)
      cond == IsFalse(v) # (I.c = 1)
  IN  /\ Executes({"TEST", "TESTSET"})
      /\ L' = dojump(IF cond /\ I.op = "TESTSET" THEN Set(Fetched, RA, v) ELSE Fetched, cond)
      /\ UNCHANGED Idle

\* B counts the arguments, unless the instruction before left them open.
Arguments == [Fetched EXCEPT !.top = IF I.b # 0 THEN RA + I.b ELSE @]

Call == /\ Executes({"CALL"})
        /\ L' = luaD_precall(Arguments, RA, I.c - 1, FALSE)
        /\ UNCHANGED Idle

\* The frame of a Lua function moves down over that of its caller.
Replace(s) ==
  LET new == Ci(s)
      ci  == s.ci[Len(s.ci) - 1]
      top == ci.func + (s.top - new.func)
      shut == luaF_close(s, ci.base)
  IN  [Put(shut, ci.func, SubSeq(shut.stack, new.func + 1, s.top)) EXCEPT !.top = top,
         !.ci = Append(Front(Front(@)), [ci EXCEPT !.base = ci.func + (new.base - new.func), !.top = top, !.pc = 0])]

\* Mutant: what was called from C is not known to be so after a tail call.
TailCalled_Forgets(s) ==
  IF Len(s.ci) = Len(L.ci) + 1 /\ IsLua(s, Ci(s)) THEN [Replace(s) EXCEPT !.ci[Len(L.ci)].fresh = FALSE] ELSE s

TailCalled(s) == IF Len(s.ci) = Len(L.ci) + 1 /\ IsLua(s, Ci(s)) THEN Replace(s) ELSE s
TailCall ==
  /\ Executes({"TAILCALL"})
  /\ L' = TailCalled(luaD_precall(Arguments, RA, LUA_MULTRET, FALSE))
  /\ UNCHANGED Idle

Return ==
  LET top == IF I.b # 0 THEN RA + I.b - 1 ELSE L.top
      s == luaD_poscall(luaF_close(Fetched, Base), SubSeq(L.stack, RA + 1, top))
  IN  /\ Executes({"RETURN"})
      /\ L' = IF Ci(L).fresh \/ Ci(L).nresults = LUA_MULTRET THEN s ELSE CiTop(s)
      /\ UNCHANGED Idle

ForPrep ==
  LET v == [n \in 0..2 |-> luaV_tonumber(R(I.a + n))]
      first == <<"number", NumArith("SUB", v[0][2], v[2][2])>>
  IN  /\ Executes({"FORPREP"})
      /\ L' = IF Nil \in {v[0], v[1], v[2]} THEN Throw(Fetched, "for")
              ELSE Jump(Put(Fetched, RA, <<first, v[1], v[2]>>), I.b)
      /\ UNCHANGED Idle

ForLoop ==
  LET step  == R(I.a + 2)[2]
      idx   == NumArith("ADD", R(I.a)[2], step)
      limit == R(I.a + 1)[2]
      again == IF NumLess(0, step) THEN NumLessEqual(idx, limit) ELSE NumLessEqual(limit, idx)
      next  == Set(Set(Fetched, RA, <<"number", idx>>), RA + 3, <<"number", idx>>)
  IN  /\ Executes({"FORLOOP"})
      /\ L' = IF again THEN Jump(next, I.b) ELSE Fetched
      /\ UNCHANGED Idle

TForLoop ==
  LET cb == RA + 3
      s == [Put(Fetched, cb, <<R(I.a), R(I.a + 1), R(I.a + 2)>>) EXCEPT !.top = cb + 3]
  IN  /\ Executes({"TFORLOOP"})
      /\ L' = luaD_call(SetK(s, [op |-> "tfor", at |-> cb]), cb, I.c)
      /\ UNCHANGED Idle

SetList ==
  LET n == IF I.b = 0 THEN L.top - RA - 1 ELSE I.b
      s == IF I.b = 0 THEN CiTop(Fetched) ELSE Fetched
      c == IF I.c = 0 THEN AsWord(Proto.code[Ci(L).pc + 2]) - (511 - MAXARG_C) ELSE I.c
      first == (c - 1) * LFIELDS_PER_FLUSH
      t == R(I.a)[2]
      given == {j \in 1..n : R(I.a + j) # Nil}
      items == [x \in {<<"number", first + j>> : j \in given} |-> R(I.a + x[2] - first)]
      kept  == {x \in DOMAIN L.tabs[t].map : ~(IsNumber(x) /\ x[2] - first \in 1..n)}
      stored == [s EXCEPT !.tabs[t].map = Over(items, [x \in kept |-> @[x]])]
  IN  /\ Executes({"SETLIST"})
      /\ L' = Jump(IF IsTable(R(I.a)) THEN stored ELSE s, IF I.c = 0 THEN 1 ELSE 0)
      /\ UNCHANGED Idle

Close == Executes({"CLOSE"}) /\ L' = luaF_close(Fetched, RA) /\ UNCHANGED Idle

ClosureOp ==
  LET path == Append(Closure(L, Ci(L)).p, I.b + 1)
      nup  == Follow(main, path).nups
      Bind(acc, w) ==
        LET found == luaF_findupval(acc.upvals, Base + w.b)
        IN  IF w.op = "GETUPVAL" THEN [acc EXCEPT !.ids = Append(@, UpVal(w.b))]
            ELSE [upvals |-> found, ids |-> Append(acc.ids, UpvalAt(found, Base + w.b))]
      bound == FoldLeft(Bind, [upvals |-> L.upvals, ids |-> <<>>], SubSeq(Proto.code, Ci(L).pc + 2, Ci(L).pc + 1 + nup))
      s == [Fetched EXCEPT !.upvals = bound.upvals, !.funs = Append(@, [p |-> path, upvals |-> bound.ids])]
  IN  /\ Executes({"CLOSURE"})
      /\ L' = Jump(Set(s, RA, <<"function", Len(s.funs)>>), nup)
      /\ UNCHANGED Idle

VarArg ==
  LET n == Base - Ci(L).func - Proto.numparams - 1
      given == SubSeq(L.stack, Base - n + 1, Base)
      b == I.b - 1
  IN  /\ Executes({"VARARG"})
      /\ L' = IF b = LUA_MULTRET THEN [Put(Fetched, RA, given) EXCEPT !.top = RA + n]
              ELSE Put(Fetched, RA, SubSeq(given \o Nils(b), 1, b))
      /\ UNCHANGED Idle

\* luaB_pcall runs in its frame: luaD_pcall, which calls inside of it.
Pcall == /\ Active /\ Ci(L).c.op = "pcall"
         /\ L' = luaD_call(SetC(SetK(L, [op |-> "pcall"]), NoK), Base, LUA_MULTRET)
         /\ UNCHANGED Idle

-----------------------------------------------------------------------------
(* What the C code does when the function it called has returned.          *)

Returned(op) == Active /\ Ci(L).k.op = op
Back == SetK(L, NoK)
Result == Slot(L, L.top - 1)
Taken == [Back EXCEPT !.top = @ - 1]

StoreResult == Returned("store") /\ L' = Set(Taken, Ci(L).k.at, Result) /\ UNCHANGED Idle
DropResult  == Returned("drop") /\ L' = Back /\ UNCHANGED Idle

\* The comparison is the instruction before pc.
TestResult ==
  LET i == Proto.code[Ci(L).pc]
  IN  /\ Returned("test")
      /\ L' = dojump(Taken, (IsFalse(Result) # Ci(L).k.res) = (i.a = 1))
      /\ UNCHANGED Idle

ConcatResult ==
  LET k == Ci(L).k
  IN  /\ Returned("concat")
      /\ L' = luaV_concat(Set(Taken, Base + k.last, Result), k.total, k.last, k.at)
      /\ UNCHANGED Idle

\* A first result that is not nil is the control variable and goes on.
TForResult ==
  LET cb == Ci(L).k.at
      v == Slot(L, cb)
  IN  /\ Returned("tfor")
      /\ L' = dojump(CiTop(IF v # Nil THEN Set(Back, cb - 1, v) ELSE Back), v # Nil)
      /\ UNCHANGED Idle

PcallReturns == /\ Returned("pcall")
                /\ L' = CReturn(L, <<True>> \o Values(L, Base))
                /\ UNCHANGED Idle

-----------------------------------------------------------------------------
(* The life of a chunk: compiled, perhaps dumped and read back (string.dump *)
(* and load), and called by the host.                                      *)

\* luaL_openlibs: the base functions, and a table of functions for each
\* library; that of strings is also their __index.
LibraryNames == SetToSeq(DOMAIN Libraries)
TableOf(map) == [map |-> map, meta |-> 0, flags |-> {}]
lua_newstate ==
  LET Place(name) == <<"table", 2 + CHOOSE j \in DOMAIN LibraryNames : LibraryNames[j] = name>>
      Functions(fs) == [x \in {<<"string", name>> : name \in DOMAIN fs} |-> <<"cfunction", fs[x[2]]>>]
      globals == Over([x \in {<<"string", name>> : name \in DOMAIN Libraries} |-> Place(x[2])],
                      Functions([name \in BaseFunctions |-> name]))
      strmeta == [x \in {<<"string", "__index">> : name \in DOMAIN Libraries \cap {"string"}} |-> Place("string")]
  IN  [stack |-> <<Nil>>, top |-> 1, ci |-> <<Host>>, funs |-> <<>>, upvals |-> <<>>, err |-> "", strmeta |-> 2,
       tabs |-> <<TableOf(globals), TableOf(strmeta)>>
                \o [j \in DOMAIN LibraryNames |-> TableOf(Functions(Libraries[LibraryNames[j]]))]]

Init == /\ prog \in Programs
        /\ load \in Loads(prog)
        /\ phase = "source"
        /\ main = <<>>
        /\ L = lua_newstate

Compile ==
  LET r == Parser(Tokens(prog))
  IN  /\ phase = "source"
      /\ IF r.err = "" THEN main' = r.v /\ phase' = "compiled" /\ L' = L
         ELSE main' = main /\ phase' = "refused" /\ L' = [L EXCEPT !.err = r.err]
      /\ UNCHANGED <<prog, load>>

\* The bytes arrive in pieces, without the last ones if the file was cut.
Pieces(bytes) ==
  LET n == Len(bytes) - load.cut
      count == (n + load.piece - 1) \div load.piece
      Piece(j) == SubSeq(bytes, (j - 1) * load.piece + 1, IF j = count THEN n ELSE j * load.piece)
  IN  Tuple(count, Piece)

Reload ==
  LET r == Undump(Pieces(Dump(main, load.strip)))
  IN  /\ phase = "compiled" /\ load.dumped
      /\ IF r.err = "" THEN main' = r.v /\ phase' = "loaded" /\ L' = L
         ELSE main' = main /\ phase' = "refused" /\ L' = [L EXCEPT !.err = r.err]
      /\ UNCHANGED <<prog, load>>

Start ==
  LET s == [L EXCEPT !.stack = Append(@, <<"function", 1>>), !.top = 2,
                     !.funs = <<[p |-> <<>>, upvals |-> <<>>]>>]
  IN  /\ phase = IF load.dumped THEN "loaded" ELSE "compiled"
      /\ phase' = "run"
      /\ L' = luaD_call(s, 1, LUA_MULTRET)
      /\ UNCHANGED <<prog, load, main>>

Finished == phase = "refused" \/ (phase = "run" /\ ~Active)
Stopped == Finished /\ UNCHANGED vars

Execute ==
  \/ SetsRegister \/ LoadNil \/ SetUpval \/ GetTable \/ SetTable \/ NewTableOp \/ ArithOp
  \/ Length \/ Concat \/ Jmp \/ Compare \/ Test \/ Call \/ TailCall \/ Return
  \/ ForPrep \/ ForLoop \/ TForLoop \/ SetList \/ Close \/ ClosureOp \/ VarArg \/ Pcall
Continue == \/ StoreResult \/ DropResult \/ TestResult \/ ConcatResult \/ TForResult \/ PcallReturns

Next == Compile \/ Reload \/ Start \/ Execute \/ Continue \/ Stopped
Spec == Init /\ [][Next]_vars

-----------------------------------------------------------------------------
(* Properties *)

\* Of a table or a function only the type is seen from outside.
Shown(vs) == [j \in DOMAIN vs |-> IF vs[j][1] \in {"table", "function", "cfunction"} THEN <<vs[j][1]>> ELSE vs[j]]
Outcome == CASE phase = "refused" -> <<"refused", L.err>>
             [] phase = "run" /\ L.err # "" -> <<"error", L.err>>
             [] OTHER -> <<"returned", Shown(Values(L, 1))>>

\* What a program does on the virtual machine is what it means: it returns
\* the same values, or raises the same error, and it is refused only where
\* it exceeds a limit or its file was cut.
SemanticsPreserved ==
  Finished => \/ Outcome = Meaning(prog)
              \/ load.dumped /\ load.cut > 0 /\ Outcome = <<"refused", "unexpected end">>

\* A function and those in it, which are nested to LUAI_MAXCCALLS levels at
\* most (enterlevel).
Protos(p) ==
  LET Nested[n \in Nat] == IF n = 0 THEN {p} ELSE UNION {{q.p[j] : j \in DOMAIN q.p} : q \in Nested[n - 1]}
  IN  UNION {Nested[n] : n \in 0..LUAI_MAXCCALLS}

\* Every function the parser makes passes the code checker, and no assertion
\* of the compiler fails (lparser.c:374, lcode.c): this is what allows the
\* virtual machine to run code without testing its operands.
CodeChecked == /\ L.err # "assertion failed"
               /\ phase = "compiled" => \A p \in Protos(main) : luaG_checkcode(p)

\* The word after a SETLIST whose C is 0 is a plain number, not an instruction
\* (lopcodes.h:226): it stays the number of the flush, one more than there
\* are SETLISTs on the same table since it was made.
RealCounts ==
  LET Earlier(p, n) ==
        LET Made(m) == p.code[m].op = "NEWTABLE" /\ p.code[m].a = p.code[n].a
            made == CHOOSE m \in 1..n : Made(m) /\ \A x \in (m + 1)..n : ~Made(x)
        IN  Cardinality({m \in made..(n - 1) : p.code[m].op = "SETLIST" /\ p.code[m].a = p.code[n].a})
  IN  phase = "compiled" => \A p \in Protos(main) : \A n \in DOMAIN p.code :
        p.code[n].op = "SETLIST" /\ p.code[n].c = 0 =>
          AsWord(p.code[n + 1]) - (511 - MAXARG_C) = Earlier(p, n) + 1

\* Between instructions the top is the one of the frame, except before an
\* instruction that takes open results; a frame entered from OP_CALL goes on
\* after it (the assertions of luaV_execute).
TopDiscipline ==
  Running =>
    /\ L.top = Ci(L).top \/ luaG_checkopenop(I)
    /\ Base <= L.top /\ Ci(L).top = Base + Proto.maxstacksize
    /\ ~Ci(L).fresh /\ Len(L.ci) > 2 /\ IsLua(L, L.ci[Len(L.ci) - 1]) =>
         LET ci == L.ci[Len(L.ci) - 1]
         IN  ProtoOf(Closure(L, ci)).code[ci.pc].op = "CALL"

\* C code on the C stack (k or c) and frames on the stack of calls agree,
\* through tail calls, errors and calls of calls: a function was called from C
\* exactly if the frame below it waits in C, and it leaves as many results as
\* the C code takes then, so that luaV_execute goes back to C neither too
\* early nor too late (nexeccalls); and C calls stay below their limit.
LeavesWhat(ci, n) == CASE ci.k.op = "drop"  -> n = 0
                       [] ci.k.op = "pcall" -> n = LUA_MULTRET
                       [] ci.k.op = "tfor"  -> TRUE
                       [] OTHER             -> n = 1
Reentry ==
  /\ nCcalls(L) < LUAI_MAXCCALLS
  /\ \A i \in 1..(Len(L.ci) - 1) :
       /\ L.ci[i + 1].fresh <=> (i = 1 \/ L.ci[i].k # NoK \/ L.ci[i].c # NoK)
       /\ L.ci[i + 1].fresh /\ i > 1 => LeavesWhat(L.ci[i], L.ci[i + 1].nresults)

\* An event that a metatable is known to lack (Table.flags) is not there: no
\* metamethod is missed.
CachedAbsence == \A t \in DOMAIN L.tabs : \A event \in L.tabs[t].flags :
                   <<"string", event>> \notin DOMAIN L.tabs[t].map

\* Two functions differ in their debug information only.
SameCode(p, q) ==
  LET Nested[n \in Nat] == IF n = 0 THEN {<<p, q>>}
                           ELSE UNION {{<<x[1].p[j], x[2].p[j]>> : j \in DOMAIN x[1].p \cap DOMAIN x[2].p} : x \in Nested[n - 1]}
  IN  \A x \in UNION {Nested[n] : n \in 0..LUAI_MAXCCALLS} :
        /\ x[2] = [x[1] EXCEPT !.source = "=?", !.lineinfo = 0, !.upvalues = <<>>, !.p = x[2].p]
        /\ Len(x[1].p) = Len(x[2].p)

\* A chunk that is dumped and read back, in whatever pieces, is the compiled
\* one, without its debug information if that was stripped; a chunk that was
\* cut is never run.
ChunkWhole ==
  [][phase = "compiled" /\ load.dumped =>
       IF load.cut > 0 THEN phase' = "refused"
       ELSE phase' = "loaded" /\ IF load.strip THEN SameCode(main, main') ELSE main' = main]_vars
=============================================================================
