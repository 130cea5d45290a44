----------------------------- MODULE LuaParser -----------------------------
(***************************************************************************)
(* The parser of Lua 5.1 (lparser.c): recursive descent over the tokens    *)
(* with one token of lookahead, generating code as it goes (LuaCode).  It  *)
(* keeps scopes, upvalues, blocks with their pending breaks, and the       *)
(* registers of active variables, and checks every limit on the way.       *)
(*                                                                         *)
(* A token is a tuple <<kind>> or <<kind, value>>; the lexer (llex.c) is   *)
(* the step from text to tokens and is not modelled.  s.prev holds the     *)
(* FuncState of the enclosing function.                                    *)
(***************************************************************************)
EXTENDS LuaCode, SequencesExt

CONSTANTS LUAI_MAXVARS, LUAI_MAXUPVALUES   \* luaconf.h

Tk(s) == Head(s.ts)[1]
Seen(s) == Head(s.ts)[2]                    \* its seminfo
NextToken(s) == IF Len(s.ts) > 1 THEN [s EXCEPT !.ts = Tail(@)] ELSE s
Check(s, c) == IF Tk(s) = c THEN s ELSE Error(s, "syntax error")
CheckNext(s, c) == NextToken(Check(s, c))
CheckLimit(s, v, l) == IF v > l THEN Error(s, "too many") ELSE s
CheckCondition(s, ok) == IF ok THEN s ELSE Error(s, "syntax error")

EnterLevel(s) == IF s.nCcalls + 1 > LUAI_MAXCCALLS THEN Error(s, "too many syntax levels")
                 ELSE [s EXCEPT !.nCcalls = @ + 1]
LeaveLevel(s) == [s EXCEPT !.nCcalls = @ - 1]

HasMultRet(e) == e.k \in {"VCALL", "VVARARG"}
MultRet(s) == luaK_setreturns(s, LUA_MULTRET)

\* A name is checked and its string becomes the expression.
CodeString(s, str) == LET a == AddK(s, <<"string", str>>)
                      IN  SetE(a, InitExp("VK", IndexOfK(a, <<"string", str>>)))
NameOf(s) == IF Tk(s) = "NAME" THEN Seen(s) ELSE ""
CheckName(s) == CodeString(CheckNext(s, "NAME"), NameOf(s))

-----------------------------------------------------------------------------
(* Variables and blocks *)

\* The n-th variable declared but not yet active.
NewLocalVar(s, name, n) ==
  [CheckLimit(s, s.nactvar + n + 1, LUAI_MAXVARS)
     EXCEPT !.actvar = SubSeq(@, 1, s.nactvar + n) \o <<name>>]
AdjustLocalVars(s, n) == [s EXCEPT !.nactvar = @ + n]

SearchVar(s, name) == LET at == {i \in 1..s.nactvar : s.actvar[i] = name}
                      IN  IF at = {} THEN -1 ELSE (CHOOSE i \in at : \A j \in at : j <= i) - 1

\* The innermost block the variable belongs to will close it.
MarkUpval(s, level) ==
  LET at == {i \in DOMAIN s.bl : s.bl[i].nactvar <= level}
  IN  IF at = {} THEN s ELSE [s EXCEPT !.bl[CHOOSE i \in at : \A j \in at : j <= i].upval = TRUE]

IsUpvalue(u, k, info) == u.k = k /\ u.info = info
IndexUpvalue(s, name, k, info) ==
  IF \E i \in DOMAIN s.upvalues : IsUpvalue(s.upvalues[i], k, info) THEN s
  ELSE [CheckLimit(s, Len(s.upvalues) + 1, LUAI_MAXUPVALUES)
          EXCEPT !.upvalues = Append(@, [name |-> name, k |-> k, info |-> info])]
UpvalueOf(s, k, info) == (CHOOSE i \in DOMAIN s.upvalues : IsUpvalue(s.upvalues[i], k, info)) - 1

\* s.e becomes the variable; the functions in between get an upvalue for it.
RECURSIVE SingleVarAux(_, _, _)
SingleVarAux(s, name, base) ==
  LET v     == SearchVar(s, name)
      local == [IF base THEN s ELSE MarkUpval(s, v) EXCEPT !.e = InitExp("VLOCAL", v)]
      up    == SingleVarAux(s.prev[1], name, FALSE)
      held  == IndexUpvalue([s EXCEPT !.prev = <<up>>], name, up.e.k, up.e.info)
  IN  CASE v >= 0 -> local
        [] v < 0 /\ s.prev = <<>> -> SetE(s, InitExp("VGLOBAL", NO_REG))
        [] v < 0 /\ s.prev # <<>> /\ up.e.k = "VGLOBAL" -> SetE(s, up.e)
        [] OTHER -> IF up.err # "" THEN Error(s, up.err)
                    ELSE SetE(held, InitExp("VUPVAL", UpvalueOf(held, up.e.k, up.e.info)))

SingleVar(s) ==
  LET name == NameOf(s)
      v == SingleVarAux(CheckNext(s, "NAME"), name, TRUE)
      k == AddK(v, <<"string", name>>)
  IN  IF v.e.k = "VGLOBAL" THEN SetE(k, InitExp("VGLOBAL", IndexOfK(k, <<"string", name>>))) ELSE v

\* nvars values are left for an expression list of nexps whose last is s.e.
AdjustAssign(s, nvars, nexps) ==
  LET extra == nvars - nexps
      more  == IF extra + 1 < 0 THEN 0 ELSE extra + 1
      open  == luaK_setreturns(s, more)
      last  == IF s.e.k = "VVOID" THEN s ELSE luaK_exp2nextreg(s)
  IN  CASE HasMultRet(s.e) -> IF more > 1 THEN luaK_reserveregs(open, more - 1) ELSE open
        [] ~HasMultRet(s.e) /\ extra > 0 -> luaK_nil(luaK_reserveregs(last, extra), last.freereg, extra)
        [] OTHER -> last

EnterBlock(s, isbreakable) ==
  [lua_assert(s, s.freereg = s.nactvar) EXCEPT !.bl =
     Append(@, [breaklist |-> NO_JUMP, nactvar |-> s.nactvar, upval |-> FALSE, isbreakable |-> isbreakable])]

LeaveBlock(s) ==
  LET bl   == Last(s.bl)
      left == [lua_assert(s, ~(bl.isbreakable /\ bl.upval)) EXCEPT !.bl = Front(@), !.nactvar = bl.nactvar]
      shut == IF bl.upval THEN luaK_codeABC(left, "CLOSE", bl.nactvar, 0, 0) ELSE left
  IN  luaK_patchtohere([shut EXCEPT !.freereg = bl.nactvar], bl.breaklist)

-----------------------------------------------------------------------------
(* Functions *)

OpenFunc(s, prev) ==
  [ts |-> s.ts, err |-> s.err, nCcalls |-> s.nCcalls, prev |-> prev, e |-> InitExp("VVOID", 0),
   code |-> <<>>, k |-> <<>>, p |-> <<>>, upvalues |-> <<>>, jpc |-> NO_JUMP, lasttarget |-> -1,
   freereg |-> 0, maxstack |-> 2, nactvar |-> 0, actvar |-> <<>>, bl |-> <<>>,
   numparams |-> 0, is_vararg |-> 0]

\* The prototype a FuncState leaves behind.  Of the debug information the
\* model keeps the source, the names of the upvalues and how many
\* instructions have a line.
CloseFunc(s) ==
  LET r == luaK_ret([s EXCEPT !.nactvar = 0], 0, 0)
  IN  [source |-> "chunk", code |-> r.code, k |-> r.k, p |-> r.p, nups |-> Len(r.upvalues),
       numparams |-> r.numparams, is_vararg |-> r.is_vararg, maxstacksize |-> r.maxstack,
       lineinfo |-> Len(r.code), upvalues |-> [n \in DOMAIN r.upvalues |-> r.upvalues[n].name]]

\* The CLOSURE is followed by a word for each upvalue.
PushClosure(s, f) ==
  LET c == Relocable([s EXCEPT !.p = Append(@, CloseFunc(f))], "CLOSURE", Len(s.p), 0)
      Bind(x, u) == luaK_codeABC(x, IF u.k = "VLOCAL" THEN "MOVE" ELSE "GETUPVAL", 0, u.info, 0)
      bound == FoldLeft(Bind, c, f.upvalues)
  IN  SetE(bound, InitExp("VRELOCABLE", PC(s)))

RECURSIVE ParList(_, _)
ParList(s, n) ==
  LET one == CASE Tk(s) = "NAME" -> NewLocalVar(NextToken(s), Seen(s), n)
               [] Tk(s) = "..."  -> [NewLocalVar(NextToken(s), "arg", n)
                                       EXCEPT !.is_vararg = HASARG + ISVARARG + NEEDSARG]
               [] OTHER          -> Error(s, "syntax error")
      done == AdjustLocalVars(one, n + 1)
      params == [done EXCEPT !.numparams = done.nactvar - (IF done.is_vararg = 0 THEN 0 ELSE 1)]
  IN  IF one.is_vararg = 0 /\ Tk(one) = "," THEN ParList(NextToken(one), n + 1)
      ELSE luaK_reserveregs(params, params.nactvar)

-----------------------------------------------------------------------------
(* Expressions *)

Priority == [op \in {"+", "-", "*", "/", "%", "^", "..", "~=", "==", "<", "<=", ">", ">=", "and", "or"} |->
  CASE op \in {"+", "-"} -> <<6, 6>>  [] op \in {"*", "/", "%"} -> <<7, 7>>
    [] op = "^"  -> <<10, 9>>         [] op = ".." -> <<5, 4>>
    [] op = "and" -> <<2, 2>>         [] op = "or" -> <<1, 1>>
    [] OTHER -> <<3, 3>>]
UNARY_PRIORITY == 8

RECURSIVE SubExpr(_, _), Chunk(_)
Expr(s) == SubExpr(s, 0)

Body(s, needself) ==
  LET open == CheckNext(OpenFunc(s, <<s>>), "(")
      self == IF needself THEN AdjustLocalVars(NewLocalVar(open, "self", 0), 1) ELSE open
      pars == IF Tk(self) = ")" THEN luaK_reserveregs([self EXCEPT !.numparams = self.nactvar], self.nactvar)
              ELSE ParList(self, 0)
      f == CheckNext(Chunk(CheckNext(pars, ")")), "end")
  IN  PushClosure([f.prev[1] EXCEPT !.ts = f.ts, !.err = f.err, !.nCcalls = f.nCcalls], f)

RECURSIVE ExpList1(_, _)
ExpList1(s, n) ==      \* the number of expressions is left in s.n
  LET v == Expr(s)
  IN  IF Tk(v) = "," THEN ExpList1(luaK_exp2nextreg(NextToken(v)), n + 1)
      ELSE [s |-> v, n |-> n]

\* Table constructors.  cc is the C ConsControl: the pending list item v,
\* the table t, and the numbers of list items, record items and items
\* pending to be stored.
YIndex(s) == CheckNext(luaK_exp2val(Expr(NextToken(s))), "]")

RecField(s, cc) ==
  LET key == luaK_exp2RK(CheckNext(IF Tk(s) = "NAME" THEN CheckName(s) ELSE YIndex(s), "="))
      val == luaK_exp2RK(Expr(key))
  IN  [luaK_codeABC(val, "SETTABLE", cc.t, RKOf(key.e), RKOf(val.e)) EXCEPT !.freereg = s.freereg]

Flushes(cc) == cc.v.k # "VVOID" /\ cc.tostore = LFIELDS_PER_FLUSH
CloseListField(s, cc) ==
  LET r == luaK_exp2nextreg(SetE(s, cc.v))
  IN  CASE cc.v.k = "VVOID" -> s
        [] Flushes(cc)      -> luaK_setlist(r, cc.t, cc.na, cc.tostore)
        [] OTHER            -> r

LastListField(s, cc) ==
  LET r == IF cc.v.k = "VVOID" THEN s ELSE luaK_exp2nextreg(SetE(s, cc.v))
  IN  CASE cc.tostore = 0    -> s
        [] cc.tostore # 0 /\ HasMultRet(cc.v) ->
             luaK_setlist(MultRet(SetE(s, cc.v)), cc.t, cc.na, LUA_MULTRET)
        [] OTHER             -> luaK_setlist(r, cc.t, cc.na, cc.tostore)

RECURSIVE Fields(_, _)
Fields(s, cc) ==
  LET shut == CloseListField(s, cc)
      isrec == Tk(shut) = "[" \/ (Tk(shut) = "NAME" /\ shut.ts[2][1] = "=")
      item == IF isrec THEN RecField(shut, cc) ELSE Expr(shut)
      left == [cc EXCEPT !.v = InitExp("VVOID", 0), !.tostore = IF Flushes(cc) THEN 0 ELSE @]
      next == IF isrec THEN [left EXCEPT !.nh = @ + 1]
              ELSE [left EXCEPT !.v = item.e, !.na = @ + 1, !.tostore = @ + 1]
      End(x, c) ==
        LET last == LastListField(CheckNext(x, "}"), c)
            na == IF c.tostore > 0 /\ HasMultRet(c.v) THEN c.na - 1 ELSE c.na
        IN  [last EXCEPT !.code[cc.pc + 1].b = luaO_int2fb(na), !.code[cc.pc + 1].c = luaO_int2fb(c.nh),
                         !.e = InitExp("VNONRELOC", cc.t)]
  IN  CASE Tk(s) = "}" -> End(s, cc)
        [] Tk(s) # "}" /\ Tk(item) \in {",", ";"} -> Fields(NextToken(item), next)
        [] OTHER -> End(item, next)

Constructor(s) ==
  LET t == luaK_exp2nextreg(Relocable(SetE(s, InitExp("VVOID", 0)), "NEWTABLE", 0, 0))
  IN  Fields(CheckNext(t, "{"), [t |-> t.e.info, pc |-> PC(s), v |-> InitExp("VVOID", 0),
                                 na |-> 0, nh |-> 0, tostore |-> 0])

FuncArgs(s) ==
  LET base == s.e.info
      args == CASE Tk(s) = "(" /\ s.ts[2][1] = ")" -> SetE(NextToken(NextToken(s)), InitExp("VVOID", 0))
                [] Tk(s) = "(" -> CheckNext(MultRet(ExpList1(NextToken(s), 1).s), ")")
                [] Tk(s) = "{" -> Constructor(s)
                [] Tk(s) = "STRING" -> CodeString(NextToken(s), Seen(s))
                [] OTHER -> Error(s, "syntax error")
      last == IF HasMultRet(args.e) \/ args.e.k = "VVOID" THEN args ELSE luaK_exp2nextreg(args)
      nparams == IF HasMultRet(args.e) THEN LUA_MULTRET ELSE last.freereg - (base + 1)
  IN  [luaK_codeABC(lua_assert(last, s.e.k = "VNONRELOC"), "CALL", base, nparams + 1, 2)
         EXCEPT !.e = InitExp("VCALL", PC(last)), !.freereg = base + 1]

PrefixExp(s) ==
  CASE Tk(s) = "("    -> luaK_dischargevars(CheckNext(Expr(NextToken(s)), ")"))
    [] Tk(s) = "NAME" -> SingleVar(s)
    [] OTHER          -> Error(SetE(s, InitExp("VVOID", 0)), "syntax error")

Field(s) == LET v == luaK_exp2anyreg(s) IN luaK_indexed(CheckName(NextToken(v)), v.e)

RECURSIVE Suffixed(_)
Suffixed(s) ==
  LET v == luaK_exp2anyreg(s)
      name == CheckName(NextToken(s))
  IN  CASE Tk(s) = "." -> Suffixed(Field(s))
        [] Tk(s) = "[" -> Suffixed(luaK_indexed(YIndex(v), v.e))
        [] Tk(s) = ":" -> Suffixed(FuncArgs(luaK_self(SetE(name, s.e), name.e)))
        [] Tk(s) \in {"(", "STRING", "{"} -> Suffixed(FuncArgs(luaK_exp2nextreg(s)))
        [] OTHER -> s
PrimaryExp(s) == Suffixed(PrefixExp(s))

SimpleExp(s) ==
  LET n == NextToken(s)
      Dots(x) == [SetE(luaK_codeABC(x, "VARARG", 0, 1, 0), InitExp("VVARARG", PC(x)))
                    EXCEPT !.is_vararg = IF @ >= NEEDSARG THEN @ - NEEDSARG ELSE @]
  IN  CASE Tk(s) = "NUMBER"   -> SetE(n, [InitExp("VKNUM", 0) EXCEPT !.nval = Seen(s)])
        [] Tk(s) = "STRING"   -> CodeString(n, Seen(s))
        [] Tk(s) = "nil"      -> SetE(n, InitExp("VNIL", 0))
        [] Tk(s) = "true"     -> SetE(n, InitExp("VTRUE", 0))
        [] Tk(s) = "false"    -> SetE(n, InitExp("VFALSE", 0))
        [] Tk(s) = "..."      -> Dots(CheckCondition(n, s.is_vararg # 0))
        [] Tk(s) = "{"        -> Constructor(s)
        [] Tk(s) = "function" -> Body(n, FALSE)
        [] OTHER              -> PrimaryExp(s)

RECURSIVE Operators(_, _)
Operators(s, limit) ==
  LET op == Tk(s)
      left == luaK_infix(NextToken(s), op)
      right == SubExpr(left, Priority[op][2])
  IN  IF op \in DOMAIN Priority /\ Priority[op][1] > limit
      THEN Operators(luaK_posfix(right, op, left.e), limit) ELSE s

SubExpr(s, limit) ==
  LET in == EnterLevel(s)
      first == IF Tk(in) \in {"not", "-", "#"} THEN luaK_prefix(SubExpr(NextToken(in), UNARY_PRIORITY), Tk(in))
               ELSE SimpleExp(in)
  IN  LeaveLevel(Operators(first, limit))

-----------------------------------------------------------------------------
(* Statements *)

BlockFollow(tk) == tk \in {"else", "elseif", "end", "until", "EOS"}

Block(s) == LET b == Chunk(EnterBlock(s, FALSE))
            IN  LeaveBlock(lua_assert(b, Last(b.bl).breaklist = NO_JUMP))

\* lhs holds the variables to the left; an indexed one that uses the local
\* v will use a copy of it, made before v is assigned.
\* Mutant: only the table is looked at, not the key.
Conflicts_Table(lh, v) == lh.k = "VINDEXED" /\ v.info = lh.info
Conflicts(lh, v) == lh.k = "VINDEXED" /\ v.info \in {lh.info, lh.aux}
CheckConflict(s, lhs, v) ==
  IF \E i \in DOMAIN lhs : Conflicts(lhs[i], v)
  THEN luaK_reserveregs(luaK_codeABC(s, "MOVE", s.freereg, v.info, 0), 1) ELSE s
Renamed(lhs, v, copy) ==
  [i \in DOMAIN lhs |-> IF Conflicts(lhs[i], v)
     THEN [lhs[i] EXCEPT !.info = IF @ = v.info THEN copy ELSE @, !.aux = IF @ = v.info THEN copy ELSE @]
     ELSE lhs[i]]

RECURSIVE Assignment(_, _)
Assignment(s, lhs) ==
  LET ok   == CheckCondition(s, Last(lhs).k \in {"VLOCAL", "VUPVAL", "VGLOBAL", "VINDEXED"})
      nv   == PrimaryExp(NextToken(ok))
      more == CheckLimit(IF nv.e.k = "VLOCAL" THEN CheckConflict(nv, lhs, nv.e) ELSE nv,
                         Len(lhs), LUAI_MAXCCALLS - s.nCcalls)
      lhs2 == IF nv.e.k = "VLOCAL" THEN Renamed(lhs, nv.e, nv.freereg) ELSE lhs
      exps == ExpList1(CheckNext(ok, "="), 1)
      full == AdjustAssign(exps.s, Len(lhs), exps.n)
      cut  == [full EXCEPT !.freereg = IF exps.n > Len(lhs) THEN @ - (exps.n - Len(lhs)) ELSE @]
      Default(x, var) == luaK_storevar(SetE(x, InitExp("VNONRELOC", x.freereg - 1)), var)
  IN  CASE Tk(ok) = "," -> Assignment(more, Append(lhs2, nv.e))
        [] Tk(ok) # "," /\ exps.n = Len(lhs) ->
             FoldRight(LAMBDA var, x : Default(x, var), Front(lhs),
                       luaK_storevar(luaK_setoneret(exps.s), Last(lhs)))
        [] OTHER -> FoldRight(LAMBDA var, x : Default(x, var), lhs, cut)

\* The list of the jumps to take when the condition is false is in s.e.f.
Cond(s) == LET v == Expr(s)
           IN  luaK_goiftrue(IF v.e.k = "VNIL" THEN [v EXCEPT !.e.k = "VFALSE"] ELSE v)

BreakStat(s) ==
  LET loops == {i \in DOMAIN s.bl : s.bl[i].isbreakable}
      loop  == CHOOSE i \in loops : \A j \in loops : j <= i
      upval == \E i \in DOMAIN s.bl : i > loop /\ s.bl[i].upval
      shut  == IF upval THEN luaK_codeABC(s, "CLOSE", s.bl[loop].nactvar, 0, 0) ELSE s
      j     == luaK_jump(shut)
  IN  IF loops = {} THEN Error(s, "no loop to break")
      ELSE [Link(j, s.bl[loop].breaklist, PC(shut)) EXCEPT !.bl[loop].breaklist = Joined(@, PC(shut))]

\* luaK_patchlist(fs, luaK_jump(fs), target)
JumpBack(s, target) == luaK_patchlist(luaK_jump(s), PC(s), target)

WhileStat(s) ==
  LET c == Cond(luaK_getlabel(NextToken(s)))
      b == Block(CheckNext(EnterBlock(c, TRUE), "do"))
  IN  luaK_patchtohere(LeaveBlock(CheckNext(JumpBack(b, PC(s)), "end")), c.e.f)

RepeatStat(s) ==
  LET init == EnterBlock(EnterBlock(luaK_getlabel(s), TRUE), FALSE)
      c    == Cond(CheckNext(Chunk(NextToken(init)), "until"))
      again == LeaveBlock(luaK_patchtohere(BreakStat(c), c.e.f))
  IN  LeaveBlock(IF Last(c.bl).upval THEN JumpBack(again, PC(s))
                 ELSE luaK_patchlist(LeaveBlock(c), c.e.f, PC(s)))

ForBody(s, base, nvars, isnum) ==
  LET d    == CheckNext(AdjustLocalVars(s, 3), "do")
      prep == IF isnum THEN luaK_codeABC(d, "FORPREP", base, NO_JUMP, 0) ELSE luaK_jump(d)
      v    == luaK_reserveregs(AdjustLocalVars(EnterBlock(prep, FALSE), nvars), nvars)
      b    == luaK_patchtohere(LeaveBlock(Block(v)), PC(d))
      loop == luaK_codeABC(b, IF isnum THEN "FORLOOP" ELSE "TFORLOOP", base,
                           IF isnum THEN NO_JUMP ELSE 0, IF isnum THEN 0 ELSE nvars)
  IN  IF isnum THEN luaK_patchlist(loop, PC(b), PC(d) + 1) ELSE JumpBack(loop, PC(d) + 1)

Exp1(s) == luaK_exp2nextreg(Expr(s))

ForNum(s, name) ==
  LET vars == FoldLeft(LAMBDA x, n : NewLocalVar(x, IF n = 3 THEN name ELSE "(for)", n), s, <<0, 1, 2, 3>>)
      lim  == Exp1(CheckNext(Exp1(CheckNext(vars, "=")), ","))
      k    == AddK(lim, <<"number", 1>>)
      one  == luaK_reserveregs(luaK_codeABC(k, "LOADK", k.freereg, IndexOfK(k, <<"number", 1>>), 0), 1)
  IN  ForBody(IF Tk(lim) = "," THEN Exp1(NextToken(lim)) ELSE one, s.freereg, 1, TRUE)

RECURSIVE NameList(_, _)
NameList(s, n) == LET v == NewLocalVar(CheckNext(s, "NAME"), NameOf(s), n)
                  IN  IF Tk(v) = "," THEN NameList(NextToken(v), n + 1) ELSE [s |-> v, n |-> n + 1]

ForList(s, name) ==
  LET vars == FoldLeft(LAMBDA x, n : NewLocalVar(x, IF n = 3 THEN name ELSE "(for)", n), s, <<0, 1, 2, 3>>)
      all  == IF Tk(s) = "," THEN NameList(NextToken(vars), 4) ELSE [s |-> vars, n |-> 4]
      exps == ExpList1(CheckNext(all.s, "in"), 1)
  IN  ForBody(luaK_checkstack(AdjustAssign(exps.s, 3, exps.n), 3), s.freereg, all.n - 3, FALSE)

ForStat(s) ==
  LET in == EnterBlock(s, TRUE)
      name == NameOf(NextToken(in))
      v == CheckNext(NextToken(in), "NAME")
      loop == CASE Tk(v) = "=" -> ForNum(v, name)
                [] Tk(v) \in {",", "in"} -> ForList(v, name)
                [] OTHER -> Error(v, "syntax error")
  IN  LeaveBlock(CheckNext(loop, "end"))

\* [s, exits]: the list of jumps taken when the condition fails.
TestThenBlock(s) == LET c == Cond(NextToken(s))
                    IN  [s |-> Block(CheckNext(c, "then")), exits |-> c.e.f]

RECURSIVE IfRest(_, _, _)
IfRest(s, escape, exits) ==
  LET j     == luaK_jump(s)
      past  == Link(j, escape, PC(s))
      over  == luaK_patchtohere(past, exits)
      test  == TestThenBlock(over)
  IN  CASE Tk(s) = "elseif" -> IfRest(test.s, Joined(escape, PC(s)), test.exits)
        [] Tk(s) = "else"   -> luaK_patchtohere(Block(NextToken(over)), Joined(escape, PC(s)))
        [] OTHER            -> luaK_patchtohere(Link(s, escape, exits), Joined(escape, exits))

IfStat(s) == LET test == TestThenBlock(s) IN CheckNext(IfRest(test.s, NO_JUMP, test.exits), "end")

LocalFunc(s) ==
  LET v == NewLocalVar(CheckNext(s, "NAME"), NameOf(s), 0)
  IN  luaK_storevar(Body(AdjustLocalVars(luaK_reserveregs(v, 1), 1), FALSE), InitExp("VLOCAL", s.freereg))

LocalStat(s) ==
  LET names == NameList(s, 0)
      exps  == IF Tk(names.s) = "=" THEN ExpList1(NextToken(names.s), 1)
               ELSE [s |-> SetE(names.s, InitExp("VVOID", 0)), n |-> 0]
  IN  AdjustLocalVars(AdjustAssign(exps.s, names.n, exps.n), names.n)

RECURSIVE FuncName(_)
FuncName(s) == CASE Tk(s) = "." -> FuncName(Field(s))
                 [] Tk(s) = ":" -> Field(s)
                 [] OTHER       -> s

RECURSIVE NeedSelf(_)
NeedSelf(s) == CASE Tk(s) = "." -> NeedSelf(Field(s)) [] OTHER -> Tk(s) = ":"

FuncStat(s) == LET v == SingleVar(NextToken(s))
                   n == FuncName(v)
               IN  luaK_storevar(Body(n, NeedSelf(v)), n.e)

ExprStat(s) == LET v == PrimaryExp(s)
               IN  IF v.e.k = "VCALL" THEN [v EXCEPT !.code[v.e.info + 1].c = 1] ELSE Assignment(v, <<v.e>>)

RetStat(s) ==
  LET n    == NextToken(s)
      exps == ExpList1(n, 1)
      e    == exps.s.e
      open == MultRet(exps.s)
      tail == [open EXCEPT !.code[e.info + 1].op = "TAILCALL"]
      one  == luaK_exp2anyreg(exps.s)
      all  == luaK_exp2nextreg(exps.s)
  IN  CASE BlockFollow(Tk(n)) \/ Tk(n) = ";" -> luaK_ret(n, 0, 0)
        [] e.k = "VCALL" /\ exps.n = 1 ->
             luaK_ret(lua_assert(tail, At(tail, e.info).a = tail.nactvar), tail.nactvar, LUA_MULTRET)
        [] HasMultRet(e) -> luaK_ret(open, open.nactvar, LUA_MULTRET)
        [] exps.n = 1    -> luaK_ret(one, one.e.info, 1)
        [] OTHER         -> luaK_ret(lua_assert(all, exps.n = all.freereg - all.nactvar), all.nactvar, exps.n)

Statement(s) ==
  CASE Tk(s) = "if"       -> IfStat(s)
    [] Tk(s) = "while"    -> WhileStat(s)
    [] Tk(s) = "do"       -> CheckNext(Block(NextToken(s)), "end")
    [] Tk(s) = "for"      -> ForStat(s)
    [] Tk(s) = "repeat"   -> RepeatStat(s)
    [] Tk(s) = "function" -> FuncStat(s)
    [] Tk(s) = "local"    -> IF s.ts[2][1] = "function" THEN LocalFunc(NextToken(NextToken(s)))
                             ELSE LocalStat(NextToken(s))
    [] Tk(s) = "return"   -> RetStat(s)
    [] Tk(s) = "break"    -> BreakStat(NextToken(s))
    [] OTHER              -> ExprStat(s)

RECURSIVE Statements(_)
Statements(s) ==
  LET st   == Statement(s)
      next == IF Tk(st) = ";" THEN NextToken(st) ELSE st
      ok   == lua_assert(next, next.maxstack >= next.freereg /\ next.freereg >= next.nactvar)
      free == [ok EXCEPT !.freereg = ok.nactvar]
  IN  CASE BlockFollow(Tk(s)) -> s
        [] Tk(s) \in {"return", "break"} -> free
        [] OTHER -> Statements(free)
Chunk(s) == LeaveLevel(Statements(EnterLevel(s)))

\* The main function of a chunk, or the error.
luaY_parser(tokens) ==
  LET s == [ts |-> tokens \o <<<<"EOS">>>>, err |-> "", nCcalls |-> 0]
      fs == Check(Chunk([OpenFunc(s, <<>>) EXCEPT !.is_vararg = ISVARARG]), "EOS")
  IN  [err |-> fs.err, v |-> IF fs.err = "" THEN CloseFunc(fs) ELSE <<>>]

=============================================================================
