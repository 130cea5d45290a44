------------------------------ MODULE LuaCode ------------------------------
(***************************************************************************)
(* The code generator of Lua 5.1 (lcode.c, lopcodes.h): it turns the       *)
(* expressions the parser recognises into register-machine code in one     *)
(* pass, keeping unfinished jumps in lists threaded through the jump       *)
(* instructions themselves.                                                *)
(*                                                                         *)
(* The state s is a FuncState: code, constants k, the next free register,  *)
(* the pending jumps jpc, and in s.e the expression descriptor on which    *)
(* the C functions work through a pointer; an operator returns the state   *)
(* after the call.  Pcs and registers are counted from 0 as in the code.   *)
(* A failed lua_assert or a luaX_syntaxerror is kept in s.err.             *)
(***************************************************************************)
EXTENDS Integers, Sequences, FiniteSets, LuaOps

InitExp(k, i) == [k |-> k, info |-> i, aux |-> 0, nval |-> 0, t |-> NO_JUMP, f |-> NO_JUMP]
HasJumps(e) == e.t # e.f
IsNumeral(e) == e.k = "VKNUM" /\ e.t = NO_JUMP /\ e.f = NO_JUMP

PC(s) == Len(s.code)
At(s, pc) == s.code[pc + 1]
SetE(s, e) == [s EXCEPT !.e = e]

\* The rest of the input is dropped after an error, as the longjmp does.
Error(s, msg) == IF s.err = "" THEN [s EXCEPT !.err = msg, !.ts = <<<<"EOS">>>>] ELSE s
lua_assert(s, ok) == IF ok THEN s ELSE Error(s, "assertion failed")

-----------------------------------------------------------------------------
(* Jump lists *)

GetJump(s, pc) == IF At(s, pc).b = NO_JUMP THEN NO_JUMP ELSE pc + 1 + At(s, pc).b

RECURSIVE Jumps(_, _)
Jumps(s, list) == IF list = NO_JUMP THEN {} ELSE {list} \cup Jumps(s, GetJump(s, list))

\* The instruction that controls the jump at pc.
GetJumpControl(s, pc) == IF pc >= 1 /\ At(s, pc - 1).op \in TestMode THEN pc - 1 ELSE pc

ValueJumps(s, list) == {j \in Jumps(s, list) : At(s, GetJumpControl(s, j)).op = "TESTSET"}

NeedValue(s, list) == Jumps(s, list) # ValueJumps(s, list)

\* patchtestreg: a TESTSET whose value is not wanted becomes a TEST.
PatchTestReg(i, reg) == IF reg # NO_REG /\ reg # i.b THEN [i EXCEPT !.a = reg]
                        ELSE CREATE_ABC("TEST", i.b, 0, i.c)

RemoveValues(s, list) ==
  LET controls == {GetJumpControl(s, j) : j \in ValueJumps(s, list)}
      Patched(n) == IF n - 1 \in controls THEN PatchTestReg(s.code[n], NO_REG) ELSE s.code[n]
  IN  [s EXCEPT !.code = Tuple(Len(@), Patched)]

PatchListAux(s, list, vtarget, reg, dtarget) ==
  LET all      == Jumps(s, list)
      values   == ValueJumps(s, list)
      controls == {GetJumpControl(s, j) : j \in values}
      Patched(n) == CASE n - 1 \in all \ values -> [s.code[n] EXCEPT !.b = dtarget - n]
                      [] n - 1 \in values       -> [s.code[n] EXCEPT !.b = vtarget - n]
                      [] n - 1 \in controls     -> PatchTestReg(s.code[n], reg)
                      [] OTHER                  -> s.code[n]
  IN  IF list = NO_JUMP THEN s
      ELSE [lua_assert(s, dtarget # NO_JUMP \/ all = values) EXCEPT !.code = Tuple(Len(@), Patched)]

\* luaK_concat(&l1, l2): Joined is the head the list gets, Link its effect.
Joined(l1, l2) == IF l1 = NO_JUMP THEN l2 ELSE l1
Link(s, l1, l2) ==
  IF NO_JUMP \in {l1, l2} THEN s
  ELSE LET last == CHOOSE j \in Jumps(s, l1) : GetJump(s, j) = NO_JUMP
       IN  [s EXCEPT !.code[last + 1].b = l2 - (last + 1)]

\* Mutant: a place that is jumped to is not remembered.
luaK_getlabel_Forgotten(s) == s
luaK_getlabel(s) == [s EXCEPT !.lasttarget = PC(s)]

luaK_patchtohere(s, list) == [Link(luaK_getlabel(s), s.jpc, list) EXCEPT !.jpc = Joined(@, list)]

luaK_patchlist(s, list, target) ==
  IF target = PC(s) THEN luaK_patchtohere(s, list) ELSE PatchListAux(s, list, target, NO_REG, target)

DischargeJpc(s) == [PatchListAux(s, s.jpc, PC(s), NO_REG, PC(s)) EXCEPT !.jpc = NO_JUMP]

luaK_code(s, i) == [DischargeJpc(s) EXCEPT !.code = Append(@, i)]
luaK_codeABC(s, op, a, b, c) == luaK_code(s, CREATE_ABC(op, a, b, c))

\* The jump is at PC(s); the jumps that were pending here go on with it.
luaK_jump(s) == Link(luaK_codeABC([s EXCEPT !.jpc = NO_JUMP], "JMP", 0, NO_JUMP, 0), PC(s), s.jpc)

CondJump(s, op, a, b, c) == luaK_jump(luaK_codeABC(s, op, a, b, c))

luaK_ret(s, first, nret) == luaK_codeABC(s, "RETURN", first, nret + 1, 0)

\* Nothing to do where the registers are still clean; LOADNILs are merged.
luaK_nil(s, from, n) ==
  LET fresh == PC(s) > s.lasttarget
      prev  == At(s, PC(s) - 1)
  IN  CASE fresh /\ PC(s) = 0 /\ from >= s.nactvar -> s
        [] fresh /\ PC(s) > 0 /\ prev.op = "LOADNIL" /\ prev.a <= from /\ from <= prev.b + 1 ->
             IF from + n - 1 > prev.b THEN [s EXCEPT !.code[PC(s)].b = from + n - 1] ELSE s
        [] OTHER -> luaK_codeABC(s, "LOADNIL", from, from + n - 1, 0)

-----------------------------------------------------------------------------
(* Registers and constants *)

luaK_checkstack(s, n) ==
  CASE s.freereg + n <= s.maxstack -> s
    [] s.freereg + n >= MAXSTACK   -> Error(s, "function or expression too complex")
    [] OTHER                       -> [s EXCEPT !.maxstack = s.freereg + n]

luaK_reserveregs(s, n) == [luaK_checkstack(s, n) EXCEPT !.freereg = @ + n]

FreeReg(s, reg) == IF ISK(reg) \/ reg < s.nactvar THEN s
                   ELSE [lua_assert(s, reg = s.freereg - 1) EXCEPT !.freereg = @ - 1]
FreeExp(s, e) == IF e.k = "VNONRELOC" THEN FreeReg(s, e.info) ELSE s
FreeE(s) == FreeExp(s, s.e)

\* addk: a constant is stored once; IndexOfK is its place afterwards.
AddK(s, v) == IF \E i \in DOMAIN s.k : s.k[i] = v THEN s ELSE [s EXCEPT !.k = Append(@, v)]
IndexOfK(s, v) == (CHOOSE i \in DOMAIN s.k : s.k[i] = v) - 1
ToK(s, v) == LET a == AddK(s, v) IN [a EXCEPT !.e.k = "VK", !.e.info = IndexOfK(a, v)]

-----------------------------------------------------------------------------
(* Putting the expression s.e where it is wanted *)

luaK_setreturns(s, nresults) ==
  CASE s.e.k = "VCALL"   -> [s EXCEPT !.code[s.e.info + 1].c = nresults + 1]
    [] s.e.k = "VVARARG" -> luaK_reserveregs([s EXCEPT !.code[s.e.info + 1].b = nresults + 1,
                                                       !.code[s.e.info + 1].a = s.freereg], 1)
    [] OTHER             -> s

luaK_setoneret(s) ==
  CASE s.e.k = "VCALL"   -> [s EXCEPT !.e.k = "VNONRELOC", !.e.info = At(s, s.e.info).a]
    [] s.e.k = "VVARARG" -> [s EXCEPT !.code[s.e.info + 1].b = 2, !.e.k = "VRELOCABLE"]
    [] OTHER             -> s

\* An instruction whose target register is chosen later.
Relocable(s, op, b, c) ==
  [luaK_codeABC(s, op, 0, b, c) EXCEPT !.e.k = "VRELOCABLE", !.e.info = PC(s)]

luaK_dischargevars(s) ==
  CASE s.e.k = "VLOCAL"   -> [s EXCEPT !.e.k = "VNONRELOC"]
    [] s.e.k = "VUPVAL"   -> Relocable(s, "GETUPVAL", s.e.info, 0)
    [] s.e.k = "VGLOBAL"  -> Relocable(s, "GETGLOBAL", s.e.info, 0)
    [] s.e.k = "VINDEXED" -> Relocable(FreeReg(FreeReg(s, s.e.aux), s.e.info),
                                       "GETTABLE", s.e.info, s.e.aux)
    [] OTHER              -> luaK_setoneret(s)

Discharge2Reg(s, reg) ==
  LET d == luaK_dischargevars(s)
      e == d.e
      n == AddK(d, <<"number", e.nval>>)
      Coded(c) == [c EXCEPT !.e.info = reg, !.e.k = "VNONRELOC"]
  IN  CASE e.k = "VNIL"               -> Coded(luaK_nil(d, reg, 1))
        [] e.k \in {"VFALSE", "VTRUE"} ->
             Coded(luaK_codeABC(d, "LOADBOOL", reg, IF e.k = "VTRUE" THEN 1 ELSE 0, 0))
        [] e.k = "VK"         -> Coded(luaK_codeABC(d, "LOADK", reg, e.info, 0))
        [] e.k = "VKNUM"      -> Coded(luaK_codeABC(n, "LOADK", reg, IndexOfK(n, <<"number", e.nval>>), 0))
        [] e.k = "VRELOCABLE" -> Coded([d EXCEPT !.code[e.info + 1].a = reg])
        [] e.k = "VNONRELOC"  -> Coded(IF reg = e.info THEN d ELSE luaK_codeABC(d, "MOVE", reg, e.info, 0))
        [] OTHER              -> lua_assert(d, e.k \in {"VVOID", "VJMP"})

Discharge2AnyReg(s) ==
  IF s.e.k = "VNONRELOC" THEN s
  ELSE LET r == luaK_reserveregs(s, 1) IN Discharge2Reg(r, r.freereg - 1)

\* The jumps out of the expression end after it; those that carry no value
\* pass by a LOADBOOL that makes one.
Exp2Reg(s, reg) ==
  LET d     == Discharge2Reg(s, reg)
      isjmp == d.e.k = "VJMP"
      j     == IF isjmp THEN [Link(d, d.e.t, d.e.info) EXCEPT !.e.t = Joined(@, d.e.info)] ELSE d
      need  == NeedValue(j, j.e.t) \/ NeedValue(j, j.e.f)
      over  == IF isjmp THEN j ELSE luaK_jump(j)
      no    == luaK_codeABC(luaK_getlabel(over), "LOADBOOL", reg, 0, 1)
      yes   == luaK_codeABC(luaK_getlabel(no), "LOADBOOL", reg, 1, 0)
      load  == luaK_patchtohere(yes, IF isjmp THEN NO_JUMP ELSE PC(j))
      final == luaK_getlabel(IF need THEN load ELSE j)
      p_f   == IF need THEN PC(over) ELSE NO_JUMP
      p_t   == IF need THEN PC(no) ELSE NO_JUMP
      done  == PatchListAux(PatchListAux(final, final.e.f, PC(final), reg, p_f),
                            final.e.t, PC(final), reg, p_t)
  IN  SetE(IF HasJumps(j.e) THEN done ELSE j, InitExp("VNONRELOC", reg))

luaK_exp2nextreg(s) ==
  LET r == luaK_reserveregs(FreeE(luaK_dischargevars(s)), 1) IN Exp2Reg(r, r.freereg - 1)

luaK_exp2anyreg(s) ==
  LET d == luaK_dischargevars(s)
  IN  CASE d.e.k = "VNONRELOC" /\ ~HasJumps(d.e)        -> d
        [] d.e.k = "VNONRELOC" /\ d.e.info >= d.nactvar -> Exp2Reg(d, d.e.info)
        [] OTHER                                         -> luaK_exp2nextreg(d)

luaK_exp2val(s) == IF HasJumps(s.e) THEN luaK_exp2anyreg(s) ELSE luaK_dischargevars(s)

\* A constant that an operand can name, else a register.
luaK_exp2RK(s) ==
  LET v == luaK_exp2val(s)
      e == v.e
      room == Len(v.k) <= MAXINDEXRK
  IN  CASE e.k = "VNIL" /\ room   -> ToK(v, Nil)
        [] e.k = "VKNUM" /\ room  -> ToK(v, <<"number", e.nval>>)
        [] e.k = "VTRUE" /\ room  -> ToK(v, True)
        [] e.k = "VFALSE" /\ room -> ToK(v, False)
        [] e.k = "VK" /\ e.info <= MAXINDEXRK -> v
        [] OTHER                  -> luaK_exp2anyreg(v)

\* The operand luaK_exp2RK returns for the expression it left.
RKOf(e) == IF e.k = "VK" THEN RKASK(e.info) ELSE e.info

luaK_storevar(s, var) ==
  LET r  == luaK_exp2anyreg(s)
      rk == luaK_exp2RK(s)
  IN  CASE var.k = "VLOCAL"   -> Exp2Reg(FreeE(s), var.info)
        [] var.k = "VUPVAL"   -> FreeE(luaK_codeABC(r, "SETUPVAL", r.e.info, var.info, 0))
        [] var.k = "VGLOBAL"  -> FreeE(luaK_codeABC(r, "SETGLOBAL", r.e.info, var.info, 0))
        [] var.k = "VINDEXED" -> FreeE(luaK_codeABC(rk, "SETTABLE", var.info, var.aux, RKOf(rk.e)))
        [] OTHER              -> lua_assert(s, FALSE)

luaK_self(s, key) ==
  LET a == FreeE(luaK_exp2anyreg(s))
      k == luaK_exp2RK(SetE(luaK_reserveregs(a, 2), key))
  IN  SetE(FreeE(luaK_codeABC(k, "SELF", a.freereg, a.e.info, RKOf(k.e))),
           [a.e EXCEPT !.info = a.freereg, !.k = "VNONRELOC"])

luaK_indexed(s, table) ==
  LET k == luaK_exp2RK(s) IN SetE(k, [table EXCEPT !.aux = RKOf(k.e), !.k = "VINDEXED"])

-----------------------------------------------------------------------------
(* Conditions *)

InvertJump(s) ==
  LET pc == GetJumpControl(s, s.e.info)
  IN  [lua_assert(s, At(s, pc).op \in TestMode \ {"TESTSET", "TEST"})
         EXCEPT !.code[pc + 1].a = 1 - @]

\* A NOT that was just coded is dropped and the test inverted.
JumpOnCond(s, cond) ==
  LET i == At(s, s.e.info)
      d == Discharge2AnyReg(s)
  IN  IF s.e.k = "VRELOCABLE" /\ i.op = "NOT"
      THEN CondJump([s EXCEPT !.code = SubSeq(@, 1, PC(s) - 1)], "TEST", i.b, 0, 1 - cond)
      ELSE CondJump(FreeE(d), "TESTSET", NO_REG, d.e.info, cond)

luaK_goiftrue(s) ==
  LET d    == luaK_dischargevars(s)
      test == CASE d.e.k \in {"VK", "VKNUM", "VTRUE"} -> d
                [] d.e.k = "VJMP" -> InvertJump(d)
                [] OTHER          -> JumpOnCond(d, 0)
      pc   == CASE d.e.k \in {"VK", "VKNUM", "VTRUE"} -> NO_JUMP
                [] d.e.k = "VJMP" -> d.e.info
                [] OTHER          -> PC(test) - 1
      false == [Link(test, test.e.f, pc) EXCEPT !.e.f = Joined(@, pc)]
  IN  [luaK_patchtohere(false, false.e.t) EXCEPT !.e.t = NO_JUMP]

luaK_goiffalse(s) ==
  LET d    == luaK_dischargevars(s)
      test == IF d.e.k \in {"VNIL", "VFALSE", "VJMP"} THEN d ELSE JumpOnCond(d, 1)
      pc   == CASE d.e.k \in {"VNIL", "VFALSE"} -> NO_JUMP
                [] d.e.k = "VJMP" -> d.e.info
                [] OTHER          -> PC(test) - 1
      true == [Link(test, test.e.t, pc) EXCEPT !.e.t = Joined(@, pc)]
  IN  [luaK_patchtohere(true, true.e.f) EXCEPT !.e.f = NO_JUMP]

CodeNot(s) ==
  LET d == luaK_dischargevars(s)
      r == FreeE(Discharge2AnyReg(d))
      n == CASE d.e.k \in {"VNIL", "VFALSE"}      -> [d EXCEPT !.e.k = "VTRUE"]
             [] d.e.k \in {"VK", "VKNUM", "VTRUE"} -> [d EXCEPT !.e.k = "VFALSE"]
             [] d.e.k = "VJMP"                     -> InvertJump(d)
             [] d.e.k \in {"VRELOCABLE", "VNONRELOC"} -> Relocable(r, "NOT", r.e.info, 0)
             [] OTHER                              -> lua_assert(d, FALSE)
      swapped == [n EXCEPT !.e.f = n.e.t, !.e.t = n.e.f]
  IN  RemoveValues(RemoveValues(swapped, swapped.e.f), swapped.e.t)

-----------------------------------------------------------------------------
(* Operators *)

\* Division and remainder by zero, and what gives NaN, are left to run time.
Foldable(op, e1, e2) ==
  /\ IsNumeral(e1) /\ IsNumeral(e2) /\ op \notin {"LEN", "CONCAT"}
  /\ op \in {"DIV", "MOD"} => e2.nval # 0
  /\ NumArith(op, e1.nval, e2.nval) # NaN

\* Mutant: the registers of the operands are freed in the order of the operands.
CodeArith_LeftFirst(s, op, e1, e2) ==
  LET a  == IF op \in {"UNM", "LEN"} THEN SetE(s, e2) ELSE luaK_exp2RK(SetE(s, e2))
      b  == luaK_exp2RK(SetE(a, e1))
      o2 == IF op \in {"UNM", "LEN"} THEN 0 ELSE RKOf(a.e)
  IN  IF Foldable(op, e1, e2) THEN SetE(s, [e1 EXCEPT !.nval = NumArith(op, e1.nval, e2.nval)])
      ELSE Relocable(FreeExp(FreeExp(b, b.e), a.e), op, RKOf(b.e), o2)

CodeArith(s, op, e1, e2) ==
  LET a  == IF op \in {"UNM", "LEN"} THEN SetE(s, e2) ELSE luaK_exp2RK(SetE(s, e2))
      b  == luaK_exp2RK(SetE(a, e1))
      o2 == IF op \in {"UNM", "LEN"} THEN 0 ELSE RKOf(a.e)
      o1 == RKOf(b.e)
      freed == IF o1 > o2 THEN FreeExp(FreeExp(b, b.e), a.e) ELSE FreeExp(FreeExp(b, a.e), b.e)
  IN  IF Foldable(op, e1, e2) THEN SetE(s, [e1 EXCEPT !.nval = NumArith(op, e1.nval, e2.nval)])
      ELSE Relocable(freed, op, o1, o2)

\* a > b is coded as b < a, and a ~= b as the inverse of a == b.
CodeComp(s, op, cond, e1, e2) ==
  LET a  == luaK_exp2RK(SetE(s, e1))
      b  == luaK_exp2RK(SetE(a, e2))
      swap == cond = 0 /\ op # "EQ"
      o1 == IF swap THEN RKOf(b.e) ELSE RKOf(a.e)
      o2 == IF swap THEN RKOf(a.e) ELSE RKOf(b.e)
      j  == CondJump(FreeExp(FreeExp(b, b.e), a.e), op, IF swap THEN 1 ELSE cond, o1, o2)
  IN  SetE(j, [a.e EXCEPT !.info = PC(j) - 1, !.k = "VJMP"])

luaK_prefix(s, op) ==
  LET zero == InitExp("VKNUM", 0)
      r == luaK_exp2anyreg(s)
  IN  CASE op = "not" -> CodeNot(s)
        [] op = "-"   -> IF IsNumeral(s.e) THEN CodeArith(s, "UNM", s.e, zero)
                         ELSE CodeArith(r, "UNM", r.e, zero)
        [] op = "#"   -> CodeArith(r, "LEN", r.e, zero)

luaK_infix(s, op) ==
  CASE op = "and"              -> luaK_goiftrue(s)
    [] op = "or"               -> luaK_goiffalse(s)
    [] op = ".."               -> luaK_exp2nextreg(s)
    [] op \in DOMAIN ArithCode -> IF IsNumeral(s.e) THEN s ELSE luaK_exp2RK(s)
    [] OTHER                   -> luaK_exp2RK(s)

\* The left operand is e1, the right one s.e.
luaK_posfix(s, op, e1) ==
  LET d == luaK_dischargevars(s)
      v == luaK_exp2val(s)
      n == luaK_exp2nextreg(v)
  IN  CASE op = "and" -> [Link(lua_assert(d, e1.t = NO_JUMP), d.e.f, e1.f) EXCEPT !.e.f = Joined(@, e1.f)]
        [] op = "or"  -> [Link(lua_assert(d, e1.f = NO_JUMP), d.e.t, e1.t) EXCEPT !.e.t = Joined(@, e1.t)]
        [] op = ".." /\ v.e.k = "VRELOCABLE" /\ At(v, v.e.info).op = "CONCAT" ->
             [FreeExp(lua_assert(v, e1.info = At(v, v.e.info).b - 1), e1)
                EXCEPT !.code[v.e.info + 1].b = e1.info,
                       !.e = [e1 EXCEPT !.k = "VRELOCABLE", !.info = v.e.info]]
        [] op = ".."               -> CodeArith(n, "CONCAT", e1, n.e)
        [] op \in DOMAIN ArithCode -> CodeArith(s, ArithCode[op], e1, s.e)
        [] op = "==" -> CodeComp(s, "EQ", 1, e1, s.e)
        [] op = "~=" -> CodeComp(s, "EQ", 0, e1, s.e)
        [] op = "<"  -> CodeComp(s, "LT", 1, e1, s.e)
        [] op = "<=" -> CodeComp(s, "LE", 1, e1, s.e)
        [] op = ">"  -> CodeComp(s, "LT", 0, e1, s.e)
        [] op = ">=" -> CodeComp(s, "LE", 0, e1, s.e)

\* A flush whose number does not fit in C goes in the word after it.  With a
\* scaled MAXARG_C the first such number still stands for 512, so that the
\* words have the bits they have in the program.
luaK_setlist(s, base, nelems, tostore) ==
  LET c == (nelems - 1) \div LFIELDS_PER_FLUSH + 1
      b == IF tostore = LUA_MULTRET THEN 0 ELSE tostore
      coded == IF c <= MAXARG_C THEN luaK_codeABC(s, "SETLIST", base, b, c)
               ELSE luaK_code(luaK_codeABC(s, "SETLIST", base, b, 0), AsInstruction(c + 511 - MAXARG_C))
  IN  [coded EXCEPT !.freereg = base + 1]

=============================================================================
