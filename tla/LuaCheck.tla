------------------------------ MODULE LuaCheck ------------------------------
(***************************************************************************)
(* The code checker of Lua 5.1 (ldebug.c): a symbolic execution that       *)
(* visits each instruction once and tests its operands.  The parser        *)
(* asserts that the code it leaves passes (close_func), and luaU_undump    *)
(* refuses a precompiled function that does not.  With a register reg the  *)
(* same execution finds the instruction that last changed it before        *)
(* lastpc; with NO_REG it checks all of the code.                          *)
(***************************************************************************)
EXTENDS Integers, Sequences, LuaOps

LOCAL Code(pt, pc) == pt.code[pc + 1]
LOCAL Size(pt) == Len(pt.code)
CheckReg(pt, reg) == reg < pt.maxstacksize

PreCheck(pt) ==
  /\ pt.maxstacksize <= MAXSTACK
  /\ pt.numparams + (pt.is_vararg % 2) <= pt.maxstacksize
  /\ pt.is_vararg >= 4 => pt.is_vararg % 2 = 1
  /\ Len(pt.upvalues) <= pt.nups
  /\ pt.lineinfo \in {0, Size(pt)}
  /\ Size(pt) > 0 /\ Code(pt, Size(pt) - 1).op = "RETURN"

\* What may follow an instruction that leaves its results up to the top.
luaG_checkopenop(i) == i.op \in {"CALL", "TAILCALL", "RETURN", "SETLIST"} /\ i.b = 0
OpenOpFollows(pt, pc) == luaG_checkopenop(Code(pt, pc + 1))

CheckArgMode(pt, r, mode) ==
  CASE mode = "N" -> r = 0
    [] mode = "U" -> TRUE
    [] mode = "R" -> CheckReg(pt, r)
    [] mode = "K" -> IF ISK(r) THEN INDEXK(r) < Len(pt.k) ELSE CheckReg(pt, r)

\* A jump may not land on the count after a SETLIST: the word before the
\* target looks like one only if an even number of them precede it.
CheckJump(pt, dest) ==
  LET Open(d) == Code(pt, d).op = "SETLIST" /\ Code(pt, d).c = 0
      others == {d \in 0..(dest - 1) : ~Open(d)}
      run == IF others = {} THEN dest ELSE dest - 1 - (CHOOSE d \in others : \A x \in others : x <= d)
  IN  dest \in 0..(Size(pt) - 1) /\ run % 2 = 0

CheckFormat(pt, pc, i) ==
  CASE i.op \in ABxMode  -> BMode(i.op) = "K" => i.b < Len(pt.k)
    [] i.op \in AsBxMode -> CheckJump(pt, pc + 1 + i.b)
    [] OTHER             -> CheckArgMode(pt, i.b, BMode(i.op)) /\ CheckArgMode(pt, i.c, CMode(i.op))

CheckOpcode(pt, pc, i) ==
  CASE i.op = "LOADBOOL" -> i.c = 1 => /\ pc + 2 < Size(pt)
                                       /\ Code(pt, pc + 1).op # "SETLIST" \/ Code(pt, pc + 1).c # 0
    [] i.op \in {"GETUPVAL", "SETUPVAL"}   -> i.b < pt.nups
    [] i.op \in {"GETGLOBAL", "SETGLOBAL"} -> pt.k[i.b + 1][1] = "string"
    [] i.op = "SELF"     -> CheckReg(pt, i.a + 1)
    [] i.op = "CONCAT"   -> i.b < i.c
    [] i.op = "TFORLOOP" -> i.c >= 1 /\ CheckReg(pt, i.a + 2 + i.c)
    [] i.op \in {"FORLOOP", "FORPREP"} -> CheckReg(pt, i.a + 3)
    [] i.op \in {"CALL", "TAILCALL"} ->
         /\ i.b # 0 => CheckReg(pt, i.a + i.b - 1)
         /\ IF i.c - 1 = LUA_MULTRET THEN OpenOpFollows(pt, pc)
            ELSE i.c # 1 => CheckReg(pt, i.a + i.c - 2)
    [] i.op = "RETURN"   -> i.b > 1 => CheckReg(pt, i.a + i.b - 2)
    [] i.op = "SETLIST"  -> /\ i.b > 0 => CheckReg(pt, i.a + i.b)
                            /\ i.c = 0 => pc + 1 < Size(pt) - 1
    [] i.op = "CLOSURE"  ->
         /\ i.b < Len(pt.p) /\ pc + pt.p[i.b + 1].nups < Size(pt)
         /\ \A j \in 1..pt.p[i.b + 1].nups : Code(pt, pc + j).op \in {"GETUPVAL", "MOVE"}
    [] i.op = "VARARG"   -> /\ pt.is_vararg \in {2, 3}
                            /\ i.b - 1 = LUA_MULTRET => OpenOpFollows(pt, pc)
                            /\ CheckReg(pt, i.a + i.b - 2)
    [] OTHER -> TRUE

CheckInstruction(pt, pc) ==
  LET i == Code(pt, pc)
  IN  /\ CheckReg(pt, i.a) /\ CheckFormat(pt, pc, i)
      /\ i.op \in TestMode => pc + 2 < Size(pt) /\ Code(pt, pc + 1).op = "JMP"
      /\ CheckOpcode(pt, pc, i)

\* Whether the instruction changes the register.
Changes(i, reg) ==
  \/ i.op \in SetsA /\ i.a = reg
  \/ i.op = "LOADNIL" /\ reg \in i.a..i.b
  \/ i.op = "SELF" /\ reg = i.a + 1
  \/ i.op = "TFORLOOP" /\ reg >= i.a + 2
  \/ i.op \in {"CALL", "TAILCALL"} /\ reg >= i.a

\* The next instruction to visit: forward jumps are taken, and upvalue
\* words passed by, only when a register is traced.
NextVisited(pt, pc, lastpc, reg) ==
  LET i == Code(pt, pc)
      forward == i.op \in AsBxMode /\ i.b >= 0 /\ pc + 1 + i.b <= lastpc
  IN  CASE i.op = "SETLIST" /\ i.c = 0           -> pc + 2
        [] reg # NO_REG /\ forward               -> pc + 1 + i.b
        [] reg # NO_REG /\ i.op = "CLOSURE"      -> pc + 1 + pt.p[i.b + 1].nups
        [] OTHER                                 -> pc + 1

\* The pc of the last instruction that changed reg, or -1 if a check fails.
symbexec(pt, lastpc, reg) ==
  LET Visit[pc \in Nat, last \in Nat] ==
        IF pc >= lastpc THEN last
        ELSE IF ~CheckInstruction(pt, pc) THEN -1
        ELSE Visit[NextVisited(pt, pc, lastpc, reg), IF Changes(Code(pt, pc), reg) THEN pc ELSE last]
  IN  IF PreCheck(pt) THEN Visit[0, Size(pt) - 1] ELSE -1

luaG_checkcode(pt) == symbexec(pt, Size(pt), NO_REG) # -1
=============================================================================
