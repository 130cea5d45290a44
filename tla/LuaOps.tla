------------------------------- MODULE LuaOps -------------------------------
(***************************************************************************)
(* Instructions, operand formats and values shared by the code generator,  *)
(* the code checker, precompiled chunks and the virtual machine            *)
(* (lopcodes.h, lopcodes.c, lobject.c and the number macros of luaconf.h). *)
(*                                                                         *)
(* A Lua value is a tuple whose first element is its type.  Numbers are    *)
(* integers and NaN: a program may divide only where the result is one.    *)
(***************************************************************************)
EXTENDS Integers, Sequences

CONSTANTS LFIELDS_PER_FLUSH, MAXARG_C,  \* lopcodes.h
          MAXINDEXRK,                   \* last constant an RK operand can name
          MAXSTACK,                     \* registers of a function (llimits.h)
          LUAI_MAXCCALLS                \* nested C calls and syntax levels (luaconf.h)

ASSUME OpsAssumption ==
  /\ LFIELDS_PER_FLUSH \in Nat \ {0} /\ MAXARG_C \in 1..511 /\ MAXINDEXRK \in 0..255
  /\ MAXSTACK \in 2..250 /\ LUAI_MAXCCALLS \in Nat \ {0}

NO_JUMP == -1
LUA_MULTRET == -1
NO_REG == 255

\* is_vararg: takes extra arguments, and their table `arg' (lobject.h).
HASARG == 1
ISVARARG == 2
NEEDSARG == 4

\* A sequence given by its items (SubSeq makes TLC evaluate them at once).
Tuple(n, Item(_)) == SubSeq([i \in 1..n |-> Item(i)], 1, n)

Nil == <<"nil">>
True == <<"boolean", TRUE>>
False == <<"boolean", FALSE>>
IsFalse(v) == v \in {Nil, False}

-----------------------------------------------------------------------------
(* Instruction words *)

OpNames == <<"MOVE", "LOADK", "LOADBOOL", "LOADNIL", "GETUPVAL", "GETGLOBAL", "GETTABLE",
  "SETGLOBAL", "SETUPVAL", "SETTABLE", "NEWTABLE", "SELF", "ADD", "SUB", "MUL", "DIV", "MOD",
  "POW", "UNM", "NOT", "LEN", "CONCAT", "JMP", "EQ", "LT", "LE", "TEST", "TESTSET", "CALL",
  "TAILCALL", "RETURN", "FORLOOP", "FORPREP", "TFORLOOP", "SETLIST", "CLOSE", "CLOSURE", "VARARG">>

\* Bx and sBx are kept in b.
CREATE_ABC(op, a, b, c) == [op |-> op, a |-> a, b |-> b, c |-> c]

\* A plain number in the code array, seen as an instruction: six bits of
\* opcode, eight of A, nine of C and nine of B.
AsInstruction(w) == CREATE_ABC(OpNames[(w % 64) + 1], (w \div 64) % 256, w \div 2^23, (w \div 2^14) % 512)
AsWord(i) == ((CHOOSE n \in DOMAIN OpNames : OpNames[n] = i.op) - 1)
             + i.a * 64 + i.c * 2^14 + i.b * 2^23

BITRK == 256
ISK(x) == x >= BITRK
INDEXK(x) == x - BITRK
RKASK(k) == k + BITRK

\* luaP_opmodes: what the operands of each opcode mean.
TestMode == {"EQ", "LT", "LE", "TEST", "TESTSET", "TFORLOOP"}
ABxMode  == {"LOADK", "GETGLOBAL", "SETGLOBAL", "CLOSURE"}
AsBxMode == {"JMP", "FORLOOP", "FORPREP"}
SetsA == {OpNames[n] : n \in DOMAIN OpNames}
         \ {"SETGLOBAL", "SETUPVAL", "SETTABLE", "JMP", "EQ", "LT", "LE", "RETURN", "TFORLOOP", "SETLIST", "CLOSE"}
RKOps == {"SETTABLE", "ADD", "SUB", "MUL", "DIV", "MOD", "POW", "EQ", "LT", "LE"}
BMode(op) == CASE op \in RKOps \cup {"LOADK", "GETGLOBAL", "SETGLOBAL"} -> "K"
               [] op \in {"MOVE", "LOADNIL", "GETTABLE", "SELF", "UNM", "NOT", "LEN", "CONCAT",
                          "JMP", "TEST", "TESTSET", "FORLOOP", "FORPREP"} -> "R"
               [] op \in {"TFORLOOP", "CLOSE"} -> "N"
               [] OTHER -> "U"
CMode(op) == CASE op \in RKOps \cup {"GETTABLE", "SELF"} -> "K"
               [] op = "CONCAT" -> "R"
               [] op \in {"LOADBOOL", "NEWTABLE", "TEST", "TESTSET", "CALL", "TAILCALL",
                          "TFORLOOP", "SETLIST"} -> "U"
               [] OTHER -> "N"

-----------------------------------------------------------------------------
(* Sizes as "floating point bytes": eeeeexxx is (1xxx) * 2^(eeeee-1). *)

FbOf[x \in Nat] == IF x >= 16 THEN 8 + FbOf[(x + 1) \div 2] ELSE x
luaO_int2fb(x) == FbOf[x]
luaO_fb2int(x) == LET e == (x \div 8) % 32 IN IF e = 0 THEN x ELSE ((x % 8) + 8) * 2^(e - 1)

-----------------------------------------------------------------------------
(* Numbers *)

NaN == 1000000
ArithCode == [x \in {"+", "-", "*", "/", "%", "^"} |->
  CASE x = "+" -> "ADD" [] x = "-" -> "SUB" [] x = "*" -> "MUL"
    [] x = "/" -> "DIV" [] x = "%" -> "MOD" [] x = "^" -> "POW"]

\* luai_numadd and the others; UNM ignores its second operand.
NumArith(op, a, b) ==
  CASE a = NaN \/ (b = NaN /\ op # "UNM") -> NaN
    [] op = "ADD" -> a + b
    [] op = "SUB" -> a - b
    [] op = "MUL" -> a * b
    [] op = "DIV" -> IF b = 0 THEN NaN ELSE a \div b
    [] op = "MOD" -> IF b = 0 THEN NaN ELSE a % b
    [] op = "POW" -> a ^ b
    [] op = "UNM" -> -a
NumLess(a, b) == NaN \notin {a, b} /\ a < b
NumLessEqual(a, b) == NaN \notin {a, b} /\ a <= b
RawEqual(v, w) == v = w /\ v # <<"number", NaN>>
=============================================================================
