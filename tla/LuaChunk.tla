------------------------------ MODULE LuaChunk ------------------------------
(***************************************************************************)
(* Precompiled chunks (ldump.c, lundump.c), read from the buffered stream  *)
(* of Zio.                                                                 *)
(*                                                                         *)
(* A chunk is a sequence of bytes.  A datum of several bytes (an int, a    *)
(* size, a number, an instruction) stands as two of them, so that a piece  *)
(* of the stream may end inside it; a char is one.                         *)
(***************************************************************************)
EXTENDS LuaCheck, SequencesExt, Zio

-----------------------------------------------------------------------------
(* ldump.c *)

LUA_SIGNATURE == "ESC"
luaU_header == <<LUA_SIGNATURE, "Lua", "version", "format", "endianness", "int", "size_t",
                 "Instruction", "lua_Number", "integral">>

DumpChar(x) == <<x>>
DumpInt(x) == <<<<"int", x, 1>>, <<"int", x, 2>>>>
DumpNumber(x) == <<<<"number", x, 1>>, <<"number", x, 2>>>>
DumpVector(n, Item(_)) == FoldLeft(LAMBDA b, j : b \o Item(j), DumpInt(n), [j \in 1..n |-> j])
DumpInstruction(i) == <<<<"code", i, 1>>, <<"code", i, 2>>>>

\* The absence of a string is a size of 0; a string has a final \0.
NULL == "NULL"
DumpString(s) == IF s = NULL THEN DumpInt(0) ELSE DumpInt(2) \o <<s, "\\0">>

DumpConstant(o) ==
  DumpChar(o[1]) \o CASE o[1] = "nil"     -> <<>>
                      [] o[1] = "boolean" -> DumpChar(o[2])
                      [] o[1] = "number"  -> DumpNumber(o[2])
                      [] o[1] = "string"  -> DumpString(o[2])

\* Mutant: the names of the upvalues are written even if they are not wanted.
DumpDebug_KeepsNames(f, strip) ==
  LET Line(j) == DumpInt(0)
      Name(j) == DumpString(f.upvalues[j])
  IN  DumpVector(IF strip THEN 0 ELSE f.lineinfo, Line) \o DumpInt(0) \o DumpVector(Len(f.upvalues), Name)

DumpDebug(f, strip) ==
  LET Line(j) == DumpInt(0)
      Name(j) == DumpString(f.upvalues[j])
  IN  DumpVector(IF strip THEN 0 ELSE f.lineinfo, Line) \o DumpInt(0)
      \o DumpVector(IF strip THEN 0 ELSE Len(f.upvalues), Name)

\* p is the source of the enclosing function.
RECURSIVE DumpFunction(_, _, _)
DumpFunction(f, p, strip) ==
  LET Instr(j) == DumpInstruction(f.code[j])
      Const(j) == DumpConstant(f.k[j])
      Inner(j) == DumpFunction(f.p[j], f.source, strip)
  IN  DumpString(IF f.source = p \/ strip THEN NULL ELSE f.source) \o DumpInt(0) \o DumpInt(0)
      \o DumpChar(f.nups) \o DumpChar(f.numparams) \o DumpChar(f.is_vararg) \o DumpChar(f.maxstacksize)
      \o DumpVector(Len(f.code), Instr) \o DumpVector(Len(f.k), Const) \o DumpVector(Len(f.p), Inner)
      \o DumpDebug(f, strip)

luaU_dump(f, strip) == luaU_header \o DumpFunction(f, NULL, strip)

-----------------------------------------------------------------------------
(* lundump.c.  S is the load state: the stream z, the last datum read v,   *)
(* the depth nCcalls, and err, which is "" until luaD_throw.               *)

LoadError(S, why) == IF S.err = "" THEN [S EXCEPT !.err = why] ELSE S

LoadBlock(S, n) ==
  LET r == luaZ_read(S.z, n)
  IN  IF S.err # "" THEN S
      ELSE IF r.missing > 0 THEN LoadError([S EXCEPT !.z = r.z], "unexpected end")
      ELSE [S EXCEPT !.z = r.z, !.v = r.b]

LoadChar(S) == LET r == LoadBlock(S, 1) IN IF r.err # "" THEN r ELSE [r EXCEPT !.v = r.v[1]]

\* The two halves of a datum make it again; other bytes make something else.
LoadDatum(S) ==
  LET r == LoadBlock(S, 2)
      whole == r.v[1][2] = r.v[2][2] /\ r.v[1][3] = 1 /\ r.v[2][3] = 2
  IN  IF r.err # "" THEN r ELSE [r EXCEPT !.v = IF whole THEN r.v[1][2] ELSE "garbage"]

LoadString(S) ==
  LET size == LoadDatum(S)
      r == LoadBlock(size, size.v)
  IN  CASE size.err # "" -> size
        [] size.err = "" /\ size.v = 0 -> [size EXCEPT !.v = NULL]
        [] OTHER -> IF r.err # "" THEN r ELSE [r EXCEPT !.v = r.v[1]]

\* A count and as many items, each read by Load: their values are left in v.
LoadVector(S, Load(_)) ==
  LET n == LoadDatum(S)
      Item(acc, j) == LET one == Load(acc.S)
                      IN  IF acc.S.err # "" THEN acc ELSE [S |-> one, vs |-> Append(acc.vs, one.v)]
      all == FoldLeft(Item, [S |-> n, vs |-> <<>>], [j \in 1..n.v |-> j])
  IN  CASE n.err # "" -> n
        [] n.err = "" /\ all.S.err # "" -> all.S
        [] OTHER -> [all.S EXCEPT !.v = all.vs]

LoadConstant(S) ==
  LET t == LoadChar(S)
      x == CASE t.v = "boolean" -> LoadChar(t)
             [] t.v = "number"  -> LoadDatum(t)
             [] t.v = "string"  -> LoadString(t)
             [] OTHER           -> LoadError(t, "bad constant")
  IN  CASE t.err # "" -> t
        [] t.err = "" /\ t.v = "nil" -> [t EXCEPT !.v = Nil]
        [] OTHER -> IF x.err # "" THEN x ELSE [x EXCEPT !.v = <<t.v, x.v>>]

RECURSIVE LoadFunction(_, _)
LoadFunction(S, p) ==
  LET in == IF S.nCcalls + 1 > LUAI_MAXCCALLS THEN LoadError(S, "code too deep")
            ELSE [S EXCEPT !.nCcalls = @ + 1]
      source == LoadString(in)
      src    == IF source.v = NULL THEN p ELSE source.v
      nups   == LoadChar(LoadDatum(LoadDatum(source)))
      numparams == LoadChar(nups)
      is_vararg == LoadChar(numparams)
      maxstack  == LoadChar(is_vararg)
      Inner(x) == LoadFunction(x, src)
      code   == LoadVector(maxstack, LoadDatum)
      k      == LoadVector(code, LoadConstant)
      protos == LoadVector(k, Inner)
      lines  == LoadVector(protos, LoadDatum)
      names  == LoadVector(LoadDatum(lines), LoadString)
      f == [source |-> src, code |-> code.v, k |-> k.v, p |-> protos.v, nups |-> nups.v,
            numparams |-> numparams.v, is_vararg |-> is_vararg.v, maxstacksize |-> maxstack.v,
            lineinfo |-> Len(lines.v), upvalues |-> names.v]
  IN  CASE names.err # ""        -> names
        [] names.err = "" /\ ~luaG_checkcode(f) -> LoadError(names, "bad code")
        [] OTHER                 -> [names EXCEPT !.v = f, !.nCcalls = @ - 1]

luaU_undump(pieces) ==
  LET S == [z |-> luaZ_init(pieces), v |-> <<>>, nCcalls |-> 0, err |-> ""]
      h == LoadBlock(S, Len(luaU_header))
  IN  LoadFunction(IF h.err = "" /\ h.v # luaU_header THEN LoadError(h, "bad header") ELSE h, "=?")
=============================================================================
