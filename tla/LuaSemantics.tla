---------------------------- MODULE LuaSemantics ----------------------------
(***************************************************************************)
(* What a Lua program means, independently of how it is compiled: syntax   *)
(* trees, the tokens they are written with, and their evaluation as the    *)
(* language defines it - environments that map names to cells, expressions *)
(* evaluated left to right, metamethods looked up on every use.  Against   *)
(* it the parser, the code generator and the virtual machine are checked.  *)
(*                                                                         *)
(* A tree is a tuple whose first element is its kind.  Expressions:        *)
(*   nil true false ... | num n | str s | name x | index e k |             *)
(*   call f args | method o name args | func params extra body |           *)
(*   table items | un op e | bin op a b | paren e                          *)
(* where extra is "" or, for a function that takes extra arguments, "..."  *)
(* if its body names them and "arg" if not; with items <<"item", e>> and *)
(* <<"field", k, e>>.  Statements:                                         *)
(*   text tokens (for what is not a statement) |                           *)
(*   local names exps | assign targets exps | do stats | while e stats |   *)
(*   repeat stats e | if e stats stats | fornum x e1 e2 e3 stats |         *)
(*   forin names exps stats | localfunc x f | funcstat names self f |      *)
(*   return exps | break | an expression that is a call                    *)
(* The functions of the base library that do not call back are taken from  *)
(* LuaVM; what those of the other libraries mean is a parameter.           *)
(***************************************************************************)
EXTENDS LuaVM

CONSTANTS Means(_, _, _)   \* a function of a library, a store and arguments: as Apply

\* A program is [stats, refused]: its statements, and why the parser must
\* refuse it or "".

-----------------------------------------------------------------------------
(* The tokens of a tree, with the parentheses its operators need *)

Level(op) == CASE op = "or" -> 1 [] op = "and" -> 2
               [] op \in {"<", ">", "<=", ">=", "~=", "=="} -> 3
               [] op = ".." -> 4 [] op \in {"+", "-"} -> 5
               [] op \in {"*", "/", "%"} -> 6 [] op = "^" -> 8
UNARY == 7
RightAssociative == {"..", "^"}
LevelOf(e) == CASE e[1] = "bin" -> Level(e[2]) [] e[1] = "un" -> UNARY [] OTHER -> 9
MayPrefix(e) == e[1] \in {"name", "index", "call", "method", "paren"}

T(kind) == <<<<kind>>>>
Name(x) == <<<<"NAME", x>>>>
Parens(ts) == T("(") \o ts \o T(")")
Commas(tss) == IF tss = <<>> THEN <<>>
               ELSE FoldLeft(LAMBDA ts, more : ts \o T(",") \o more, Head(tss), Tail(tss))
Names(xs) == Commas([j \in DOMAIN xs |-> Name(xs[j])])

RECURSIVE Text(_), TextStat(_)
TextIn(e, level) == IF LevelOf(e) < level THEN Parens(Text(e)) ELSE Text(e)
Prefix(e) == IF MayPrefix(e) THEN Text(e) ELSE Parens(Text(e))
TextList(es) == Commas([j \in DOMAIN es |-> Text(es[j])])
TextBlock(stats) == FlattenSeq([j \in DOMAIN stats |-> TextStat(stats[j])])
TextItem(item) == IF item[1] = "item" THEN Text(item[2])
                  ELSE T("[") \o Text(item[2]) \o T("]") \o T("=") \o Text(item[3])
TextBody(f) ==
  Parens(Commas([j \in DOMAIN f[2] |-> Name(f[2][j])] \o IF f[3] # "" THEN <<T("...")>> ELSE <<>>))
  \o TextBlock(f[4]) \o T("end")

Text(e) ==
  CASE e[1] \in {"nil", "true", "false", "..."} -> T(e[1])
    [] e[1] = "num"    -> <<<<"NUMBER", e[2]>>>>
    [] e[1] = "str"    -> <<<<"STRING", e[2]>>>>
    [] e[1] = "name"   -> Name(e[2])
    [] e[1] = "index"  -> Prefix(e[2]) \o IF e[3][1] = "str" THEN T(".") \o Name(e[3][2])
                                          ELSE T("[") \o Text(e[3]) \o T("]")
    [] e[1] = "call"   -> Prefix(e[2]) \o Parens(TextList(e[3]))
    [] e[1] = "method" -> Prefix(e[2]) \o T(":") \o Name(e[3]) \o Parens(TextList(e[4]))
    [] e[1] = "func"   -> T("function") \o TextBody(e)
    [] e[1] = "table"  -> T("{") \o Commas([j \in DOMAIN e[2] |-> TextItem(e[2][j])]) \o T("}")
    [] e[1] = "un"     -> T(e[2]) \o TextIn(e[3], UNARY)
    [] e[1] = "paren"  -> Parens(Text(e[2]))
    [] e[1] = "bin"    ->
         LET right == e[2] \in RightAssociative
         IN  TextIn(e[3], Level(e[2]) + IF right THEN 1 ELSE 0) \o T(e[2])
             \o TextIn(e[4], Level(e[2]) + IF right THEN 0 ELSE 1)

\* An if alone in the else part is written as an elseif.
TextElse(stats) == CASE stats = <<>> -> T("end")
                     [] Len(stats) = 1 /\ stats[1][1] = "if" -> T("elseif") \o Tail(TextStat(stats[1]))
                     [] OTHER -> T("else") \o TextBlock(stats) \o T("end")

TextStat(st) ==
  CASE st[1] = "local"  -> T("local") \o Names(st[2]) \o IF st[3] = <<>> THEN <<>> ELSE T("=") \o TextList(st[3])
    [] st[1] = "assign" -> TextList(st[2]) \o T("=") \o TextList(st[3]) \o T(";")
    [] st[1] = "do"     -> T("do") \o TextBlock(st[2]) \o T("end")
    [] st[1] = "while"  -> T("while") \o Text(st[2]) \o T("do") \o TextBlock(st[3]) \o T("end")
    [] st[1] = "repeat" -> T("repeat") \o TextBlock(st[2]) \o T("until") \o Text(st[3])
    [] st[1] = "if"     -> T("if") \o Text(st[2]) \o T("then") \o TextBlock(st[3]) \o TextElse(st[4])
    [] st[1] = "fornum" -> T("for") \o Name(st[2]) \o T("=") \o TextList(SubSeq(st, 3, 5))
                           \o T("do") \o TextBlock(st[6]) \o T("end")
    [] st[1] = "forin"  -> T("for") \o Names(st[2]) \o T("in") \o TextList(st[3])
                           \o T("do") \o TextBlock(st[4]) \o T("end")
    [] st[1] = "localfunc" -> T("local") \o T("function") \o Name(st[2]) \o TextBody(st[3])
    [] st[1] = "funcstat" ->
         T("function") \o FoldLeft(LAMBDA ts, x : ts \o T(".") \o Name(x), Name(st[2][1]), Tail(st[2]))
         \o (IF st[3] = "" THEN <<>> ELSE T(":") \o Name(st[3])) \o TextBody(st[4])
    [] st[1] = "return" -> T("return") \o TextList(st[2])
    [] st[1] = "break"  -> T("break")
    [] st[1] = "text"   -> st[2]
    [] OTHER            -> Text(st) \o T(";")

-----------------------------------------------------------------------------
(* Evaluation.  A store s has cells, tables, functions and the error that  *)
(* was raised; a context c the cell of each name and the extra arguments.  *)
(* Nothing happens any more in a store with an error.                      *)

RECURSIVE Eval(_, _, _), Exec(_, _, _), ExecAll(_, _, _), Apply(_, _, _), Index(_, _, _, _), Assign(_, _, _, _, _)

Gives(s, vs) == [s |-> s, vs |-> vs]
Raise(s, why) == Gives([s EXCEPT !.err = why], <<>>)
First(vs) == IF vs = <<>> THEN Nil ELSE vs[1]
Adjust(vs, n) == SubSeq(vs \o [j \in 1..n |-> Nil], 1, n)
OneOf(r) == Gives(r.s, <<First(r.vs)>>)

EvalList(s, c, es) ==
  LET Next1(acc, j) == LET r == Eval(acc.s, c, es[j])
                       IN  Gives(r.s, acc.vs \o IF j = Len(es) THEN r.vs ELSE <<First(r.vs)>>)
  IN  FoldLeft(Next1, Gives(s, <<>>), [j \in DOMAIN es |-> j])

\* New variables hide those of the same name.
Declare(s, c, names, vs) ==
  LET New(x) == Len(s.cells) + CHOOSE j \in DOMAIN names : names[j] = x /\ \A i \in DOMAIN names : names[i] = x => i <= j
  IN  [s |-> [s EXCEPT !.cells = @ \o Adjust(vs, Len(names))],
       c |-> [c EXCEPT !.env = [x \in ToSet(names) |-> New(x)] @@ @]]

\* An event of a value's metatable.
Handler(s, v, event) ==
  CASE IsString(v)                          -> RawGet(s, <<"table", lua_newstate.strmeta>>, <<"string", event>>)
    [] IsTable(v) /\ s.tabs[v[2]].meta # 0 -> RawGet(s, <<"table", s.tabs[v[2]].meta>>, <<"string", event>>)
    [] OTHER                                -> Nil

Index(s, t, key, loop) ==
  LET raw == IF IsTable(t) THEN RawGet(s, t, key) ELSE Nil
      h   == Handler(s, t, "__index")
  IN  CASE s.err # ""                -> Gives(s, <<Nil>>)
        [] s.err = "" /\ loop = MAXTAGLOOP -> Raise(s, "loop")
        [] OTHER -> CASE IsTable(t) /\ (raw # Nil \/ h = Nil) -> Gives(s, <<raw>>)
                      [] ~IsTable(t) /\ h = Nil            -> Raise(s, "index")
                      [] OTHER -> IF IsFunction(h) THEN OneOf(Apply(s, h, <<t, key>>)) ELSE Index(s, h, key, loop + 1)

Assign(s, t, key, v, loop) ==
  LET raw == IF IsTable(t) THEN RawGet(s, t, key) ELSE Nil
      h   == Handler(s, t, "__newindex")
  IN  CASE s.err # ""                -> s
        [] s.err = "" /\ loop = MAXTAGLOOP -> Raise(s, "loop").s
        [] OTHER -> CASE ~IsTable(t)                         -> Raise(s, "index").s
                      [] IsTable(t) /\ ~GoodKey(key)         -> Raise(s, "bad key").s
                      [] IsTable(t) /\ GoodKey(key) /\ (raw # Nil \/ h = Nil) -> RawSet(s, t, key, v)
                      [] OTHER -> IF IsFunction(h) THEN Apply(s, h, <<t, key, v>>).s ELSE Assign(s, h, key, v, loop + 1)

\* A function that takes extra arguments has them in the table `arg', unless
\* its body names them.
Enter(s, f, args) ==
  LET fixed == Declare(s, [env |-> f.env, dots |-> <<>>], f.tree[2], args)
      dots  == SubSeq(args, Len(f.tree[2]) + 1, Len(args))
      fields == [x \in {<<"number", j>> : j \in {i \in DOMAIN dots : dots[i] # Nil}} |-> dots[x[2]]]
      t     == NewTable(fixed.s, With(fields, <<"string", "n">>, <<"number", Len(dots)>>))
      arg   == IF f.tree[3] = "..." THEN Declare(fixed.s, fixed.c, <<"arg">>, <<>>) ELSE Declare(t, fixed.c, <<"arg">>, <<LastTable(t)>>)
  IN  IF f.tree[3] # "" THEN [arg EXCEPT !.c.dots = dots] ELSE fixed

Apply(s, f, args) ==
  LET in   == Enter(s, s.funs[f[2]], args)
      body == ExecAll(in.s, in.c, s.funs[f[2]].tree[4])
      inner == Apply(s, First(args), SubSeq(args, 2, Len(args)))
      base == CallBase(f, s, args)
      h    == Handler(s, f, "__call")
  IN  CASE s.err # ""           -> Gives(s, <<>>)
        [] s.err = "" /\ f[1] = "function" -> Gives(body.s, body.vs)
        [] s.err = "" /\ f = <<"cfunction", "pcall">> ->
             CASE args = <<>> -> Raise(s, "argument")
               [] args # <<>> /\ inner.s.err = "" -> Gives(inner.s, <<True>> \o inner.vs)
               [] OTHER -> Gives([inner.s EXCEPT !.err = ""], <<False, <<"string", inner.s.err>>>>)
        [] s.err = "" /\ f[1] = "cfunction" /\ f[2] \notin BaseFunctions \cup {"ipairsaux"} -> Means(f, s, args)
        [] s.err = "" /\ f[1] = "cfunction" /\ f[2] \in (BaseFunctions \cup {"ipairsaux"}) \ {"pcall"} ->
             IF base.err # "" THEN Raise(base.s, base.err) ELSE Gives(base.s, base.r)
        [] OTHER -> IF IsFunction(h) THEN Apply(s, h, <<f>> \o args) ELSE Raise(s, "call")

\* A binary event: the handler of the first operand, else of the second.
ByHandler(s, a, b, event, why) ==
  LET h == IF Handler(s, a, event) # Nil THEN Handler(s, a, event) ELSE Handler(s, b, event)
  IN  IF h = Nil THEN Raise(s, why) ELSE OneOf(Apply(s, h, <<a, b>>))
\* A comparison event: the handler must be that of both.
Both(s, a, b, event) == LET h == Handler(s, a, event)
                        IN  IF RawEqual(h, Handler(s, b, event)) THEN h ELSE Nil
Truth(r, is) == Gives(r.s, <<<<"boolean", IsFalse(First(r.vs)) # is>>>>)

EvalEq(s, a, b, is) ==
  IF IsTable(a) /\ IsTable(b) /\ a # b /\ Both(s, a, b, "__eq") # Nil
  THEN Truth(Apply(s, Both(s, a, b, "__eq"), <<a, b>>), is)
  ELSE Gives(s, <<<<"boolean", RawEqual(a, b) = is>>>>)
EvalLess(s, a, b) ==
  CASE IsNumber(a) /\ IsNumber(b) -> Gives(s, <<<<"boolean", NumLess(a[2], b[2])>>>>)
    [] IsString(a) /\ IsString(b) -> Gives(s, <<<<"boolean", StrLess(a[2], b[2])>>>>)
    [] OTHER -> IF Both(s, a, b, "__lt") = Nil THEN Raise(s, "compare")
                ELSE Truth(Apply(s, Both(s, a, b, "__lt"), <<a, b>>), TRUE)
EvalLessEqual(s, a, b) ==
  CASE IsNumber(a) /\ IsNumber(b) -> Gives(s, <<<<"boolean", NumLessEqual(a[2], b[2])>>>>)
    [] IsString(a) /\ IsString(b) -> Gives(s, <<<<"boolean", a = b \/ StrLess(a[2], b[2])>>>>)
    [] OTHER -> CASE Both(s, a, b, "__le") # Nil -> Truth(Apply(s, Both(s, a, b, "__le"), <<a, b>>), TRUE)
                  [] Both(s, a, b, "__le") = Nil /\ Both(s, b, a, "__lt") # Nil ->
                       Truth(Apply(s, Both(s, b, a, "__lt"), <<b, a>>), FALSE)
                  [] OTHER -> Raise(s, "compare")

EvalArith(s, op, a, b) ==
  LET x == luaV_tonumber(a)
      y == luaV_tonumber(b)
  IN  IF Nil \notin {x, y} THEN Gives(s, <<<<"number", NumArith(op, x[2], y[2])>>>>)
      ELSE ByHandler(s, a, b, EventOf[op], "arith")

Binary(s, op, a, b) ==
  CASE s.err # ""  -> Gives(s, <<Nil>>)
    [] s.err = "" /\ op \in DOMAIN ArithCode -> EvalArith(s, ArithCode[op], a, b)
    [] s.err = "" /\ op = ".." -> IF CanStr(a) /\ CanStr(b) THEN Gives(s, <<<<"string", ToStr(a) \o ToStr(b)>>>>)
                                  ELSE ByHandler(s, a, b, "__concat", "concat")
    [] s.err = "" /\ op \in {"==", "~="} -> EvalEq(s, a, b, op = "==")
    [] s.err = "" /\ op = "<"  -> EvalLess(s, a, b)
    [] s.err = "" /\ op = ">"  -> EvalLess(s, b, a)
    [] s.err = "" /\ op = "<=" -> EvalLessEqual(s, a, b)
    [] s.err = "" /\ op = ">=" -> EvalLessEqual(s, b, a)

Unary(s, op, a) ==
  CASE s.err # "" -> Gives(s, <<Nil>>)
    [] s.err = "" /\ op = "not" -> Gives(s, <<<<"boolean", IsFalse(a)>>>>)
    [] s.err = "" /\ op = "-"   -> EvalArith(s, "UNM", a, a)
    [] s.err = "" /\ op = "#"   -> CASE IsTable(a)  -> Gives(s, <<<<"number", luaH_getn(s, a)>>>>)
                                     [] IsString(a) -> Gives(s, <<<<"number", Len(a[2])>>>>)
                                     [] OTHER       -> Raise(s, "length")

\* The list items take the numbers from 1; the last one all of its values.
Construct(s, c, items) ==
  LET t == NewTable(s, [x \in {} |-> Nil])
      me == LastTable(t)
      Item(acc, j) ==
        LET k == IF items[j][1] = "field" THEN Eval(acc.s, c, items[j][2]) ELSE Gives(acc.s, <<>>)
            r == Eval(k.s, c, Last(items[j]))
            vs == IF j = Len(items) THEN r.vs ELSE <<First(r.vs)>>
        IN  IF items[j][1] = "field" THEN [acc EXCEPT !.s = Assign(r.s, me, First(k.vs), First(r.vs), 0)]
            ELSE [s |-> FoldLeft(LAMBDA x, n : Assign(x, me, <<"number", acc.n + n>>, vs[n], 0), r.s, [n \in DOMAIN vs |-> n]),
                  n |-> acc.n + Len(vs)]
  IN  Gives(FoldLeft(Item, [s |-> t, n |-> 0], [j \in DOMAIN items |-> j]).s, <<me>>)

\* A global is a field of the table of globals.
Lookup(s, c, x) == IF x \in DOMAIN c.env THEN Gives(s, <<s.cells[c.env[x]]>>)
                   ELSE Index(s, Globals, <<"string", x>>, 0)

Eval(s, c, e) ==
  LET a == Eval(s, c, e[2])
      o == OneOf(a).vs[1]
      args == EvalList(a.s, c, Last(e))
      left == Eval(s, c, e[3])
      right == Eval(left.s, c, e[4])
      m == Index(a.s, o, <<"string", e[3]>>, 0)
      margs == EvalList(m.s, c, e[4])
      key == Eval(a.s, c, e[3])
      op  == Eval(s, c, e[3])
  IN  CASE s.err # "" -> Gives(s, <<>>)
        [] s.err = "" /\ e[1] = "nil"    -> Gives(s, <<Nil>>)
        [] s.err = "" /\ e[1] = "true"   -> Gives(s, <<True>>)
        [] s.err = "" /\ e[1] = "false"  -> Gives(s, <<False>>)
        [] s.err = "" /\ e[1] = "..."    -> Gives(s, c.dots)
        [] s.err = "" /\ e[1] = "num"    -> Gives(s, <<<<"number", e[2]>>>>)
        [] s.err = "" /\ e[1] = "str"    -> Gives(s, <<<<"string", e[2]>>>>)
        [] s.err = "" /\ e[1] = "name"   -> Lookup(s, c, e[2])
        [] s.err = "" /\ e[1] = "paren"  -> OneOf(a)
        [] s.err = "" /\ e[1] = "index"  -> Index(key.s, o, First(key.vs), 0)
        [] s.err = "" /\ e[1] = "call"   -> Apply(args.s, o, args.vs)
        [] s.err = "" /\ e[1] = "method" -> Apply(margs.s, First(m.vs), <<o>> \o margs.vs)
        [] s.err = "" /\ e[1] = "func"   -> Gives([s EXCEPT !.funs = Append(@, [tree |-> e, env |-> c.env])],
                                                  <<<<"function", Len(s.funs) + 1>>>>)
        [] s.err = "" /\ e[1] = "table"  -> Construct(s, c, e[2])
        [] s.err = "" /\ e[1] = "un"     -> Unary(op.s, e[2], First(op.vs))
        [] s.err = "" /\ e[1] = "bin" /\ e[2] = "and" -> IF IsFalse(First(left.vs)) THEN OneOf(left) ELSE OneOf(right)
        [] s.err = "" /\ e[1] = "bin" /\ e[2] = "or"  -> IF IsFalse(First(left.vs)) THEN OneOf(right) ELSE OneOf(left)
        [] s.err = "" /\ e[1] = "bin" /\ e[2] \notin {"and", "or"} -> Binary(right.s, e[2], First(left.vs), First(right.vs))

-----------------------------------------------------------------------------
(* Statements.  A statement leaves a store, the context of the next one,   *)
(* and in sig whether it broke out of a loop or returned vs.               *)

Goes(s, c) == [s |-> s, c |-> c, sig |-> "", vs |-> <<>>]
Inside(r, c) == [r EXCEPT !.c = c]          \* the end of a scope

ExecAll(s, c, stats) ==
  FoldLeft(LAMBDA acc, st : IF acc.s.err # "" \/ acc.sig # "" THEN acc ELSE Exec(acc.s, acc.c, st), Goes(s, c), stats)

\* What a loop does after its body: stop, or Again.
Looped(r, c, again) == CASE r.s.err # "" \/ r.sig = "return" -> Inside(r, c)
                         [] r.s.err = "" /\ r.sig = "break"   -> Goes(r.s, c)
                         [] OTHER                             -> again

RECURSIVE While(_, _, _), Repeat(_, _, _), Count(_, _, _, _), Iterate(_, _, _, _, _, _)
While(s, c, st) ==
  LET cond == Eval(s, c, st[2])
      r == ExecAll(cond.s, c, st[3])
  IN  IF cond.s.err # "" \/ IsFalse(First(cond.vs)) THEN Goes(cond.s, c) ELSE Looped(r, c, While(r.s, c, st))
Repeat(s, c, st) ==
  LET r == ExecAll(s, c, st[2])
      cond == Eval(r.s, r.c, st[3])
  IN  Looped(r, c, IF cond.s.err = "" /\ IsFalse(First(cond.vs)) THEN Repeat(cond.s, c, st) ELSE Goes(cond.s, c))
Count(s, c, st, range) ==
  LET in == Declare(s, c, <<st[2]>>, <<<<"number", range[1]>>>>)
      r == ExecAll(in.s, in.c, st[6])
  IN  IF (IF range[3] > 0 THEN range[1] > range[2] ELSE range[1] < range[2]) THEN Goes(s, c)
      ELSE Looped(r, c, Count(r.s, c, st, <<range[1] + range[3], range[2], range[3]>>))
Iterate(s, c, st, f, state, control) ==
  LET next == Apply(s, f, <<state, control>>)
      in == Declare(next.s, c, st[2], next.vs)
      r == ExecAll(in.s, in.c, st[4])
  IN  IF next.s.err # "" \/ First(next.vs) = Nil THEN Goes(next.s, c)
      ELSE Looped(r, c, Iterate(r.s, c, st, f, state, next.vs[1]))

\* A place to assign to: a cell, or a field of a table.
Place(s, c, e) ==
  LET t == Eval(s, c, e[2])
      k == Eval(t.s, c, e[3])
  IN  CASE e[1] = "name" /\ e[2] \in DOMAIN c.env -> [s |-> s, p |-> <<"cell", c.env[e[2]]>>]
        [] e[1] = "name" /\ e[2] \notin DOMAIN c.env -> [s |-> s, p |-> <<"field", Globals, <<"string", e[2]>>>>]
        [] OTHER -> [s |-> k.s, p |-> <<"field", First(t.vs), First(k.vs)>>]
Store(s, p, v) == CASE s.err # ""    -> s
                    [] s.err = "" /\ p[1] = "cell" -> [s EXCEPT !.cells[p[2]] = v]
                    [] OTHER         -> Assign(s, p[2], p[3], v, 0)
AssignAll(s, c, targets, exps) ==
  LET Add(acc, e) == LET p == Place(acc.s, c, e) IN [s |-> p.s, ps |-> Append(acc.ps, p.p)]
      places == FoldLeft(Add, [s |-> s, ps |-> <<>>], targets)
      r  == EvalList(places.s, c, exps)
      vs == Adjust(r.vs, Len(targets))
  IN  FoldRight(LAMBDA j, x : Store(x, places.ps[j], vs[j]), [j \in DOMAIN targets |-> j], r.s)

\* function a.b:c is an assignment to a.b.c, with a parameter self.
PathOf(names) == FoldLeft(LAMBDA e, x : <<"index", e, <<"str", x>>>>, <<"name", names[1]>>, Tail(names))

Exec(s, c, st) ==
  LET exps == EvalList(s, c, Last(st))
      cond == Eval(s, c, st[2])
      nums == EvalList(s, c, SubSeq(st, 3, 5))
      coerced == [j \in 1..3 |-> luaV_tonumber(nums.vs[j])]
      iter == EvalList(s, c, st[3])
      new  == Declare(s, c, <<st[2]>>, <<Nil>>)
      f    == Eval(new.s, new.c, st[3])
      decl == Declare(IF st[3] = <<>> THEN s ELSE exps.s, c, st[2], IF st[3] = <<>> THEN <<>> ELSE exps.vs)
      fun  == IF st[3] = "" THEN st[4] ELSE <<"func", <<"self">> \o st[4][2], st[4][3], st[4][4]>>
      path == PathOf(IF st[3] = "" THEN st[2] ELSE Append(st[2], st[3]))
  IN  CASE st[1] = "local"  -> Goes(decl.s, decl.c)
        [] st[1] = "assign" -> Goes(AssignAll(s, c, st[2], st[3]), c)
        [] st[1] = "do"     -> Inside(ExecAll(s, c, st[2]), c)
        [] st[1] = "while"  -> While(s, c, st)
        [] st[1] = "repeat" -> Repeat(s, c, st)
        [] st[1] = "if"     -> Inside(ExecAll(cond.s, c, IF IsFalse(First(cond.vs)) THEN st[4] ELSE st[3]), c)
        [] st[1] = "fornum" -> CASE nums.s.err # "" -> Goes(nums.s, c)
                                 [] nums.s.err = "" /\ Nil \in ToSet(coerced) -> Goes(Raise(nums.s, "for").s, c)
                                 [] OTHER -> Count(nums.s, c, st, [j \in 1..3 |-> coerced[j][2]])
        [] st[1] = "forin"  -> Iterate(iter.s, c, st, Adjust(iter.vs, 3)[1], Adjust(iter.vs, 3)[2], Adjust(iter.vs, 3)[3])
        [] st[1] = "localfunc" -> Goes([f.s EXCEPT !.cells[new.c.env[st[2]]] = f.vs[1]], new.c)
        [] st[1] = "funcstat"  -> Goes(AssignAll(s, c, <<path>>, <<fun>>), c)
        [] st[1] = "return" -> [s |-> exps.s, c |-> c, sig |-> "return", vs |-> exps.vs]
        [] st[1] = "break"  -> [s |-> s, c |-> c, sig |-> "break", vs |-> <<>>]
        [] OTHER            -> Goes(Eval(s, c, st).s, c)

-----------------------------------------------------------------------------
(* A program: its tokens and its outcome *)

Written(p) == TextBlock(p.stats)

\* Its outcome, in the terms of LuaVM!Outcome.
Meant(p) ==
  LET store == [cells |-> <<>>, tabs |-> lua_newstate.tabs, funs |-> <<>>, err |-> ""]
      r == ExecAll(store, [env |-> [x \in {} |-> 0], dots |-> <<>>], p.stats)
  IN  CASE p.refused # "" -> <<"refused", p.refused>>
        [] p.refused = "" /\ r.s.err # "" -> <<"error", r.s.err>>
        [] OTHER -> <<"returned", Shown(r.vs)>>
=============================================================================
