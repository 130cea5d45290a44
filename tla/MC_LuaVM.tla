------------------------------ MODULE MC_LuaVM ------------------------------
(***************************************************************************)
(* Programs for TLC, in families: each is a template over the contexts and *)
(* operands where the code generator takes different ways.                 *)
(***************************************************************************)
EXTENDS LibMeaning, LuaLib, LuaPatterns, LuaParser, LuaChunk

Nm(x) == <<"name", x>>
Num(n) == <<"num", n>>
Str(s) == <<"str", s>>
NilE == <<"nil">>
Dots == <<"...">>
Bin(op, a, b) == <<"bin", op, a, b>>
Not(a) == <<"un", "not", a>>
CallE(f, args) == <<"call", f, args>>
Do(f, args) == CallE(Nm(f), args)
Get(t, k) == <<"index", t, k>>
Dot(t, k) == Get(Nm(t), Str(k))
Tab(items) == <<"table", items>>
List(es) == Tab([j \in DOMAIN es |-> <<"item", es[j]>>])
Fun(params, body) == <<"func", params, "", body>>
FunDots(params, body) == <<"func", params, "...", body>>
Ret(es) == <<"return", es>>
Loc(xs, es) == <<"local", xs, es>>
Loc1(x, e) == Loc(<<x>>, <<e>>)
Let1(x, e) == <<"assign", <<Nm(x)>>, <<e>>>>
Set1(target, e) == <<"assign", <<target>>, <<e>>>>
If(e, stats) == <<"if", e, stats, <<>>>>
For(x, a, b, stats) == <<"fornum", x, Num(a), Num(b), Num(1), stats>>
Local_f(params, body) == <<"localfunc", "f", Fun(params, body)>>
Plus(a, b) == Bin("+", a, b)

-----------------------------------------------------------------------------
(* Conditions, the values they leave and the jumps they need: all uses of  *)
(* an expression of two levels, for all truth values of a and b.           *)

Combos == << <<NilE, NilE>>, <<NilE, Num(1)>>, <<Num(1), NilE>>, <<Num(1), Num(2)>> >>
OnCombos(body) ==
  << Local_f(<<"a", "b">>, body), Ret([j \in DOMAIN Combos |-> <<"paren", Do("f", Combos[j])>>]) >>

Operands == {Nm("a"), Nm("b"), NilE, Num(1), Not(Nm("a")), Bin("==", Nm("a"), NilE),
             Bin("and", Nm("a"), Nm("b")), Bin("or", Nm("a"), Nm("b"))}
Conditions == {Bin(op, x, y) : op \in {"and", "or"}, x \in Operands, y \in Operands}
Uses == {Bin("and", Nm("a"), Nm("b")), Not(Bin("or", Nm("a"), Nm("b"))), Bin("==", Nm("a"), Nm("b")),
         Bin("or", Bin("and", Nm("a"), Num(3)), Nm("b")), Bin("and", Not(Nm("a")), Nm("b")),
         Bin("and", Bin("or", Nm("a"), NilE), Bin("or", Nm("b"), <<"false">>)),
         Bin("or", Bin("<", Num(1), Num(2)), Nm("a")), Not(Not(Nm("a"))), NilE, Num(1), Nm("b")}
One == <<Ret(<<Num(1)>>)>>
InContext(e) == {
  << <<"if", e, One, <<Ret(<<Num(2)>>)>>>> >>,
  << <<"while", e, One>>, Ret(<<Num(2)>>) >>,
  << Loc1("n", Num(0)), <<"repeat", <<Let1("n", Plus(Nm("n"), Num(1)))>>, Bin("or", e, Bin("==", Nm("n"), Num(2)))>>,
     Ret(<<Nm("n")>>) >>,
  << Loc1("x", Nm("b")), Loc1("y", e), Ret(<<Nm("y")>>) >>,
  << Let1("a", e), Ret(<<Nm("a")>>) >>,
  << Let1("g", e), Ret(<<Nm("g")>>) >>,
  << Ret(<<Get(List(<<e>>), Num(1))>>) >>,
  << Ret(<<Get(Tab(<<<<"field", Str("k"), e>>>>), Str("k"))>>) >>,
  << Ret(<<Do("select", <<Num(2), Num(7), e>>)>>) >>,
  << Ret(<<Bin("==", e, Nm("b"))>>) >>,
  << Ret(<<Bin("or", <<"paren", e>>, Str("z"))>>) >>}

ConditionPrograms ==
  {OnCombos(<<Ret(<<e>>)>>) : e \in Conditions \cup UNION {
     {Bin(op, x, y), Bin(op, y, x)} : op \in {"and", "or"}, x \in Conditions, y \in {Nm("b"), NilE, Not(Nm("a"))}}}
ContextPrograms == UNION {{OnCombos(body) : body \in InContext(e)} : e \in Conditions \cup Uses}

\* Order and grouping of the other operators.
Figures == {Bin(o1, Num(6), Bin(o2, Num(3), Num(2))) : o1 \in {"-", "^", "*"}, o2 \in {"-", "^", "*"}}
           \cup {Bin(o1, Bin(o2, Num(2), Num(3)), Num(2)) : o1 \in {"-", "^", "*"}, o2 \in {"-", "^", "*"}}
           \cup {<<"un", "-", Bin("^", Nm("x"), Num(2))>>, Bin("^", <<"un", "-", Nm("x")>>, Num(2)),
                 Bin("..", Bin("..", Nm("x"), Num(2)), Bin("..", Num(3), Str("4"))),
                 Bin("<", Plus(Nm("x"), Num(1)), Bin("*", Nm("x"), Num(2))), Bin("..", Nm("x"), Plus(Num(1), Str("2"))),
                 Bin(">", Nm("x"), Num(2)), Bin(">=", Num(3), Nm("x")), Bin("~=", Nm("x"), Bin("/", Num(6), Num(2))),
                 Bin("%", <<"un", "-", Nm("x")>>, Num(2)), <<"un", "#", Bin("..", Nm("x"), Str("ab"))>>}
Changed(e) == IF e[1] = "bin" /\ e[3] = Num(6) THEN Bin(e[2], Nm("x"), e[4]) ELSE e
FigurePrograms == {<<Loc1("x", Num(3)), Ret(<<e, Changed(e)>>)>> : e \in Figures}

-----------------------------------------------------------------------------
(* Assignments: targets are evaluated before any of them changes. *)

Targets == {Nm("i"), Nm("t"), Get(Nm("t"), Nm("i")), Nm("u"), Nm("g")}
TargetLists == {<<p, q>> : p, q \in Targets} \cup {<<p, q, Nm("i")>> : p, q \in Targets \ {Nm("i")}}
Distinct(ts) == \A m, n \in DOMAIN ts : ts[m] = ts[n] => m = n
Sources == { <<Num(7), Num(8)>>, <<Do("f", <<>>)>>, <<Plus(Nm("i"), Num(1)), Do("f", <<>>)>>, <<Num(7), Num(8), Num(9)>> }
AssignPrograms ==
  {<< Loc(<<"i", "s", "u">>, <<Num(1), List(<<Num(4), Num(5)>>), Num(0)>>), Loc1("t", Nm("s")),
      <<"localfunc", "f", Fun(<<>>, <<Ret(<<Num(5), Plus(Nm("u"), Num(2))>>)>>)>>,
      <<"assign", ts, es>>,
      Ret(<<Nm("i"), Nm("u"), Nm("g"), Get(Nm("s"), Num(1)), Get(Nm("s"), Num(2)), Bin("==", Nm("t"), Nm("s"))>>) >>
    : ts \in {x \in TargetLists : Distinct(x)}, es \in Sources}
  \cup {<< Loc(<<"a", "b", "c">>, <<Num(1), Num(2)>>), <<"assign", <<Nm("a"), Nm("b"), Nm("c")>>, es>>,
           Ret(<<Nm("a"), Nm("b"), Nm("c")>>) >>
    : es \in {<<Nm("b"), Nm("a")>>, <<Nm("c"), Nm("a"), Nm("b")>>, <<Nm("b")>>,
              <<Num(1), Do("select", <<Num(2), Num(4), Num(5), Num(6)>>)>>}}

-----------------------------------------------------------------------------
(* Constructors around the flush limit, and open results. *)

Filled(n, last) == [j \in 1..n |-> <<"item", Num(j)>>] \o last
Lasts == { <<>>, <<<<"item", Do("f", <<>>)>>>>, <<<<"item", Dots>>>>, <<<<"item", <<"paren", Dots>>>>>>,
           <<<<"field", Str("k"), Num(9)>>>>, <<<<"item", NilE>>, <<"field", Num(9), Dots>>>> }
Contents == <<Get(Nm("t"), Num(1)), Get(Nm("t"), Num(2)), Get(Nm("t"), Num(3)), Get(Nm("t"), Num(4)),
              Get(Nm("t"), Num(5)), Get(Nm("t"), Num(6)), Dot("t", "k"), Get(Nm("t"), Num(9))>>
ConstructorPrograms ==
  {<< Local_f(<<>>, <<Ret(<<Num(7), Num(8)>>)>>),
      <<"localfunc", "h", FunDots(<<>>, <<Loc1("t", Tab(Filled(n, last))), Ret(Contents)>>)>>,
      Ret(<<Do("h", <<Num(3), Num(4)>>)>>) >> : n \in 0..4, last \in Lasts}
  \cup {<< Loc1("t", Tab(<<<<"field", Str("k"), Num(1)>>, <<"item", Num(2)>>, <<"field", Str("l"), Num(3)>>, <<"item", Num(4)>>,
                           <<"item", Num(5)>>>>)), Ret(<<<<"un", "#", Nm("t")>>, Dot("t", "k"), Get(Nm("t"), Num(3))>>) >>}

\* Calls: results adjusted, opened, passed on, and calls of other things.
Given == { <<Do("f", <<>>)>>, <<Do("f", <<>>), Num(1)>>, <<<<"paren", Do("f", <<>>)>>>>, <<Dots>>, <<Dots, Dots>>,
           <<Do("select", <<Str("#"), Dots>>)>>, <<Do("unpack", <<List(<<Dots>>)>>)>>, <<Do("h", <<Dots>>)>>,
           <<Do("h", <<Num(0), Do("f", <<>>)>>)>>, <<Do("pcall", <<Nm("f")>>)>>, <<Do("pcall", <<Nm("error"), Str("e")>>)>>,
           <<Do("h", <<>>)>>, <<Nm("k"), Do("k", <<>>)>> }
Received(es) == { <<Ret(es)>>, <<Loc(<<"x", "y", "z">>, es), Ret(<<Nm("x"), Nm("y"), Nm("z")>>)>>, <<Ret(<<Do("h", es)>>)>>,
                  <<Ret(<<List(es), <<"un", "#", List(es)>>>>)>>, <<Loc1("x", Do("h", es)), Ret(<<Nm("x"), Num(5)>>)>> }
CallPrograms ==
  {<< Local_f(<<>>, <<Ret(<<Num(7), Num(8)>>)>>),
      <<"localfunc", "h", FunDots(<<"x">>, <<Ret(<<Nm("x"), Dots>>)>>)>>,
      <<"localfunc", "k", <<"func", <<"x">>, "arg", <<Ret(<<Dot("arg", "n"), Get(Nm("arg"), Num(1))>>)>>>>>>,
      <<"localfunc", "m", FunDots(<<>>, body)>>, Ret(<<Do("m", <<Num(2), Num(3)>>)>>) >>
    : body \in UNION {Received(es) : es \in Given}}

-----------------------------------------------------------------------------
(* Closures over the variables of blocks and loops *)

\* Every turn leaves a closure in t that counts its variables up.
Keep(x, y) == Set1(Get(Nm("t"), Plus(<<"un", "#", Nm("t")>>, Num(1))),
                   Fun(<<>>, <<Let1(x, Plus(Nm(x), Num(1))), Let1(y, Plus(Nm(y), Num(2))), Ret(<<Plus(Nm(x), Nm(y))>>)>>))
Turn(ending) == <<Loc1("y", Nm("x")), Keep("x", "y")>> \o ending
Endings == { <<>>, <<If(Bin("==", Nm("x"), Num(2)), <<<<"break">>>>)>>,
             << <<"do", <<Loc1("z", Nm("y")), Let1("h", Fun(<<>>, <<Ret(<<Nm("z")>>)>>)), If(Bin("==", Nm("z"), Num(2)), <<<<"break">>>>)>>>> >>,
             << If(Bin("==", Nm("x"), Num(2)), <<Ret(<<CallE(Get(Nm("t"), Num(1)), <<>>)>>)>>) >> }
Loops(ending) == {
  For("x", 1, 3, Turn(ending)),
  <<"fornum", "x", Num(3), Str("1"), <<"un", "-", Num(1)>>, Turn(ending)>>,
  <<"forin", <<"_", "x">>, <<Do("ipairs", <<List(<<Num(1), Num(2), Num(3)>>)>>)>>, Turn(ending)>>,
  <<"do", <<Loc1("n", Num(0)), <<"while", Bin("<", Nm("n"), Num(3)), <<Let1("n", Plus(Nm("n"), Num(1))), Loc1("x", Nm("n"))>> \o Turn(ending)>>>>>>,
  <<"do", <<Loc1("n", Num(0)), <<"repeat", <<Let1("n", Plus(Nm("n"), Num(1))), Loc1("x", Nm("n"))>> \o Turn(ending),
                                 Bin("==", Plus(Nm("y"), Num(0)), Num(3))>>>>>>}
CallAll == [j \in 1..4 |-> Bin("and", Get(Nm("t"), Num(IF j = 4 THEN 1 ELSE j)),
                                      <<"paren", CallE(Get(Nm("t"), Num(IF j = 4 THEN 1 ELSE j)), <<>>)>>)]
\* A nil at the head of a loop, after another one, is for every turn.
NilTurn == <<Loc(<<"y">>, <<>>), If(Nm("y"), <<Ret(<<Nm("y")>>)>>), Let1("y", Num(5)), Let1("n", Plus(Nm("n"), Num(1)))>>
NilLoops == {<<"repeat", NilTurn, Bin("==", Nm("n"), Num(2))>>,
             <<"repeat", NilTurn, Bin("==", <<"un", "-", Nm("n")>>, <<"un", "-", Nm("y")>>)>>,
             <<"while", <<"true">>, NilTurn \o <<If(Bin("==", Nm("n"), Num(2)), <<<<"break">>>>)>>>>}
LoopPrograms ==
  {<<Loc1("t", Tab(<<>>)), loop, Ret(CallAll)>> : loop \in UNION {Loops(ending) : ending \in Endings}}
  \cup {<<Loc(<<"n">>, <<Num(0)>>), Loc(<<"x">>, <<>>), loop, Ret(<<Nm("n"), Nm("x")>>)>> : loop \in NilLoops}

-----------------------------------------------------------------------------
(* Functions: upvalues of several levels, methods, tail calls, recursion   *)

Handles(event, f) == <<"field", Str(event), f>>

FunctionPrograms == {
  \* two levels; the variable lives on after the block
  << Loc1("x", Num(1)),
     <<"localfunc", "f", Fun(<<"y">>, <<Ret(<<Fun(<<"z">>, <<Let1("x", Plus(Nm("x"), Nm("z"))), Let1("y", Plus(Nm("y"), Nm("x"))),
                                                          Ret(<<Nm("y")>>)>>)>>)>>)>>,
     Loc(<<"g", "h">>, <<Do("f", <<Num(10)>>), Do("f", <<Num(20)>>)>>),
     Ret(<<Do("g", <<Num(1)>>), Do("h", <<Num(2)>>), Do("g", <<Num(3)>>), Nm("x")>>) >>,
  \* methods
  << Let1("o", Tab(<<<<"field", Str("v"), Num(3)>>, <<"field", Str("p"), Tab(<<>>)>>>>)),
     <<"funcstat", <<"o">>, "m", Fun(<<"n">>, <<Set1(Dot("self", "v"), Plus(Dot("self", "v"), Nm("n"))), Ret(<<Nm("self")>>)>>)>>,
     <<"funcstat", <<"o", "p">>, "q", Fun(<<>>, <<Ret(<<Bin("==", Nm("self"), Dot("o", "p"))>>)>>)>>,
     <<"funcstat", <<"o", "p", "r">>, "", FunDots(<<>>, <<Ret(<<Dots>>)>>)>>,
     Ret(<<Get(<<"method", <<"method", Nm("o"), "m", <<Num(1)>>>>, "m", <<Num(2)>>>>, Str("v")),
           <<"method", Dot("o", "p"), "q", <<>>>>, CallE(Get(Dot("o", "p"), Str("r")), <<Num(1), Num(2)>>)>>) >>,
  \* a tail call closes the variables its caller's closures share
  << Loc(<<"k", "f">>, <<>>),
     <<"localfunc", "g", FunDots(<<"n">>, <<Ret(<<Do("k", <<>>), Nm("n"), Dots>>)>>)>>,
     Let1("f", Fun(<<"n">>, <<Let1("k", Fun(<<>>, <<Let1("n", Plus(Nm("n"), Num(5))), Ret(<<Nm("n")>>)>>)),
                             Ret(<<Do("g", <<Nm("n"), Num(3), Num(4)>>)>>)>>)),
     Ret(<<Do("f", <<Num(1)>>)>>) >>,
  \* tail calls in functions that C called
  << <<"localfunc", "f", FunDots(<<"x">>, <<Ret(<<Nm("x"), Dots>>)>>)>>,
     Loc1("o", Do("setmetatable", <<Tab(<<>>), Tab(<<Handles("__add", Fun(<<"x", "y">>, <<Ret(<<Do("f", <<Nm("y"), Num(1)>>)>>)>>))>>)>>)),
     <<"forin", <<"i", "j">>, <<Fun(<<"x", "y">>, <<If(Bin("==", Nm("y"), Num(0)), <<Ret(<<Do("f", <<Num(5), Num(6)>>)>>)>>)>>), NilE, Num(0)>>,
       <<Let1("g", Nm("j"))>>>>,
     Ret(<<Plus(Nm("o"), Num(2)), Nm("g"), Do("pcall", <<Fun(<<>>, <<Ret(<<Do("f", <<Num(3), Num(4)>>)>>)>>)>>)>>) >>,
  << <<"localfunc", "f", Fun(<<"n", "s">>, <<If(Bin("==", Nm("n"), Num(0)), <<Ret(<<Nm("s")>>)>>),
                                            Ret(<<Do("f", <<Bin("-", Nm("n"), Num(1)), Plus(Nm("s"), Nm("n"))>>)>>)>>)>>,
     Ret(<<Do("f", <<Num(4), Num(0)>>)>>) >>,
  << <<"localfunc", "f", Fun(<<"n">>, <<If(Bin("<", Nm("n"), Num(2)), <<Ret(<<Nm("n")>>)>>),
                                       Ret(<<Plus(Do("f", <<Bin("-", Nm("n"), Num(1))>>), Do("f", <<Bin("-", Nm("n"), Num(2))>>))>>)>>)>>,
     Ret(<<Do("f", <<Num(4)>>)>>) >>,
  << <<"localfunc", "f", FunDots(<<>>, <<Ret(<<Do("select", <<Num(2), Dots>>)>>)>>)>>, Ret(<<Do("f", <<Num(1), Num(2), Num(3)>>)>>) >>,
  << <<"localfunc", "f", FunDots(<<>>, <<Ret(<<Do("pcall", <<Dots>>)>>)>>)>>,
     Ret(<<Do("f", <<Fun(<<"x">>, <<Ret(<<Plus(Nm("x"), Num(1))>>)>>), Num(3)>>)>>) >>,
  \* if chains, blocks and shadowing
  << Local_f(<<"n">>, << <<"if", Bin("==", Nm("n"), Num(1)), <<Ret(<<Str("one")>>)>>,
        << <<"if", Bin("==", Nm("n"), Num(2)), <<Let1("n", Str("two"))>>, <<Loc1("n", Num(0)), Let1("n", NilE)>>>> >>>>,
        Ret(<<Nm("n")>>) >>),
     Ret(<<Do("f", <<Num(1)>>), Do("f", <<Num(2)>>), Do("f", <<Num(3)>>)>>) >>,
  << Loc1("x", Num(1)), <<"do", <<Loc1("x", Plus(Nm("x"), Num(1))), Let1("g", Fun(<<>>, <<Let1("x", Plus(Nm("x"), Num(1))), Ret(<<Nm("x")>>)>>))>>>>,
     Loc(<<"y", "z">>, <<Num(5)>>), Ret(<<Nm("x"), Do("g", <<>>), Do("g", <<>>), Nm("y"), Nm("z")>>) >>,
  << For("i", 3, 1, <<Ret(<<Num(1)>>)>>), <<"fornum", "i", Num(5), Num(1), <<"un", "-", Num(2)>>, <<Let1("g", Bin("..", Bin("or", Nm("g"), Str("")), Nm("i"))), Let1("i", Num(0))>>>>,
     Ret(<<Nm("g")>>) >>,
  << Loc(<<"a", "b", "c">>, <<>>), Loc(<<"d">>, <<>>), Ret(<<Nm("a"), Nm("d"), Bin("or", Nm("c"), Num(3))>>) >> }

-----------------------------------------------------------------------------
(* Metamethods, and the absences metatables remember *)

Events == <<"__add", "__sub", "__mul", "__div", "__mod", "__pow", "__concat">>
OpOf == <<"+", "-", "*", "/", "%", "^", "..">>
\* A metatable m whose handlers return their event and what they got.
Got(event) == Fun(<<"x", "y">>, <<Ret(<<Bin("..", Str(event), Bin("and", Bin("==", Nm("x"), Nm("o")), Str("o"))), Num(0)>>)>>)
Meta(fields, rest) == <<Loc1("m", Tab(fields)), Loc1("o", Do("setmetatable", <<Tab(<<>>), Nm("m")>>))>> \o rest
Mt(event, result) == Handles(event, Fun(<<"x", "y">>, <<Ret(<<result>>)>>))

MetaPrograms ==
  {Meta(<<Handles(Events[j], Got(Events[j]))>>, <<Ret(<<Bin(OpOf[j], Nm("o"), Num(1))>>)>>) : j \in DOMAIN Events}
  \cup {Meta(<<Mt(Events[j], Nm("x"))>>, <<Ret(<<Bin(OpOf[j], Num(3), Nm("o")), Do("pcall", <<Fun(<<>>, <<Ret(<<Bin(OpOf[j], Num(3), Tab(<<>>))>>)>>)>>)>>)>>)
          : j \in DOMAIN Events}
  \cup {Meta(<<Mt("__concat", r)>>, <<Ret(<<Bin("..", a, Bin("..", b, c))>>)>>)
          : a, b, c \in {Nm("o"), Num(1)}, r \in {Num(7), Nm("o")}}
  \cup {Meta(<<Mt("__unm", Num(4)), Handles("__call", FunDots(<<"self">>, <<Ret(<<Bin("==", Nm("self"), Nm("o")), Dots>>)>>))>>,
             <<Ret(<<<<"un", "-", Nm("o")>>, Do("o", <<Num(1), Num(2)>>)>>)>>)}
  \* comparisons
  \cup {Meta(fs, <<Loc1("p", Do("setmetatable", <<Tab(<<>>), m>>)), <<"if", e, <<Let1("g", Num(1))>>, <<>>>>, Ret(<<e, Nm("g")>>)>>)
          : fs \in {<<Mt("__eq", Num(1)), Mt("__lt", Num(1)), Mt("__le", NilE)>>, <<Mt("__lt", <<"false">>)>>, <<Mt("__eq", NilE)>>},
            m \in {Nm("m"), Tab(<<>>)},
            e \in {Bin("==", Nm("o"), Nm("p")), Bin("~=", Nm("o"), Nm("p")), Bin("<=", Nm("o"), Nm("p")), Bin(">", Nm("o"), Nm("p")),
                   Bin("==", Nm("o"), Num(1))}}
  \* __index and __newindex: functions, and chains of tables up to the limit
  \cup {Meta(<<Handles("__index", h), Handles("__newindex", n)>>,
             <<Set1(Dot("o", "k"), Num(3)), Ret(<<Dot("o", "k"), Dot("m", "k"), <<"method", Nm("o"), "k", <<>>>>>>)>>)
          : h \in {Fun(<<"x", "k">>, <<Ret(<<Nm("k"), Num(1)>>)>>), Nm("m"), Tab(<<<<"field", Str("k"), Fun(<<"x">>, <<Ret(<<Bin("==", Nm("x"), Nm("o"))>>)>>)>>>>)},
            n \in {NilE, Fun(<<"x", "k", "v">>, <<Do("rawset", <<Nm("x"), Nm("k"), Plus(Nm("v"), Num(1))>>)>>), Num(3)}}
  \cup {<< Loc1("t", Tab(<<<<"field", Str("k"), Num(5)>>>>)),
           For("i", 1, n, <<Let1("t", Do("setmetatable", <<Tab(<<>>), Tab(<<<<"field", Str(event), Nm("t")>>>>)>>))>>),
           Set1(Dot("t", "k"), Num(6)), Ret(<<Dot("t", "k"), Dot("t", "j")>>) >> : n \in 1..4, event \in {"__index", "__newindex"}}
  \* the absence is remembered, and forgotten when the event is set
  \cup {<< Loc1("m", Tab(<<>>)), Loc1("o", Do("setmetatable", <<Tab(<<>>), Nm("m")>>)), Loc1("q", Do("setmetatable", <<Tab(<<>>), Nm("m")>>)),
           Loc1("before", e), set, Ret(<<Nm("before"), e>>) >>
          : e \in {Dot("o", "k"), Bin("==", Nm("o"), Nm("q"))},
            set \in {Set1(Dot("m", "__index"), Tab(<<<<"field", Str("k"), Num(4)>>>>)),
                     Do("rawset", <<Nm("m"), Str("__index"), Tab(<<<<"field", Str("k"), Num(4)>>>>)>>),
                     Set1(Dot("m", "__eq"), Fun(<<>>, <<Ret(<<Num(1)>>)>>)),
                     Do("setmetatable", <<Nm("q"), Tab(<<Mt("__eq", Num(1))>>)>>)}}
  \cup {<< Loc1("m", Tab(<<>>)), Loc1("o", Do("setmetatable", <<Tab(<<>>), Nm("m")>>)), Set1(Dot("o", "a"), Num(1)),
           Set1(Dot("m", "__newindex"), Nm("m")), Set1(Dot("o", "b"), Num(2)), Ret(<<Dot("o", "a"), Dot("o", "b"), Dot("m", "b")>>) >>}

-----------------------------------------------------------------------------
(* Errors, alone and caught, in every kind of call *)

Failing == { Do("error", <<Str("e")>>), Get(NilE, Num(1)), CallE(<<"paren", Num(1)>>, <<>>), Plus(NilE, Num(1)),
             Bin("..", Tab(<<>>), Num(1)), Bin("<", NilE, Num(1)), <<"un", "#", Num(1)>>, Tab(<<<<"field", NilE, Num(1)>>>>),
             Do("setmetatable", <<Num(1)>>), Do("select", <<Num(0)>>) }
ErrorPrograms ==
  {<<Ret(<<Do("pcall", <<Fun(<<>>, <<Ret(<<e>>)>>)>>), Num(1)>>)>> : e \in Failing}
  \cup {<<Ret(<<e>>)>> : e \in Failing}
  \* the variables of the blocks that were left stay with their closures
  \cup {<< Loc(<<"k", "n">>, <<NilE, Num(0)>>),
           Loc(<<"ok", "e">>, <<Do("pcall", <<Fun(<<"x">>, <<Let1("k", Fun(<<>>, <<Let1("x", Plus(Nm("x"), Num(1))), Ret(<<Nm("x")>>)>>)), stop>>), Num(5)>>)>>),
           Loc(<<"p", "q">>, <<Num(8), Num(9)>>), Ret(<<Nm("ok"), Nm("e"), Do("k", <<>>), Do("k", <<>>), Nm("p")>>) >>
          : stop \in {Do("error", <<Str("e")>>), Ret(<<Do("error", <<Str("e")>>)>>), Ret(<<Num(3)>>),
                      <<"fornum", "i", Num(1), Str("x"), Num(1), <<>>>>,
                      <<"forin", <<"i">>, <<Fun(<<>>, <<Do("error", <<Str("f")>>)>>)>>, <<>>>>,
                      <<"forin", <<"i">>, <<Nm("error"), Str("g")>>, <<>>>>,
                      Let1("n", Plus(Do("setmetatable", <<Tab(<<>>), Tab(<<Handles("__add", Fun(<<>>, <<Do("error", <<Str("h")>>)>>))>>)>>), Num(1))),
                      Do("pcall", <<Nm("error"), Str("i")>>)}}
  \cup {<<Ret(<<Do("pcall", <<Nm("pcall")>>), Do("pcall", <<Nm("pcall"), Nm("error"), Str("e")>>)>>)>>,
        <<Ret(<<Do("pcall", <<>>)>>)>>,
        <<Let1("t", Tab(<<>>)), Ret(<<Do("pcall", <<Fun(<<>>, <<Set1(Get(Nm("t"), Bin("/", Num(0), Num(0))), Num(1))>>)>>)>>)>>}

-----------------------------------------------------------------------------
(* What the parser refuses: too much of anything, and broken text. *)

NamesOf(n) == [j \in 1..n |-> <<"va", "vb", "vc", "vd", "ve", "vf", "vg", "vh", "vi", "vj">>[j]]
RECURSIVE Deep(_, _)
Deep(n, e) == IF n = 0 THEN e ELSE <<"paren", Deep(n - 1, e)>>
Limited(stats, n, limit, why) == [stats |-> stats, refused |-> IF n > limit THEN why ELSE ""]
LimitPrograms ==
  {Limited(<<Loc(NamesOf(n), <<>>)>>, n, LUAI_MAXVARS, "too many") : n \in {LUAI_MAXVARS, LUAI_MAXVARS + 1}}
  \cup {Limited(<<Loc(NamesOf(n), <<Num(1)>>), Ret(<<Fun(<<>>, <<Ret([j \in 1..n |-> Nm(NamesOf(n)[j])])>>)>>)>>, n, LUAI_MAXUPVALUES, "too many")
          : n \in {LUAI_MAXUPVALUES, LUAI_MAXUPVALUES + 1}}
  \* the chunk and the statement's expression take two levels
  \cup {Limited(<<Ret(<<Deep(n, Num(1))>>)>>, n + 2, LUAI_MAXCCALLS, "too many syntax levels") : n \in {LUAI_MAXCCALLS - 2, LUAI_MAXCCALLS - 1}}
  \* the function and n arguments in registers
  \cup {Limited(<<Ret(<<Do("f", [j \in 1..n |-> Num(j)])>>)>>, n + 1, MAXSTACK - 1, "function or expression too complex")
          : n \in {MAXSTACK - 2, MAXSTACK - 1}}
  \cup {[stats |-> stats, refused |-> why] : <<stats, why>> \in {
       << << <<"break">> >>, "no loop to break">>,
       << << <<"do", <<If(Num(1), << <<"break">> >>)>>>> >>, "no loop to break">>,
       << <<Ret(<<Num(1)>>), Ret(<<Num(2)>>)>>, "syntax error">>,
       << <<Local_f(<<>>, <<Ret(<<Dots>>)>>)>>, "syntax error">>,
       << << <<"text", T("(") \o Name("va") \o T(")")>> >>, "syntax error">>,
       << << <<"text", Name("va") \o T("=")>> >>, "syntax error">>,
       << << <<"text", Parens(Name("f") \o T("(") \o T(")")) \o T("=") \o <<<<"NUMBER", 1>>>>>> >>, "syntax error">> }}

-----------------------------------------------------------------------------
(* The libraries.  The characters of their programs, in the order of ASCII *)

Alphabet_ == <<NUL, " ", "$", "%", "(", ")", "*", "-", ".", "1", "2", "3", "<", "=", ">", "?", "B", "[", "]", "^", "_",
               "a", "b", "c", "e", "k", "w", "x", "{", "}">>
CharClass_ == [a |-> {"B", "a", "b", "c", "e", "k", "w", "x"}, c |-> {NUL}, d |-> {"1", "2", "3"}, l |-> {"a", "b", "c", "e", "k", "w", "x"},
               p |-> ToSet(Alphabet_) \ {NUL, " ", "1", "2", "3", "B", "a", "b", "c", "e", "k", "w", "x"}, s |-> {" "}, u |-> {"B"},
               w |-> {"1", "2", "3", "B", "a", "b", "c", "e", "k", "w", "x"}, x |-> {"1", "2", "3", "B", "a", "b", "c", "e"}, z |-> {NUL}]

Lib(lib, name, args) == CallE(Dot(lib, name), args)
Meth(e, name, args) == <<"method", e, name, args>>
Signed(n) == IF n < 0 THEN <<"un", "-", Num(-n)>> ELSE Num(n)
Nums(ns) == List([j \in DOMAIN ns |-> Num(ns[j])])
T_(n) == Get(Nm("t"), Num(n))

\* All lists of n numbers, and longer ones; powers of ten, so that a sum
\* tells what is in a list in whatever order.
Orders(n) == {f \in [1..n -> {1, 10, 100, 1000, 10000}] : \A i, j \in 1..n : f[i] < 10^n /\ (i # j => f[i] # f[j])}
Lists == Orders(5) \cup Orders(2) \cup Orders(3) \cup Orders(4) \cup [1..4 -> {1, 10}]
         \cup {<<10, 1, 100, 10000, 1000>>, <<10000, 1000, 100, 10, 1>>, <<1, 10, 100, 1000, 10000>>, <<1000, 1, 10000, 10, 100>>,
               <<1, 1, 10, 10, 1>>, <<10, 100, 10, 1, 10>>, <<5, 3, 1, 6, 4, 2>>, <<2, 1, 2, 1, 2, 1>>, <<3, 7, 1, 6, 2, 5, 4>>, <<>>, <<1>>}
Shows(n) == Ret([j \in 1..(n + 1) |-> T_(j)])
SumOf(n) == FoldLeft(LAMBDA e, j : Plus(e, T_(j)), T_(1), [j \in 1..(n - 1) |-> j + 1])
Less2(body) == Fun(<<"x", "y">>, body)
\* Comparisons that are no order, and that fail: at once, or in the n-th call.
Disorders(n) == {Less2(<<Ret(<<<<"true">>>>)>>), Less2(<<Do("error", <<Str("e")>>)>>),
                 Less2(<<Let1("n", Plus(Nm("n"), Num(1))), If(Bin("==", Nm("n"), Num(n)), <<Do("error", <<Str("e")>>)>>), Ret(<<Bin("<", Nm("x"), Nm("y"))>>)>>)}
SortPrograms ==
  {<<Loc1("t", Nums(ns)), Lib("table", "sort", <<Nm("t")>>), Shows(Len(ns))>> : ns \in Lists}
  \cup {<<Loc1("t", Nums(ns)), Lib("table", "sort", <<Nm("t"), Less2(<<Ret(<<Bin(">", Nm("x"), Nm("y"))>>)>>)>>), Shows(Len(ns))>> : ns \in Orders(4)}
  \cup {<<Loc(<<"t", "n">>, <<Nums(ns), Num(0)>>), Do("pcall", <<Dot("table", "sort"), Nm("t"), f>>), Ret(<<SumOf(Len(ns))>>)>>
          : ns \in {<<10, 1, 1000, 100>>, <<1, 10, 100, 1000, 10000>>}, f \in UNION {Disorders(n) : n \in 1..8}}
  \cup {<<Loc1("t", Nums(ns)), Ret(<<Do("pcall", <<Dot("table", "sort"), Nm("t"), Less2(<<Do("error", <<Str("e")>>)>>)>>)>>)>> : ns \in {<<1>>, <<2, 1>>}}
  \cup {<<Loc1("t", List([j \in DOMAIN ws |-> Str(ws[j])])), Lib("table", "sort", <<Nm("t")>>), Shows(Len(ws))>>
          : ws \in {<<"b", "a", "ab">>, <<"a", "aa", "", "B">>, <<"ba", "b", "ab", "a", "bb">>}}
  \cup {<<Loc1("t", List(<<Num(2), Str("a"), Num(1)>>)), Ret(<<Do("pcall", <<Dot("table", "sort"), Nm("t")>>)>>)>>}
  \* objects with a metamethod
  \cup {<<Loc1("m", Tab(<<Handles("__lt", Less2(<<Ret(<<Bin("<", Dot("x", "k"), Dot("y", "k"))>>)>>))>>)),
          Loc1("t", List([j \in DOMAIN ns |-> Do("setmetatable", <<Tab(<<<<"field", Str("k"), Num(ns[j])>>>>), Nm("m")>>)])),
          Lib("table", "sort", <<Nm("t")>>), Ret([j \in DOMAIN ns |-> Get(T_(j), Str("k"))])>> : ns \in {<<2, 1>>, <<2, 3, 1>>, <<3, 1, 4, 2>>}}

TableCalls(ns) == {Lib("table", "insert", <<Nm("t"), Num(5)>>), Lib("table", "remove", <<Nm("t")>>), Lib("table", "maxn", <<Nm("t")>>),
                   Lib("table", "getn", <<Nm("t")>>), Lib("table", "insert", <<Nm("t")>>), Lib("table", "insert", <<Nm("t"), Str("a"), Num(5)>>)}
                  \cup {Lib("table", "insert", <<Nm("t"), Num(n), Num(5)>>) : n \in 1..Len(ns) + 1}
                  \cup {Lib("table", "remove", <<Nm("t"), Num(n)>>) : n \in 0..4}
TablePrograms ==
  UNION {{<<Loc1("t", Nums(ns)), Loc1("r", e), Ret(<<Nm("r"), T_(1), T_(2), T_(3), T_(4), T_(5), <<"un", "#", Nm("t")>>>>)>> : e \in TableCalls(ns)}
         : ns \in {<<>>, <<7>>, <<7, 8, 9>>}}
  \cup {<<Loc1("t", List(<<Num(1), Str("a"), Num(2)>>)), Ret(<<Lib("table", "concat", <<Nm("t")>> \o args)>>)>>
    : args \in {<<>>, <<Str("-")>>, <<Num(3)>>, <<Str("-"), Num(2)>>, <<Str("-"), Num(2), Num(2)>>, <<Str("-"), Num(3), Num(2)>>,
                <<NilE, Num(2), Num(4)>>, <<Tab(<<>>)>>}}
  \cup {<<Ret(<<Do("pcall", <<Dot("table", name), e>>)>>)>>
    : name \in {"concat", "getn", "maxn", "insert", "remove", "setn", "sort", "foreachi"}, e \in {Num(1), List(<<Tab(<<>>)>>)}}
  \cup {<<Loc1("t", Tab(<<<<"field", Str("k"), Num(9)>>, <<"field", Signed(-2), Num(9)>>, <<"field", Num(6), Num(9)>>>>)), Ret(<<Lib("table", "maxn", <<Nm("t")>>)>>)>>}
  \cup {<<Loc(<<"t", "n">>, <<Nums(<<7, 8, 9>>), Num(0)>>),
          Loc1("r", Lib("table", "foreachi", <<Nm("t"), Fun(<<"i", "v">>, <<Let1("n", Plus(Nm("n"), Nm("v"))), stop>>)>>)), Ret(<<Nm("r"), Nm("n")>>)>>
    : stop \in {Set1(T_(3), Num(1)), If(Bin("==", Nm("i"), Num(2)), <<Ret(<<Str("k"), Num(1)>>)>>), Let1("n", Plus(Nm("n"), NilE))}}

-----------------------------------------------------------------------------
(* Strings and patterns *)

Subs == {<<i, j>> : i \in -4..4, j \in {-4, -1, 0, 2, 4}}
StringPrograms ==
  {<<Loc1("s", Str("abc")), Ret(<<Meth(Nm("s"), "sub", <<Signed(p[1]), Signed(p[2])>>), Meth(Nm("s"), "sub", <<Signed(p[1])>>)>>)>> : p \in Subs}
  \cup {<<Ret(<<Meth(Str(x), "len", <<>>), Meth(Str(x), "rep", <<Signed(n)>>), Meth(Str(x), "reverse", <<>>), <<"un", "#", Str(x)>>>>)>>
    : x \in {"", "a", "abc"}, n \in -1..2}
  \cup {<<Ret(<<Do("pcall", <<Dot("string", name), e>>)>>)>>
    : name \in {"len", "rep", "reverse", "sub", "find", "match", "gmatch", "gsub"}, e \in {NilE, Num(12)}}
  \cup {<<Ret(<<Meth(Str("aab.b"), "find", args)>>)>>
    : args \in {<<Str("b")>>, <<Str("b"), Num(4)>>, <<Str("b"), Signed(-1)>>, <<Str("b"), Num(9)>>, <<Str("")>>, <<Str(""), Num(9)>>, <<Str("ab")>>,
                <<Str(".")>>, <<Str("."), Num(1), <<"true">>>>, <<Str("."), Num(5), <<"true">>>>, <<Str("b."), Num(1), NilE>>, <<Str("bb")>>}}
  \cup {<<Ret(<<Bin("<", Str(x), Str(y)), Bin("<=", Str(x), Str(y))>>)>> : x, y \in {"", "a", "ab", "b"}}
  \cup {<<Loc1("s", Str("a")), Set1(Dot("s", "k"), Num(1))>>, <<Ret(<<Get(<<"paren", Str("a")>>, Str("k"))>>)>>, <<Ret(<<Plus(Str("a"), Num(1))>>)>>}

\* All texts of up to three of these characters, and others that say more.
PatternChars == {"a", ".", "*", "-", "(", ")", "%", "1", "[", "]", "^", "$", "?"}
ShortTexts == {<<x>> : x \in PatternChars} \cup {<<x, y>> : x, y \in PatternChars} \cup {<<x, y, z>> : x, y, z \in PatternChars}
Texts == {"", "(a*)b", "(a-)b", "(a*(.)%1)", "(.)%1", "((a)(b))", "(a)(b)(a)(a)", "a?b?", "(a?)(a?)(b)", "%w+", "%a-b", "[ab]+", "[^b]*b", "[a-b]",
          "[%a]$", "[^%s]", "[a-]", "[]]", "[^]]", "%bab", "%b()", "%baa", "%f[a]", "%f[%W]", "%f[^b]()", "(a()b)", "()", "()()", "a+$", "^a+",
          "^(a)(.-)$", "(a*)%1b", ".-b", "a.-()", "%.", "%S+", "%A", "%Z", "%D", "%P", "%L", "%U", "%X", "%C*", "%u", "%x", "%p", "(a", "a)", "%0", "[a",
          "[%", "%b", "%ba", "%fa", "%f[", "[^", "(a*)(a*)", "(a-)(a-)b", "(a*)a(a*)", "((a)%2)", "(.-)(%1)", "[%]]", "a*b*", "x*"}
Finds(p) == <<Loc1("p", Str(p)), Loc(<<"i", "j", "x">>, <<Meth(Str("aab"), "find", <<Nm("p")>>)>>), Loc1("m", Meth(Str("a(b)aa"), "match", <<Nm("p"), Num(2)>>)),
              Ret(<<Nm("i"), Nm("j"), Nm("x"), Nm("m"), Meth(Str("aab"), "gsub", <<Nm("p"), Str("<%1>")>>)>>)>>
Values_ == {Str("x"), Str("%0%0"), Str("%2"), Str("%%"), Num(1), Str(""), Tab(<<<<"field", Str("a"), Str("x")>>, <<"field", Str("b"), <<"false">>>>>>),
            Tab(<<<<"field", Str("a"), Tab(<<>>)>>>>), Do("setmetatable", <<Tab(<<>>), Tab(<<Handles("__index", Fun(<<"_", "k">>, <<Ret(<<Bin("..", Nm("k"), Str("k"))>>)>>))>>)>>),
            Fun(<<"x", "y">>, <<Ret(<<Bin("and", Nm("y"), Bin("..", Nm("y"), Nm("x")))>>)>>), Fun(<<>>, <<Do("error", <<Str("e")>>)>>),
            Fun(<<"x">>, <<Let1("n", Plus(Nm("n"), Num(1))), Ret(<<Nm("n")>>)>>), Dot("string", "len"), <<"true">>}
Gsubs == {"a", "", "a*", "(a)", "(a)(.)", "()", "^a", "%w", "x*", "b$", "%w+"}
PatternPrograms ==
  {Finds(FoldLeft(LAMBDA x, y : x \o y, "", t)) : t \in ShortTexts} \cup {Finds(p) : p \in Texts}
  \cup {<<Loc1("n", Num(0)), Loc(<<"s", "k">>, <<Meth(Str("aab"), "gsub", <<Str(p), v>>)>>), Ret(<<Nm("s"), Nm("k"), Nm("n")>>)>> : p \in Gsubs, v \in Values_}
  \cup {<<Ret(<<Meth(Str("aaba"), "gsub", <<Str(p), Str("x"), Signed(n)>>)>>)>> : p \in {"a", "", "a-b"}, n \in -1..2}
  \cup {<<Loc1("t", Tab(<<>>)), <<"forin", <<"x", "y">>, <<Meth(Str("aab a"), "gmatch", <<Str(p)>>)>>,
            <<Lib("table", "insert", <<Nm("t"), Nm("x")>>), Lib("table", "insert", <<Nm("t"), Bin("or", Nm("y"), Str("_"))>>)>>>>,
          Ret(<<Lib("table", "concat", <<Nm("t"), Str(" ")>>)>>)>> : p \in {"a", "%w+", "(a)(.)", "()", "a*", "", "^a", "(", "%s", "x"}}

LibraryPrograms == SortPrograms \cup TablePrograms \cup StringPrograms \cup PatternPrograms

-----------------------------------------------------------------------------

Plain(set) == {[stats |-> stats, refused |-> ""] : stats \in set}
Programs_ == UNION {Plain(ConditionPrograms), Plain(ContextPrograms), Plain(FigurePrograms), Plain(AssignPrograms), Plain(ConstructorPrograms),
                    Plain(CallPrograms), Plain(LoopPrograms), Plain(FunctionPrograms), Plain(MetaPrograms), Plain(ErrorPrograms), LimitPrograms,
                    Plain(LibraryPrograms)}

FromSource == [dumped |-> FALSE, piece |-> 0, strip |-> FALSE, cut |-> 0]

\* A constructor of n items after a comparison that jumps to its end.
LongConstructors == Plain({<< Loc1("c", Num(2)), Loc1("t", Bin("or", Bin("==", Nm("c"), Num(k)), List([j \in 1..n |-> Num(j)]))),
                              Ret(<<Get(Nm("t"), Num(n))>>) >> : k \in 1..2, n \in 1..33})
OnlySource(p) == {FromSource}

\* Programs with functions are also dumped, whole and cut short.
Dumped == Plain(FunctionPrograms) \cup Plain(LoopPrograms) \cup Plain(FigurePrograms)
Loads_(p) == {FromSource} \cup
  IF p \in Dumped THEN {[dumped |-> TRUE, piece |-> piece, strip |-> strip, cut |-> cut] :
                        <<piece, strip, cut>> \in {<<3, FALSE, 0>>, <<50, TRUE, 0>>, <<7, FALSE, 1>>, <<4, TRUE, 40>>}}
  ELSE {}
=============================================================================
