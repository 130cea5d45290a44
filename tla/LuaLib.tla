------------------------------- MODULE LuaLib -------------------------------
(***************************************************************************)
(* The libraries of strings and tables (lstrlib.c, ltablib.c).             *)
(*                                                                         *)
(* A function that calls others - a comparison of sort, a replacement of   *)
(* gsub - is a frame of the machine that keeps in c where it is, and has   *)
(* an action that takes the result from the top of its stack and goes on   *)
(* to the next call: what the called function does comes in between.       *)
(***************************************************************************)
EXTENDS LuaVM, LuaCaptures

CONSTANTS Matcher(_, _, _),    \* where the pattern from p on matches at s (match), as [ms, s]
          Finder(_, _, _, _)   \* where it matches first, as [s, e, ms]

-----------------------------------------------------------------------------
(* Arguments (lauxlib.c) *)

IsStr(args, i) == CanStr(Arg(args, i))
IsInt(args, i) == luaV_tonumber(Arg(args, i)) # Nil
IsGiven(args, i) == Arg(args, i) # Nil
IntArg(args, i) == luaV_tonumber(Arg(args, i))[2]
luaL_optinteger(args, i, default) == IF IsGiven(args, i) THEN IntArg(args, i) ELSE default
OptInt(args, i) == IsGiven(args, i) => IsInt(args, i)

Chars(v) == LET t == ToStr(v) IN [j \in 1..Len(t) |-> SubSeq(t, j, j)]
Glued(chars) == FoldLeft(LAMBDA t, c : t \o c, "", chars)
String(chars) == <<"string", Glued(chars)>>
Number(n) == <<"number", n>>
AsValue(capture) == IF capture[1] = "string" THEN String(capture[2]) ELSE capture

\* l_strcmp, where the locale orders characters by their codes.
StrLess_(a, b) ==
  LET x == Chars(<<"string", a>>)
      y == Chars(<<"string", b>>)
      differ == {k \in 1..(Len(x) + 1) : CharAt(x, k) # CharAt(y, k)}
      first == CHOOSE k \in differ : \A m \in differ : k <= m
  IN  differ # {} /\ uchar(CharAt(x, first)) < uchar(CharAt(y, first))

-----------------------------------------------------------------------------
(* Strings *)

posrelat(pos, len) == LargestOf(IF pos < 0 THEN pos + len + 1 ELSE pos, 0)

str_len(s, args) == IF IsStr(args, 1) THEN Results(s, <<Number(Len(Chars(Arg(args, 1))))>>) ELSE Failure(s, "argument")

str_sub(s, args) ==
  LET chars == Chars(Arg(args, 1))
      start == LargestOf(posrelat(IntArg(args, 2), Len(chars)), 1)
      e     == posrelat(luaL_optinteger(args, 3, -1), Len(chars))
      end   == IF e > Len(chars) THEN Len(chars) ELSE e
  IN  IF ~IsStr(args, 1) \/ ~IsInt(args, 2) \/ ~OptInt(args, 3) THEN Failure(s, "argument")
      ELSE Results(s, <<String(SubSeq(chars, start, end))>>)

str_reverse(s, args) == IF IsStr(args, 1) THEN Results(s, <<String(Reverse(Chars(Arg(args, 1))))>>) ELSE Failure(s, "argument")

str_rep(s, args) ==
  IF ~IsStr(args, 1) \/ ~IsInt(args, 2) THEN Failure(s, "argument")
  ELSE Results(s, <<String(FlattenSeq([j \in 1..LargestOf(IntArg(args, 2), 0) |-> Chars(Arg(args, 1))]))>>)

\* push_captures, with the error of one that has none.
Captured(s, first, captures) ==
  LET bad == SelectSeq(captures, LAMBDA v : v[1] = "error")
  IN  IF bad # <<>> THEN Failure(s, bad[1][2]) ELSE Results(s, first \o [j \in DOMAIN captures |-> AsValue(captures[j])])

\* Where p is in src for the first time, past init characters.
lmemfind(src, p, init) ==
  LET at == {j \in (init + 1)..(Len(src) - Len(p) + 1) : SubSeq(src, j, j + Len(p) - 1) = p}
  IN  IF at = {} THEN 0 ELSE CHOOSE j \in at : \A i \in at : j <= i

FoundPlain(s, at, len) == Results(s, IF at = 0 THEN <<Nil>> ELSE <<Number(at), Number(at + len - 1)>>)
FoundMatch(s, m, find) ==
  CASE m.ms.err # "" -> Failure(s, m.ms.err)
    [] m.ms.err = "" /\ m.e = NoMatch -> Results(s, <<Nil>>)
    [] OTHER -> IF find THEN Captured(s, <<Number(m.s), Number(m.e - 1)>>, push_captures(m.ms, NoMatch, NoMatch))
                ELSE Captured(s, <<>>, push_captures(m.ms, m.s, m.e))
Search(src, pat, s1, anchor) == Finder(MatchState(src, pat), s1, IF anchor THEN 2 ELSE 1, anchor)
str_find_aux(s, args, find) ==
  LET src  == Chars(Arg(args, 1))
      pat  == Chars(Arg(args, 2))
      from == LargestOf(posrelat(luaL_optinteger(args, 3, 1), Len(src)) - 1, 0)
      init == IF from > Len(src) THEN Len(src) ELSE from
      plain == find /\ (~IsFalse(Arg(args, 4)) \/ ToSet(pat) \cap SPECIALS = {})
  IN  CASE ~IsStr(args, 1) \/ ~IsStr(args, 2) \/ ~OptInt(args, 3) -> Failure(s, "argument")
        [] OTHER -> IF plain THEN FoundPlain(s, lmemfind(src, pat, init), Len(pat))
                    ELSE FoundMatch(s, Search(src, pat, init + 1, CharAt(pat, 1) = "^"), find)

\* The iterator keeps the subject, the pattern and where to go on: its
\* upvalues are a table of their own here.
gmatch(s, args) ==
  LET up == NewTable(s, With([x \in {Number(1), Number(2)} |-> Arg(args, x[2])], Number(3), Number(0)))
  IN  IF IsStr(args, 1) /\ IsStr(args, 2) THEN Results(up, <<<<"cfunction", "gmatch_aux", Len(up.tabs)>>>>) ELSE Failure(s, "argument")

\* Mutant: the next search leaves out the character after any match.
newstart_Past(m) == m.e
newstart(m) == IF m.e = m.s THEN m.e ELSE m.e - 1

NextMatch(s, t, m) ==
  CASE m.ms.err # "" -> Failure(s, m.ms.err)
    [] m.ms.err = "" /\ m.e = NoMatch -> Results(s, <<>>)
    [] OTHER -> Captured(RawSet(s, t, Number(3), Number(newstart(m))), <<>>, push_captures(m.ms, m.s, m.e))
gmatch_aux(f, s) ==
  LET t   == <<"table", f[3]>>
      src == Chars(RawGet(s, t, Number(1)))
      from == RawGet(s, t, Number(3))[2]
  IN  IF from > Len(src) THEN Results(s, <<>>)
      ELSE NextMatch(s, t, Finder(MatchState(src, Chars(RawGet(s, t, Number(2)))), from + 1, 1, FALSE))

\* gsub: n replacements so far, out before src[pos].
str_gsub(s, args) ==
  LET src == Chars(Arg(args, 1))
      pat == Chars(Arg(args, 2))
      anchor == CharAt(pat, 1) = "^"
  IN  IF ~IsStr(args, 1) \/ ~IsStr(args, 2) \/ Arg(args, 3)[1] \notin {"number", "string", "function", "cfunction", "table"} \/ ~OptInt(args, 4)
      THEN Failure(s, "argument")
      ELSE CallsBack(s, [op |-> "gsub", pos |-> 1, e |-> NoMatch, n |-> 0, out |-> <<>>, src |-> src, pat |-> pat,
                         anchor |-> anchor, max_s |-> luaL_optinteger(args, 4, Len(src) + 1), repl |-> Arg(args, 3)])

\* add_s: the replacement with the captures its %1 to %9 name, or an error.
add_s(ms, news, s, e) ==
  LET Add(acc, i) ==
        LET c == CharAt(news, i + 1)
            v == IF c = "0" THEN <<"string", SubSeq(ms.src, s, e - 1)>> ELSE push_onecapture(ms, CaptureIndex(c), s, e)
        IN  CASE acc.err # "" \/ acc.skip -> [acc EXCEPT !.skip = FALSE]
              [] acc.err = "" /\ ~acc.skip /\ news[i] # "%" -> [acc EXCEPT !.out = Append(@, news[i])]
              [] OTHER -> CASE ~isdigit(c) -> [acc EXCEPT !.out = Append(@, c), !.skip = TRUE]
                            [] isdigit(c) /\ v[1] = "error" -> [acc EXCEPT !.err = v[2]]
                            [] OTHER -> [acc EXCEPT !.out = @ \o Chars(AsValue(v)), !.skip = TRUE]
  IN  FoldLeft(Add, [out |-> <<>>, skip |-> FALSE, err |-> ""], [i \in DOMAIN news |-> i])

-----------------------------------------------------------------------------
(* Tables *)

lua_rawgeti(s, t, i) == RawGet(s, t, Number(i))
lua_rawseti(s, t, i, v) == RawSet(s, t, Number(i), v)
IsTab(args) == IsTable(Arg(args, 1))

\* count elements move up by step, one after the other: first gets the value
\* of first - step, and so on.
Moves(s, t, first, step, count) ==
  LET Moved[n \in 0..count] ==
        LET i == first - (n - 1) * step
        IN  IF n = 0 THEN s ELSE lua_rawseti(Moved[n - 1], t, i, lua_rawgeti(Moved[n - 1], t, i - step))
  IN  IF count \in Nat THEN Moved[count] ELSE s

tinsert(s, args) ==
  LET t == Arg(args, 1)
      n == luaH_getn(s, t) + 1
      pos == IF Len(args) = 2 THEN n ELSE IntArg(args, 2)
      e == LargestOf(n, pos)
      moved == Moves(s, t, e, 1, e - pos)                       \* move up elements
  IN  CASE ~IsTab(args) -> Failure(s, "argument")
        [] IsTab(args) /\ Len(args) \notin 2..3 -> Failure(s, "wrong number of arguments")
        [] OTHER -> IF Len(args) = 3 /\ ~IsInt(args, 2) THEN Failure(s, "argument")
                    ELSE Results(lua_rawseti(moved, t, pos, Last(args)), <<>>)

tremove(s, args) ==
  LET t == Arg(args, 1)
      e == luaH_getn(s, t)
      pos == luaL_optinteger(args, 2, e)
      moved == Moves(s, t, pos, -1, e - pos)
  IN  CASE ~IsTab(args) \/ ~OptInt(args, 2) -> Failure(s, "argument")
        [] IsTab(args) /\ OptInt(args, 2) /\ pos \notin 1..e -> Results(s, <<>>)
        [] OTHER -> Results(lua_rawseti(moved, t, e, Nil), <<lua_rawgeti(s, t, pos)>>)

tconcat(s, args) ==
  LET t == Arg(args, 1)
      sep == IF IsGiven(args, 2) THEN ToStr(Arg(args, 2)) ELSE ""
      i == luaL_optinteger(args, 3, 1)
      last == luaL_optinteger(args, 4, luaH_getn(s, t))
      fields == [j \in 1..LargestOf(last - i + 1, 0) |-> lua_rawgeti(s, t, i + j - 1)]
      Add(text, j) == text \o (IF j = 1 THEN "" ELSE sep) \o ToStr(fields[j])
  IN  CASE ~IsTab(args) \/ (IsGiven(args, 2) /\ ~IsStr(args, 2)) \/ ~OptInt(args, 3) \/ ~OptInt(args, 4) -> Failure(s, "argument")
        [] OTHER -> IF \E v \in ToSet(fields) : ~CanStr(v) THEN Failure(s, "invalid value")
                    ELSE Results(s, <<<<"string", FoldLeft(Add, "", [j \in DOMAIN fields |-> j])>>>>)

maxn(s, args) ==
  LET keys == {x[2] : x \in {y \in DOMAIN s.tabs[Arg(args, 1)[2]].map : IsNumber(y)}} \cup {0}
  IN  IF IsTab(args) THEN Results(s, <<Number(CHOOSE n \in keys : \A m \in keys : m <= n)>>) ELSE Failure(s, "argument")
getn(s, args) == IF IsTab(args) THEN Results(s, <<Number(luaH_getn(s, Arg(args, 1)))>>) ELSE Failure(s, "argument")
setn(s, args) == Failure(s, IF IsTab(args) THEN "obsolete" ELSE "argument")

foreachi(s, args) ==
  IF IsTab(args) /\ IsFunction(Arg(args, 2))
  THEN CallsBack(s, [op |-> "foreachi", i |-> 0, n |-> luaH_getn(s, Arg(args, 1)), t |-> Arg(args, 1), f |-> Arg(args, 2)])
  ELSE Failure(s, "argument")

\* sort: the part l..u is being sorted, and then those in rest; at says which
\* comparison is waited for.
sort(s, args) ==
  IF IsTab(args) /\ (IsGiven(args, 2) => IsFunction(Arg(args, 2)))
  THEN CallsBack(s, [op |-> "sort", at |-> "begin", l |-> 1, u |-> luaH_getn(s, Arg(args, 1)), i |-> 0, j |-> 0, rest |-> <<>>,
                     x |-> Nil, y |-> Nil, P |-> Nil, a |-> Nil, t |-> Arg(args, 1), f |-> Arg(args, 2)])
  ELSE Failure(s, "argument")

-----------------------------------------------------------------------------
(* Functions that call.  Done is the running function, with what the call  *)
(* it made has left on top of the stack.                                   *)

Doing(op) == Active /\ Ci(L).k = NoK /\ Ci(L).c.op = op
C == Ci(L).c
Done == [L EXCEPT !.top = @ - 1]

\* lua_call with one result, which is left on top.
lua_call(s, c, f, args) ==
  luaD_call([SetC(Put(s, s.top, <<f>> \o args), c) EXCEPT !.top = @ + 1 + Len(args)], s.top, 1)

Foreachi ==
  LET stop == C.i > 0 /\ Result # Nil
      s == IF C.i > 0 THEN Done ELSE L
      i == C.i + 1
  IN  /\ Doing("foreachi")
      /\ L' = CASE stop -> CReturn(L, <<Result>>)
                [] ~stop /\ i > C.n -> CReturn(s, <<>>)
                [] OTHER -> lua_call(s, [C EXCEPT !.i = i], C.f, <<Number(i), lua_rawgeti(s, C.t, i)>>)
      /\ UNCHANGED Idle

\* After the replacement of src[pos..e-1], or of nothing if e is 0: a match
\* that was not empty is skipped, else a character is kept.
GsubNext(c, out) ==
  LET kept == c.pos <= Len(c.src)
      next == CASE c.e > c.pos -> [c EXCEPT !.pos = c.e, !.out = out]
                [] c.e <= c.pos /\ kept -> [c EXCEPT !.pos = @ + 1, !.out = Append(out, c.src[c.pos])]
                [] OTHER -> [c EXCEPT !.max_s = 0, !.out = out]
  IN  IF c.anchor THEN [next EXCEPT !.max_s = 0, !.e = NoMatch] ELSE [next EXCEPT !.e = NoMatch]

\* add_value: a string is put in at once, a function or a table is asked.
AddString(found, news) == IF news.err # "" THEN Throw(L, news.err) ELSE SetC(L, GsubNext(found, found.out \o news.out))
AskFunction(found, args) == IF args.err # "" THEN Throw(L, args.err) ELSE lua_call(L, found, found.repl, args.r)
AskTable(found, key) ==
  IF key.err # "" THEN Throw(L, key.err)
  ELSE luaV_gettable([SetC(L, found) EXCEPT !.top = @ + 1], found.repl, key.r[1], L.top)
add_value(found, m) ==
  CASE CanStr(found.repl) -> AddString(found, add_s(m.ms, Chars(found.repl), found.pos, m.s))
    [] IsFunction(found.repl) -> AskFunction(found, Captured(L, <<>>, push_captures(m.ms, found.pos, m.s)))
    [] OTHER -> AskTable(found, Captured(L, <<>>, <<push_onecapture(m.ms, 0, found.pos, m.s)>>))

\* The loop of str_gsub at one position, where the match m was tried.
AfterMatch(m) ==
  CASE m.ms.err # "" -> Throw(L, m.ms.err)
    [] m.ms.err = "" /\ m.s = NoMatch -> SetC(L, GsubNext(C, C.out))
    [] OTHER -> add_value([C EXCEPT !.n = @ + 1, !.e = m.s], m)
GsubMatch ==
  /\ Doing("gsub") /\ C.e = NoMatch
  /\ L' = IF C.n >= C.max_s THEN CReturn(L, <<String(C.out \o SubSeq(C.src, C.pos, Len(C.src))), Number(C.n)>>)
          ELSE AfterMatch(Matcher(MatchState(C.src, C.pat), C.pos, IF C.anchor THEN 2 ELSE 1))
  /\ UNCHANGED Idle

\* add_value, when the function or the table has given its value.
GsubReplace ==
  LET text == IF IsFalse(Result) THEN SubSeq(C.src, C.pos, C.e - 1) ELSE Chars(Result)
  IN  /\ Doing("gsub") /\ C.e # NoMatch
      /\ L' = IF ~IsFalse(Result) /\ ~CanStr(Result) THEN Throw(L, "invalid replacement value")
              ELSE SetC(Done, GsubNext(C, C.out \o text))
      /\ UNCHANGED Idle

-----------------------------------------------------------------------------
(* auxsort.  A comparison is made of x and y, and its result is left on    *)
(* top of the stack; both are held while it is made.                       *)

\* set2: the top of the stack goes to i, the value below it to j.
set2(s, c, i, top, j, below) == lua_rawseti(lua_rawseti(s, c.t, i, top), c.t, j, below)

\* What auxsort does next: a comparison of x and y, or its end.
Compares(s, c, at, x, y) == [s |-> s, c |-> [c EXCEPT !.at = at, !.x = x, !.y = y]]
Ends(s, c, why) == [s |-> s, c |-> [c EXCEPT !.at = why]]

\* The beginning of the loop; what is short enough is left for the rest.
SortEnds(s, c) == Compares(s, c, "ends", lua_rawgeti(s, c.t, c.u), lua_rawgeti(s, c.t, c.l))
SortPart(s, c) ==
  LET n == SelectLastInSeq(c.rest, LAMBDA part : part[1] < part[2])
  IN  CASE c.l < c.u            -> SortEnds(s, c)
        [] c.l >= c.u /\ n # 0 -> SortEnds(s, [c EXCEPT !.l = c.rest[n][1], !.u = c.rest[n][2], !.rest = SubSeq(@, 1, n - 1)])
        [] OTHER                -> Ends(s, c, "sorted")
SortRest(s, c) == SortPart(s, [c EXCEPT !.l = c.u])

\* repeat ++i until a[i] >= P; repeat --j until a[j] <= P
SortUp(s, c) == Compares(s, [c EXCEPT !.i = @ + 1], "up", lua_rawgeti(s, c.t, c.i + 1), c.P)
SortDown(s, c) == Compares(s, [c EXCEPT !.j = @ - 1], "down", c.P, lua_rawgeti(s, c.t, c.j - 1))

\* a[l], a[i] and a[u] are in order: a[i] is the pivot, and goes to u - 1.
SortPivot(s, c) ==
  LET P == lua_rawgeti(s, c.t, c.i)
  IN  IF c.u - c.l = 2 THEN SortRest(s, c)
      ELSE SortUp(set2(s, c, c.i, lua_rawgeti(s, c.t, c.u - 1), c.u - 1, P), [c EXCEPT !.P = P, !.i = c.l, !.j = c.u - 1])

\* The smaller half is sorted first.
Halves(s, c) ==
  LET low  == <<c.l, c.i - 1>>
      high == <<c.i + 1, c.u>>
      first == IF c.i - c.l < c.u - c.i THEN low ELSE high
  IN  SortPart(s, [c EXCEPT !.l = first[1], !.u = first[2], !.rest = Append(@, IF first = low THEN high ELSE low)])

\* Mutant: the pivot stays where it was put aside.
SortHalves_NoSwap(s, c) == Halves(s, c)

\* The pivot goes to i, between the halves.
SortHalves(s, c) == Halves(set2(s, c, c.u - 1, lua_rawgeti(s, c.t, c.i), c.i, lua_rawgeti(s, c.t, c.u - 1)), c)

\* What follows the comparison waited for, whose result is yes.
auxsort(s, c, yes) ==
  LET i    == (c.l + c.u) \div 2
      ends == IF yes THEN set2(s, c, c.l, c.x, c.u, c.y) ELSE s
  IN  CASE c.at = "begin" -> SortPart(s, c)
        [] c.at = "ends"  -> IF c.u - c.l = 1 THEN SortRest(ends, c)
                             ELSE Compares(ends, [c EXCEPT !.i = i], "middle", lua_rawgeti(ends, c.t, i), lua_rawgeti(ends, c.t, c.l))
        [] c.at = "middle" -> IF yes THEN SortPivot(set2(s, c, c.i, c.y, c.l, c.x), c)
                              ELSE Compares(s, c, "top", lua_rawgeti(s, c.t, c.u), c.x)
        [] c.at = "top" -> SortPivot(IF yes THEN set2(s, c, c.i, c.x, c.u, c.y) ELSE s, c)
        [] c.at = "up" -> CASE yes /\ c.i > c.u -> Ends(s, c, "invalid order function")
                            [] yes /\ c.i <= c.u -> SortUp(s, c)
                            [] OTHER -> SortDown(s, [c EXCEPT !.a = c.x])
        [] OTHER -> CASE yes /\ c.j < c.l -> Ends(s, c, "invalid order function")
                      [] yes /\ c.j >= c.l -> SortDown(s, c)
                      [] OTHER -> IF c.j < c.i THEN SortHalves(s, c)                   \* "down"
                                  ELSE SortUp(set2(s, c, c.i, c.y, c.j, c.a), c)

sort_comp(s, c) ==
  LET made == [SetC(s, c) EXCEPT !.top = @ + 1]
      less == luaV_lessthan(made, c.x, c.y, StoreAt(s.top))
  IN  CASE c.f # Nil -> lua_call(s, c, c.f, <<c.x, c.y>>)
        [] c.f = Nil /\ less.called -> less.s
        [] OTHER -> Set(less.s, s.top, <<"boolean", less.res>>)

AuxSort ==
  LET begin == C.at = "begin"
      next == auxsort(IF begin THEN L ELSE Done, C, ~begin /\ ~IsFalse(Result))
  IN  /\ Doing("sort")
      /\ L' = CASE next.c.at = "sorted" -> CReturn(next.s, <<>>)
                [] next.c.at = "invalid order function" -> Throw(L, next.c.at)
                [] OTHER -> sort_comp(next.s, next.c)
      /\ UNCHANGED Idle

-----------------------------------------------------------------------------
(* The tables of functions, and what each does *)

strlib == [find |-> "str_find", match |-> "str_match", gmatch |-> "gmatch", gsub |-> "str_gsub", len |-> "str_len",
           sub |-> "str_sub", rep |-> "str_rep", reverse |-> "str_reverse"]
tab_funcs == [concat |-> "tconcat", foreachi |-> "foreachi", getn |-> "getn", maxn |-> "maxn", insert |-> "tinsert",
              remove |-> "tremove", setn |-> "setn", sort |-> "sort"]
Libraries_ == [string |-> strlib, table |-> tab_funcs]

Library(f, s, args) ==
  CASE f[2] = "str_find"    -> str_find_aux(s, args, TRUE)
    [] f[2] = "str_match"   -> str_find_aux(s, args, FALSE)
    [] f[2] = "gmatch"      -> gmatch(s, args)
    [] f[2] = "gmatch_aux"  -> gmatch_aux(f, s)
    [] f[2] = "str_gsub"    -> str_gsub(s, args)
    [] f[2] = "str_len"     -> str_len(s, args)
    [] f[2] = "str_sub"     -> str_sub(s, args)
    [] f[2] = "str_rep"     -> str_rep(s, args)
    [] f[2] = "str_reverse" -> str_reverse(s, args)
    [] f[2] = "tconcat"     -> tconcat(s, args)
    [] f[2] = "foreachi"    -> foreachi(s, args)
    [] f[2] = "getn"        -> getn(s, args)
    [] f[2] = "maxn"        -> maxn(s, args)
    [] f[2] = "tinsert"     -> tinsert(s, args)
    [] f[2] = "tremove"     -> tremove(s, args)
    [] f[2] = "setn"        -> setn(s, args)
    [] f[2] = "sort"        -> sort(s, args)
    [] OTHER                -> Failure(s, "not modelled")

\* A function of a library is entered and runs, up to its first call.
LibraryCall ==
  /\ Doing("library")
  /\ L' = AfterC(Library(Slot(L, Ci(L).func), L, Values(L, Base)))
  /\ UNCHANGED Idle

LibNext == Next \/ LibraryCall \/ Foreachi \/ GsubMatch \/ GsubReplace \/ AuxSort
LibSpec == Init /\ [][LibNext]_vars
=============================================================================
