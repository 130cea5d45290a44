----------------------------- MODULE LibMeaning -----------------------------
(***************************************************************************)
(* What the functions of the string and table libraries do, independently  *)
(* of how: a table is changed all at once, a sort gives the sorted list,   *)
(* the matches of a pattern are known before the first is replaced.        *)
(* LuaSemantics takes from here what a library function means.             *)
(***************************************************************************)
EXTENDS LuaSemantics, PatternMeaning

-----------------------------------------------------------------------------
(* Arguments: what each function takes.  "?" may be missing, "s" is a      *)
(* string or a number, "n" a number, "t" a table, "f" a function.          *)

Takes == [str_find |-> <<"s", "s", "n?">>, str_match |-> <<"s", "s", "n?">>, gmatch |-> <<"s", "s">>,
          str_gsub |-> <<"s", "s", "r", "n?">>, str_len |-> <<"s">>, str_sub |-> <<"s", "n", "n?">>, str_rep |-> <<"s", "n">>,
          str_reverse |-> <<"s">>, tconcat |-> <<"t", "s?", "n?", "n?">>, foreachi |-> <<"t", "f">>, getn |-> <<"t">>,
          maxn |-> <<"t">>, tinsert |-> <<"t">>, tremove |-> <<"t", "n?">>, setn |-> <<"t">>, sort |-> <<"t", "f?">>]
Fits(v, what) ==
  CASE what \in {"s", "s?"} -> CanStr(v) \/ (what = "s?" /\ v = Nil)
    [] what \in {"n", "n?"} -> luaV_tonumber(v) # Nil \/ (what = "n?" /\ v = Nil)
    [] what \in {"f", "f?"} -> IsFunction(v) \/ (what = "f?" /\ v = Nil)
    [] what = "t" -> IsTable(v)
    [] what = "r" -> CanStr(v) \/ IsFunction(v) \/ IsTable(v)
Accepts(f, args) == f \in DOMAIN Takes => \A j \in DOMAIN Takes[f] : Fits(Arg(args, j), Takes[f][j])

NumArg(args, j, default) == IF Arg(args, j) = Nil THEN default ELSE luaV_tonumber(Arg(args, j))[2]
Letters(v) == LET t == ToStr(v) IN [j \in 1..Len(t) |-> SubSeq(t, j, j)]
Spelled(chars) == <<"string", FoldLeft(LAMBDA t, x : t \o x, "", chars)>>
AsNumber(n) == <<"number", n>>
Shaped(v) == IF v[1] = "string" THEN Spelled(v[2]) ELSE v     \* a capture of PatternMeaning

-----------------------------------------------------------------------------
(* Tables: what is at each number, before and after *)

ItemAt(s, t, n) == RawGet(s, t, AsNumber(n))
\* Each number n of ns has New(n) from now on.
Renewed(s, t, ns, New(_)) == FoldLeft(LAMBDA x, n : RawSet(x, t, AsNumber(n), New(n)), s, SetToSeq(ns))

Inserted(s, args) ==
  LET t == args[1]
      n == luaH_getn(s, t)
      pos == IF Len(args) = 2 THEN n + 1 ELSE NumArg(args, 2, 0)
      New(k) == IF k = pos THEN args[Len(args)] ELSE ItemAt(s, t, k - 1)
  IN  CASE Len(args) \notin {2, 3} -> Raise(s, "wrong number of arguments")
        [] Len(args) = 3 /\ ~Fits(args[2], "n") -> Raise(s, "argument")
        [] OTHER -> Gives(Renewed(s, t, {pos} \cup pos..(n + 1), New), <<>>)

Removed(s, args) ==
  LET t == args[1]
      n == luaH_getn(s, t)
      pos == NumArg(args, 2, n)
      New(k) == IF k = n THEN Nil ELSE ItemAt(s, t, k + 1)
  IN  IF pos < 1 \/ pos > n THEN Gives(s, <<>>) ELSE Gives(Renewed(s, t, pos..n, New), <<ItemAt(s, t, pos)>>)

Joining(s, args) ==
  LET from == NumArg(args, 3, 1)
      to   == NumArg(args, 4, luaH_getn(s, args[1]))
      sep  == IF Arg(args, 2) = Nil THEN "" ELSE ToStr(args[2])
      list == [j \in 1..(to - from + 1) |-> ItemAt(s, args[1], from + j - 1)]
      text == IF list = <<>> THEN "" ELSE FoldLeft(LAMBDA x, v : x \o sep \o ToStr(v), ToStr(Head(list)), Tail(list))
  IN  IF \A j \in DOMAIN list : CanStr(list[j]) THEN Gives(s, <<<<"string", text>>>>) ELSE Raise(s, "invalid value")

Largest(s, t) == LET ns == {0} \cup {key[2] : key \in {x \in DOMAIN s.tabs[t[2]].map : IsNumber(x)}}
                 IN  CHOOSE n \in ns : \A m \in ns : m <= n

\* The list in order.  Where the comparison fails, or is no order, the list
\* stays: a program may then look only at what any order of it shows.
Sorted(s, t, f) ==
  LET list == [j \in 1..luaH_getn(s, t) |-> ItemAt(s, t, j)]
      Ask(a, b) == IF f = Nil THEN Binary(s, "<", a, b) ELSE Apply(s, f, <<a, b>>)
      Before(a, b) == ~IsFalse(First(Ask(a, b).vs))
      places == DOMAIN list
      pairs == {x \in places \X places : x[1] # x[2]}
      wrong == {p \in pairs : Ask(list[p[1]], list[p[2]]).s.err # ""}
      order == \A p \in pairs : ~(Before(list[p[1]], list[p[2]]) /\ Before(list[p[2]], list[p[1]]))
      p == CHOOSE x \in wrong : TRUE
      sorted == SortSeq(list, Before)
  IN  CASE wrong # {} -> Raise(s, Ask(list[p[1]], list[p[2]]).s.err)
        [] wrong = {} /\ ~order -> Gives(s, <<>>)
        [] OTHER -> Gives(Renewed(s, t, DOMAIN list, LAMBDA n : sorted[n]), <<>>)

RECURSIVE InTurn(_, _, _, _, _)
InTurn(s, t, f, i, n) ==
  LET r == Apply(s, f, <<AsNumber(i), ItemAt(s, t, i)>>)
  IN  IF i > n THEN Gives(s, <<>>)
      ELSE IF r.s.err # "" \/ First(r.vs) # Nil THEN OneOf(r) ELSE InTurn(r.s, t, f, i + 1, n)

-----------------------------------------------------------------------------
(* Strings *)

\* The characters whose places are from i to j, counted from the end if negative.
Between(chars, i, j) ==
  LET n == Len(chars)
      FromLeft(x) == IF x < 0 THEN n + 1 + x ELSE x
      In(k) == k >= FromLeft(i) /\ k <= FromLeft(j)
      ks == SelectSeq([k \in 1..n |-> k], In)
  IN  [k \in DOMAIN ks |-> chars[ks[k]]]

Repeated(chars, n) == [j \in 1..(n * Len(chars)) |-> chars[((j - 1) % Len(chars)) + 1]]
Backwards(chars) == [j \in DOMAIN chars |-> chars[Len(chars) + 1 - j]]

\* Where a search begins.
StartOf(n, init) == LET at == IF init < 0 THEN n + 1 + init ELSE init
                    IN  CASE at < 1 -> 1 [] at > n + 1 -> n + 1 [] OTHER -> at
Literal(v) == [anchor |-> FALSE, items |-> [j \in DOMAIN Letters(v) |-> <<"one", <<"char", Letters(v)[j]>>>>]]

Answer(s, first, captures) ==
  LET wrong == SelectSeq(captures, LAMBDA v : v[1] = "error")
  IN  IF wrong # <<>> THEN Raise(s, wrong[1][2]) ELSE Gives(s, first \o [j \in DOMAIN captures |-> Shaped(captures[j])])

Found(s, args, find) ==
  LET src == Letters(args[1])
      p == IF find /\ ~IsFalse(Arg(args, 4)) THEN Literal(args[2]) ELSE PatternOf(Letters(args[2]), TRUE)
      ms == MatchFrom(p, src, StartOf(Len(src), NumArg(args, 3, 1)))
      m == ms[1]
  IN  CASE ms = <<>> -> Gives(s, <<Nil>>)
        [] ms # <<>> /\ m.err # "" -> Raise(s, m.err)
        [] OTHER -> IF find THEN Answer(s, <<AsNumber(m.s), AsNumber(m.e - 1)>>, CapturesOf(m, src, FALSE))
                    ELSE Answer(s, <<>>, CapturesOf(m, src, TRUE))

\* All matches, none of which begins inside another or where an empty one was;
\* after an error there are no more.
RECURSIVE MatchesFrom(_, _, _)
MatchesFrom(p, src, at) ==
  LET ms == IF at > Len(src) + 1 THEN <<>> ELSE MatchFrom(p, src, at)
      m  == ms[1]
  IN  CASE ms = <<>> -> <<>>
        [] ms # <<>> /\ (p.anchor \/ m.err # "") -> ms
        [] OTHER -> ms \o MatchesFrom(p, src, IF m.e = m.s THEN m.e + 1 ELSE m.e)

\* The iterator of gmatch is at one of the matches: k of them are gone.
Iterator(s, args) ==
  Gives(NewTable(s, [x \in {AsNumber(1), AsNumber(2), AsNumber(3)} |-> IF x[2] = 3 THEN AsNumber(0) ELSE args[x[2]]]),
        <<<<"cfunction", "gmatch_aux", Len(s.tabs) + 1>>>>)
Step(s, it) ==
  LET src == Letters(ItemAt(s, it, 1))
      all == MatchesFrom(PatternOf(Letters(ItemAt(s, it, 2)), FALSE), src, 1)
      k == ItemAt(s, it, 3)[2] + 1
  IN  CASE k > Len(all) -> Gives(s, <<>>)
        [] k <= Len(all) /\ all[k].err # "" -> Raise(s, all[k].err)
        [] OTHER -> Answer(RawSet(s, it, AsNumber(3), AsNumber(k)), <<>>, CapturesOf(all[k], src, TRUE))

\* What a match m is replaced with, as a store and one value.
RECURSIVE PartsOf(_)
PartsOf(chars) ==
  LET y == CharAt(chars, 2)
  IN  CASE chars = <<>>     -> <<>>
        [] chars # <<>> /\ chars[1] # "%" -> <<<<"char", chars[1]>>>> \o PartsOf(Tail(chars))
        [] OTHER -> <<IF isdigit(y) THEN <<"capture", CaptureIndex(y) + 1>> ELSE <<"char", y>>>> \o PartsOf(SubSeq(chars, 3, Len(chars)))
Expanded(s, v, m, src) ==
  LET parts == PartsOf(Letters(v))
      Part(x) == CASE x[1] = "char"         -> <<"string", <<x[2]>>>>
                   [] x = <<"capture", 0>>  -> <<"string", SubSeq(src, m.s, m.e - 1)>>
                   [] OTHER                 -> CaptureOf(m, src, x[2])
      all == Answer(s, <<>>, [j \in DOMAIN parts |-> Part(parts[j])])
  IN  IF all.s.err # "" THEN all ELSE Gives(s, <<<<"string", FoldLeft(LAMBDA t, x : t \o ToStr(x), "", all.vs)>>>>)
Replaced(s, v, m, src) ==
  LET caps == Answer(s, <<>>, CapturesOf(m, src, TRUE))
      key  == Answer(s, <<>>, <<CaptureOf(m, src, 1)>>)
      new  == CASE caps.s.err # "" -> caps
                [] caps.s.err = "" /\ IsFunction(v) -> OneOf(Apply(s, v, caps.vs))
                [] OTHER -> Index(s, v, First(key.vs), 0)
  IN  CASE CanStr(v) -> Expanded(s, v, m, src)
        [] ~CanStr(v) /\ new.s.err # "" -> new
        [] ~CanStr(v) /\ new.s.err = "" /\ IsFalse(First(new.vs)) -> Gives(new.s, <<Spelled(SubSeq(src, m.s, m.e - 1))>>)
        [] OTHER -> IF CanStr(First(new.vs)) THEN new ELSE Raise(new.s, "invalid replacement value")

Substituted(s, args) ==
  LET src == Letters(args[1])
      p == PatternOf(Letters(args[2]), TRUE)
      found == MatchesFrom(p, src, 1)
      max == NumArg(args, 4, Len(src) + 1)
      used == SubSeq(found, 1, IF max < Len(found) THEN max ELSE Len(found))
      Step1(acc, m) ==
        LET r == IF m.err # "" THEN Raise(acc.s, m.err) ELSE Replaced(acc.s, args[3], m, src)
        IN  CASE acc.s.err # "" -> acc
              [] acc.s.err = "" /\ r.s.err # "" -> [acc EXCEPT !.s = r.s]
              [] OTHER -> [s |-> r.s, text |-> acc.text \o SubSeq(src, acc.at, m.s - 1) \o Letters(First(r.vs)), at |-> m.e]
      all == FoldLeft(Step1, [s |-> s, text |-> <<>>, at |-> 1], used)
  IN  IF all.s.err # "" THEN Gives(all.s, <<>>)
      ELSE Gives(all.s, <<Spelled(all.text \o SubSeq(src, all.at, Len(src))), AsNumber(Len(used))>>)

-----------------------------------------------------------------------------

Means_(f, s, args) ==
  CASE ~Accepts(f[2], args) -> Raise(s, "argument")
    [] Accepts(f[2], args) /\ f[2] = "str_find"    -> Found(s, args, TRUE)
    [] Accepts(f[2], args) /\ f[2] = "str_match"   -> Found(s, args, FALSE)
    [] Accepts(f[2], args) /\ f[2] = "gmatch"      -> Iterator(s, args)
    [] Accepts(f[2], args) /\ f[2] = "gmatch_aux"  -> Step(s, <<"table", f[3]>>)
    [] Accepts(f[2], args) /\ f[2] = "str_gsub"    -> Substituted(s, args)
    [] Accepts(f[2], args) /\ f[2] = "str_len"     -> Gives(s, <<AsNumber(Len(ToStr(args[1])))>>)
    [] Accepts(f[2], args) /\ f[2] = "str_sub"     -> Gives(s, <<Spelled(Between(Letters(args[1]), NumArg(args, 2, 0), NumArg(args, 3, -1)))>>)
    [] Accepts(f[2], args) /\ f[2] = "str_rep"     -> Gives(s, <<Spelled(Repeated(Letters(args[1]), NumArg(args, 2, 0)))>>)
    [] Accepts(f[2], args) /\ f[2] = "str_reverse" -> Gives(s, <<Spelled(Backwards(Letters(args[1])))>>)
    [] Accepts(f[2], args) /\ f[2] = "tconcat"     -> Joining(s, args)
    [] Accepts(f[2], args) /\ f[2] = "foreachi"    -> InTurn(s, args[1], args[2], 1, luaH_getn(s, args[1]))
    [] Accepts(f[2], args) /\ f[2] = "getn"        -> Gives(s, <<AsNumber(luaH_getn(s, args[1]))>>)
    [] Accepts(f[2], args) /\ f[2] = "maxn"        -> Gives(s, <<AsNumber(Largest(s, args[1]))>>)
    [] Accepts(f[2], args) /\ f[2] = "tinsert"     -> Inserted(s, args)
    [] Accepts(f[2], args) /\ f[2] = "tremove"     -> Removed(s, args)
    [] Accepts(f[2], args) /\ f[2] = "setn"        -> Raise(s, "obsolete")
    [] Accepts(f[2], args) /\ f[2] = "sort"        -> Sorted(s, args[1], Arg(args, 2))
=============================================================================
