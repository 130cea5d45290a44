---------------------------- MODULE PatternMeaning ----------------------------
(***************************************************************************)
(* What a pattern means, independently of how it is matched: it is parsed  *)
(* first, and then there are all the ways in which it matches at a place,  *)
(* the preferred one first.  There is no state that is undone: each way    *)
(* has captures of its own.                                                *)
(*                                                                         *)
(* A pattern is [anchor, items]; an item is one of                         *)
(*   one c | opt c | star c | plus c | lazy c | open | close | position |  *)
(*   back n | balance x y | frontier c | end | broken why                  *)
(* where c is a class: char x, any, class x, set members, or others        *)
(* members; members are classes and range x y.  What is broken is refused  *)
(* when the matching reaches it.                                           *)
(***************************************************************************)
EXTENDS LuaPatterns, FiniteSets

-----------------------------------------------------------------------------
(* The items of a text *)

Rest(chars, k) == SubSeq(chars, k, Len(chars))
Escape(x) == IF x \in DOMAIN CharClass \cup DOMAIN Uppers THEN <<"class", x>> ELSE <<"char", x>>

\* A set goes to the first "]" after its first member that is not escaped.
RECURSIVE SetEnd(_, _), Members(_)
SetEnd(chars, k) ==
  LET next == IF k < Len(chars) /\ chars[k] = "%" THEN k + 2 ELSE k + 1
  IN  CASE next > Len(chars) -> 0
        [] next <= Len(chars) /\ chars[next] = "]" -> next
        [] OTHER -> SetEnd(chars, next)
Members(chars) ==
  CASE chars = <<>> -> {}
    [] Len(chars) > 1 /\ chars[1] = "%" -> {Escape(chars[2])} \cup Members(Rest(chars, 3))
    [] Len(chars) > 2 /\ chars[1] # "%" /\ chars[2] = "-" -> {<<"range", chars[1], chars[3]>>} \cup Members(Rest(chars, 4))
    [] OTHER -> {<<"char", chars[1]>>} \cup Members(Tail(chars))

\* The class a text begins with, and the rest of it.
ClassOf(chars) ==
  LET neg  == Len(chars) > 1 /\ chars[2] = "^"
      from == IF neg THEN 3 ELSE 2
      end  == IF from > Len(chars) THEN 0 ELSE SetEnd(chars, from)
      set  == Members(SubSeq(chars, from, end - 1))
  IN  CASE chars[1] = "." -> [class |-> <<"any">>, rest |-> Tail(chars)]
        [] chars[1] = "%" -> IF Len(chars) = 1 THEN [class |-> <<"broken">>, rest |-> <<>>]
                             ELSE [class |-> Escape(chars[2]), rest |-> Rest(chars, 3)]
        [] chars[1] = "[" -> IF end = 0 THEN [class |-> <<"broken">>, rest |-> <<>>]
                             ELSE [class |-> <<IF neg THEN "others" ELSE "set", set>>, rest |-> Rest(chars, end + 1)]
        [] OTHER          -> [class |-> <<"char", chars[1]>>, rest |-> Tail(chars)]

RepeatMarks == {"?", "*", "+", "-"}
Repetition(x) == CASE x = "?" -> "opt" [] x = "*" -> "star" [] x = "+" -> "plus" [] x = "-" -> "lazy"
RECURSIVE ItemsOf(_)
ItemsOf(chars) ==
  LET x == CharAt(chars, 1)
      y == CharAt(chars, 2)
      c == ClassOf(IF x = "%" /\ y = "f" THEN Rest(chars, 3) ELSE chars)
      Then_(it, rest) == <<it>> \o ItemsOf(rest)
      Repeats(how) == IF c.class[1] = "broken" THEN <<<<"broken", "malformed pattern">>>>
                      ELSE IF c.rest # <<>> /\ c.rest[1] \in RepeatMarks /\ how = "one" THEN Then_(<<Repetition(c.rest[1]), c.class>>, Tail(c.rest))
                      ELSE Then_(<<how, c.class>>, c.rest)
  IN  CASE chars = <<>>          -> <<>>
        [] x = "(" /\ y = ")"   -> Then_(<<"position">>, Rest(chars, 3))
        [] x = "(" /\ y # ")"   -> Then_(<<"open">>, Tail(chars))
        [] x = ")"               -> Then_(<<"close">>, Tail(chars))
        [] x = "$" /\ Len(chars) = 1 -> <<<<"end">>>>
        [] x = "%" /\ y = "b"   -> IF Len(chars) < 4 THEN <<<<"broken", "unbalanced pattern">>>>
                                   ELSE Then_(<<"balance", chars[3], chars[4]>>, Rest(chars, 5))
        [] x = "%" /\ y = "f"   -> IF CharAt(chars, 3) # "[" THEN <<<<"broken", "missing [">>>> ELSE Repeats("frontier")
        [] x = "%" /\ isdigit(y) -> Then_(<<"back", CaptureIndex(y) + 1>>, Rest(chars, 3))
        [] OTHER -> Repeats("one")

\* ^ is an anchor only where the function says so.
PatternOf(chars, anchors) ==
  LET anchor == anchors /\ chars # <<>> /\ chars[1] = "^"
  IN  [anchor |-> anchor, items |-> ItemsOf(IF anchor THEN Tail(chars) ELSE chars)]

-----------------------------------------------------------------------------
(* Which characters a class has *)

RECURSIVE InClass(_, _)
InClass(x, c) ==
  CASE c[1] = "any"    -> TRUE
    [] c[1] = "char"   -> x = c[2]
    [] c[1] = "class"  -> IF c[2] \in DOMAIN CharClass THEN x \in CharClass[c[2]] ELSE x \notin CharClass[Uppers[c[2]]]
    [] c[1] = "range"  -> uchar(x) \in uchar(c[2])..uchar(c[3])
    [] c[1] = "set"    -> \E m \in c[2] : InClass(x, m)
    [] c[1] = "others" -> \A m \in c[2] : ~InClass(x, m)

-----------------------------------------------------------------------------
(* The ways to match the items from src[s] on, as [e, caps, err].  A        *)
(* capture is [at, to], where to is 0 while it is open and -1 for one that  *)
(* only tells the position.                                                 *)

OPEN == 0
HERE == -1
RECURSIVE Ways(_, _, _, _)
Ways(items, src, s, caps) ==
  LET it   == Head(items)
      From(e) == Ways(Tail(items), src, e, caps)
      In(e) == e <= Len(src) /\ InClass(src[e], it[2])
      reach == {e \in s..(Len(src) + 1) : \A x \in s..(e - 1) : In(x)}
      Each(es) == FlattenSeq([j \in DOMAIN es |-> From(es[j])])
      upwards == [j \in 1..Cardinality(reach) |-> s + j - 1]
      opened == {n \in DOMAIN caps : caps[n].to = OPEN}
      last == CHOOSE n \in opened : \A m \in opened : m <= n
      text == SubSeq(src, caps[it[2]].at, caps[it[2]].to - 1)
      Depth(e) == Cardinality({x \in s..e : src[x] = it[2] /\ (it[2] # it[3] \/ x = s)})
                  - Cardinality({x \in (s + 1)..e : src[x] = it[3]})
      closes == {e \in (s + 1)..Len(src) : Depth(e) = 0}
      Wrong(why) == <<[e |-> s, caps |-> caps, err |-> why]>>
  IN  CASE items = <<>> -> <<[e |-> s, caps |-> caps, err |-> ""]>>
        [] items # <<>> /\ it[1] = "one"  -> IF In(s) THEN From(s + 1) ELSE <<>>
        [] items # <<>> /\ it[1] = "opt"  -> (IF In(s) THEN From(s + 1) ELSE <<>>) \o From(s)
        [] items # <<>> /\ it[1] = "star" -> Each(Reverse(upwards))
        [] items # <<>> /\ it[1] = "plus" -> Each(Reverse(Tail(upwards)))
        [] items # <<>> /\ it[1] = "lazy" -> Each(upwards)
        [] items # <<>> /\ it[1] \in {"open", "position"} /\ Len(caps) = LUA_MAXCAPTURES -> Wrong("too many captures")
        [] items # <<>> /\ it[1] = "open" -> Ways(Tail(items), src, s, Append(caps, [at |-> s, to |-> OPEN]))
        [] items # <<>> /\ it[1] = "position" -> Ways(Tail(items), src, s, Append(caps, [at |-> s, to |-> HERE]))
        [] items # <<>> /\ it[1] = "close" -> IF opened = {} THEN Wrong("invalid pattern capture")
                                              ELSE Ways(Tail(items), src, s, [caps EXCEPT ![last].to = s])
        [] items # <<>> /\ it[1] = "back" ->
             CASE it[2] \notin DOMAIN caps \/ it[2] \in opened -> Wrong("invalid capture index")
               [] it[2] \in DOMAIN caps \ opened /\ caps[it[2]].to = HERE -> <<>>
               [] OTHER -> IF s + Len(text) <= Len(src) + 1 /\ SubSeq(src, s, s + Len(text) - 1) = text THEN From(s + Len(text)) ELSE <<>>
        [] items # <<>> /\ it[1] = "balance" ->
             IF s > Len(src) \/ src[s] # it[2] \/ closes = {} THEN <<>> ELSE From(1 + CHOOSE e \in closes : \A x \in closes : e <= x)
        [] items # <<>> /\ it[1] = "frontier" ->
             IF ~InClass(CharAt(src, s - 1), it[2]) /\ InClass(CharAt(src, s), it[2]) THEN From(s) ELSE <<>>
        [] items # <<>> /\ it[1] = "end" -> IF s = Len(src) + 1 THEN From(s) ELSE <<>>
        [] items # <<>> /\ it[1] = "broken" -> Wrong(it[2])

\* The first place from init on where the pattern matches, as [s, e, caps, err],
\* or <<>>; an error anywhere before is the outcome.
MatchFrom(p, src, init) ==
  LET Here(s) == Ways(p.items, src, s, <<>>)
      places == {s \in init..(IF p.anchor THEN init ELSE Len(src) + 1) : Here(s) # <<>>}
      s == CHOOSE x \in places : \A y \in places : x <= y
      w == Here(s)[1]
  IN  IF places = {} THEN <<>> ELSE <<[s |-> s, e |-> w.e, caps |-> w.caps, err |-> w.err]>>

\* The n-th capture of a match; the first is the whole if there is none.
CaptureOf(m, src, n) ==
  LET cap == m.caps[n]
  IN  CASE n > Len(m.caps) -> IF n = 1 THEN <<"string", SubSeq(src, m.s, m.e - 1)>> ELSE <<"error", "invalid capture index">>
        [] n <= Len(m.caps) /\ cap.to = OPEN -> <<"error", "unfinished capture">>
        [] n <= Len(m.caps) /\ cap.to = HERE -> <<"number", cap.at>>
        [] OTHER -> <<"string", SubSeq(src, cap.at, cap.to - 1)>>
CapturesOf(m, src, whole) == [n \in 1..(IF whole /\ m.caps = <<>> THEN 1 ELSE Len(m.caps)) |-> CaptureOf(m, src, n)]
=============================================================================
