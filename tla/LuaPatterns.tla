----------------------------- MODULE LuaPatterns -----------------------------
(***************************************************************************)
(* The pattern matcher of lstrlib.c, which goes over the pattern and the   *)
(* subject and undoes the captures of what fails.                          *)
(***************************************************************************)
EXTENDS LuaCaptures

CONSTANTS CharClass,         \* the characters of each class (ctype.h), by its letter
          LUA_MAXCAPTURES    \* luaconf.h

ASSUME PatternsAssumption == LUA_MAXCAPTURES \in Nat \ {0}

-----------------------------------------------------------------------------
(* Single characters *)

\* tolower, of the letters of classes.
Uppers == [A |-> "a", C |-> "c", D |-> "d", L |-> "l", P |-> "p", S |-> "s", U |-> "u", W |-> "w", X |-> "x", Z |-> "z"]
tolower(c) == IF c \in DOMAIN Uppers THEN Uppers[c] ELSE c

match_class(c, cl) == IF tolower(cl) \in DOMAIN CharClass THEN (c \in CharClass[tolower(cl)]) = (tolower(cl) = cl)
                      ELSE cl = c

\* Where the item at p ends; 0 if it does not.
RECURSIVE BracketEnd(_, _)
BracketEnd(pat, p) ==
  LET q == IF CharAt(pat, p) = "%" /\ CharAt(pat, p + 1) # NUL THEN p + 2 ELSE p + 1
  IN  IF CharAt(pat, p) = NUL THEN 0 ELSE IF CharAt(pat, q) = "]" THEN q + 1 ELSE BracketEnd(pat, q)
classend(pat, p) ==
  CASE CharAt(pat, p) = "%" -> IF CharAt(pat, p + 1) = NUL THEN 0 ELSE p + 2
    [] CharAt(pat, p) = "[" -> BracketEnd(pat, IF CharAt(pat, p + 1) = "^" THEN p + 2 ELSE p + 1)
    [] OTHER            -> p + 1

\* c is one of those listed from p to before ec.
RECURSIVE Listed(_, _, _, _)
Listed(c, pat, p, ec) ==
  LET range == CharAt(pat, p + 1) = "-" /\ p + 2 < ec
  IN  /\ p < ec
      /\ CASE pat[p] = "%" -> match_class(c, CharAt(pat, p + 1)) \/ Listed(c, pat, p + 2, ec)
           [] pat[p] # "%" /\ range -> uchar(c) \in uchar(pat[p])..uchar(pat[p + 2]) \/ Listed(c, pat, p + 3, ec)
           [] OTHER -> pat[p] = c \/ Listed(c, pat, p + 1, ec)
matchbracketclass(c, pat, p, ec) == IF CharAt(pat, p + 1) = "^" THEN ~Listed(c, pat, p + 2, ec) ELSE Listed(c, pat, p + 1, ec)

singlematch(c, pat, p, ep) == CASE pat[p] = "." -> TRUE
                                [] pat[p] = "%" -> match_class(c, pat[p + 1])
                                [] pat[p] = "[" -> matchbracketclass(c, pat, p, ep - 1)
                                [] OTHER        -> pat[p] = c

-----------------------------------------------------------------------------
(* The matcher *)

MatchesAt(ms, s, p, ep) == s < src_end(ms) /\ singlematch(ms.src[s], ms.pat, p, ep)

\* matchbalance: the brackets at p and p + 1.
RECURSIVE Balance(_, _, _, _)
Balance(ms, s, p, cont) ==
  LET c == CharAt(ms.src, s)
      more == CASE c = ms.pat[p + 1] -> cont - 1
                [] c # ms.pat[p + 1] /\ c = ms.pat[p] -> cont + 1
                [] OTHER -> cont
  IN  CASE s >= src_end(ms) -> NoMatch
        [] s < src_end(ms) /\ more = 0 -> s + 1
        [] OTHER -> Balance(ms, s + 1, p, more)
matchbalance(ms, s, p) == CASE CharAt(ms.pat, p) = NUL \/ CharAt(ms.pat, p + 1) = NUL -> luaL_error(ms, "unbalanced pattern")
                            [] CharAt(ms.src, s) # CharAt(ms.pat, p) -> Returns(ms, NoMatch)
                            [] OTHER -> Returns(ms, Balance(ms, s + 1, p, 1))

check_capture(ms, l) == l \in 0..(level(ms) - 1) /\ ms.capture[l + 1].len # CAP_UNFINISHED
match_capture(ms, s, l) ==
  LET cap == ms.capture[l + 1]
  IN  CASE ~check_capture(ms, l) -> luaL_error(ms, "invalid capture index")
        [] check_capture(ms, l) /\ cap.len = CAP_POSITION -> Returns(ms, NoMatch)   \* a size beyond any subject
        [] OTHER -> IF /\ src_end(ms) - s >= cap.len
                       /\ SubSeq(ms.src, cap.init, cap.init + cap.len - 1) = SubSeq(ms.src, s, s + cap.len - 1)
                    THEN Returns(ms, s + cap.len) ELSE Returns(ms, NoMatch)

RECURSIVE match(_, _, _), max_expand(_, _, _, _, _), min_expand(_, _, _, _)

\* Repetitions from s: the most there are, then one less each time.
MostFrom(ms, s, p, ep) == CHOOSE i \in 0..(src_end(ms) - s) : /\ \A j \in 0..(i - 1) : MatchesAt(ms, s + j, p, ep)
                                                              /\ ~MatchesAt(ms, s + i, p, ep)
max_expand(ms, s, p, ep, i) ==
  LET res == match(ms, s + i, ep + 1)
  IN  IF Failed(res) /\ i > 0 THEN max_expand(res.ms, s, p, ep, i - 1) ELSE res
min_expand(ms, s, p, ep) ==
  LET res == match(ms, s, ep + 1)
  IN  IF Failed(res) /\ MatchesAt(ms, s, p, ep) THEN min_expand(res.ms, s + 1, p, ep) ELSE res

start_capture(ms, s, p, what) ==
  LET res == match([ms EXCEPT !.capture = Append(@, [init |-> s, len |-> what])], s, p)
  IN  CASE level(ms) >= LUA_MAXCAPTURES -> luaL_error(ms, "too many captures")
        [] level(ms) < LUA_MAXCAPTURES /\ Failed(res) -> [res EXCEPT !.ms.capture = Front(@)]   \* undo capture
        [] OTHER -> res

capture_to_close(ms) == SelectLastInSeq(ms.capture, LAMBDA c : c.len = CAP_UNFINISHED)

\* Mutant: a capture that was closed stays closed when the rest fails.
end_capture_Keeps(ms, s, p) ==
  LET l == capture_to_close(ms)
  IN  IF l = 0 THEN luaL_error(ms, "invalid pattern capture")
      ELSE match([ms EXCEPT !.capture[l].len = s - ms.capture[l].init], s, p)

end_capture(ms, s, p) ==
  LET l == capture_to_close(ms)
      res == match([ms EXCEPT !.capture[l].len = s - ms.capture[l].init], s, p)
  IN  CASE l = 0 -> luaL_error(ms, "invalid pattern capture")
        [] l # 0 /\ Failed(res) -> [res EXCEPT !.ms.capture[l].len = CAP_UNFINISHED]            \* undo capture
        [] OTHER -> res

\* The rest of the pattern, from p, after an item that ended at res.s.
Then(res, p) == IF res.s = NoMatch THEN res ELSE match(res.ms, res.s, p)

frontier(ms, s, p) ==
  LET ep == classend(ms.pat, p)
      previous == IF s = 1 THEN NUL ELSE ms.src[s - 1]
  IN  CASE CharAt(ms.pat, p) # "[" -> luaL_error(ms, "missing [")
        [] CharAt(ms.pat, p) = "[" /\ ep = 0 -> luaL_error(ms, "malformed pattern")
        [] OTHER -> IF matchbracketclass(previous, ms.pat, p, ep - 1) \/ ~matchbracketclass(CharAt(ms.src, s), ms.pat, p, ep - 1)
                    THEN Returns(ms, NoMatch) ELSE match(ms, s, ep)

\* A single character with what follows it.
dflt(ms, s, p) ==
  LET ep == classend(ms.pat, p)
      m  == MatchesAt(ms, s, p, ep)
      c  == CharAt(ms.pat, ep)
      one == match(ms, s + 1, ep + 1)
  IN  CASE ep = 0 -> luaL_error(ms, "malformed pattern")
        [] ep # 0 /\ c = "?" -> IF m /\ ~Failed(one) THEN one ELSE match(ms, s, ep + 1)
        [] ep # 0 /\ c = "*" -> max_expand(ms, s, p, ep, MostFrom(ms, s, p, ep))
        [] ep # 0 /\ c = "+" -> IF m THEN max_expand(ms, s + 1, p, ep, MostFrom(ms, s + 1, p, ep)) ELSE Returns(ms, NoMatch)
        [] ep # 0 /\ c = "-" -> min_expand(ms, s, p, ep)
        [] OTHER -> IF m THEN match(ms, s + 1, ep) ELSE Returns(ms, NoMatch)

match(ms, s, p) ==
  LET c == CharAt(ms.pat, p)
      d == CharAt(ms.pat, p + 1)
  IN  CASE c = "(" -> IF d = ")" THEN start_capture(ms, s, p + 2, CAP_POSITION) ELSE start_capture(ms, s, p + 1, CAP_UNFINISHED)
        [] c = ")" -> end_capture(ms, s, p + 1)
        [] c = "%" /\ d = "b" -> Then(matchbalance(ms, s, p + 2), p + 4)
        [] c = "%" /\ d = "f" -> frontier(ms, s, p + 2)
        [] c = "%" /\ isdigit(d) -> Then(match_capture(ms, s, CaptureIndex(d)), p + 2)
        [] p > Len(ms.pat) -> Returns(ms, s)
        [] c = "$" /\ d = NUL -> Returns(ms, IF s = src_end(ms) THEN s ELSE NoMatch)
        [] OTHER -> dflt(ms, s, p)

\* From s1 on, or there only: where the pattern matches first, as [s, e, ms].
RECURSIVE FirstMatch(_, _, _, _)
FirstMatch(ms, s1, p, anchor) ==
  LET res == match(ms, s1, p)
  IN  IF Failed(res) /\ s1 < src_end(ms) /\ ~anchor THEN FirstMatch(ms, s1 + 1, p, anchor)
      ELSE [s |-> s1, e |-> res.s, ms |-> res.ms]
=============================================================================
