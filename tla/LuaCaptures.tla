----------------------------- MODULE LuaCaptures -----------------------------
(***************************************************************************)
(* What the pattern matcher of lstrlib.c works on, and what it gives to    *)
(* the functions of the library.  A subject and a pattern are sequences of *)
(* characters.  A pointer into one is a position from 1, and at the end of *)
(* either there is a NUL; a pointer that is NULL is 0.                     *)
(*                                                                         *)
(* A C function of the matcher works on a MatchState and returns a         *)
(* pointer: here it gives [ms, s].  After luaL_error, ms.err is not "".    *)
(***************************************************************************)
EXTENDS Integers, Sequences, SequencesExt

CONSTANT Alphabet    \* the characters of programs, in the order of their codes

ASSUME AlphabetAssumption == IsInjective(Alphabet)

NUL == "\\0"
NoMatch == 0
CAP_UNFINISHED == -1
CAP_POSITION == -2
SPECIALS == {"^", "$", "*", "+", "?", ".", "(", "[", "%", "-"}
Digits == <<"1", "2", "3", "4", "5", "6", "7", "8", "9">>

CharAt(str, i) == IF i \in DOMAIN str THEN str[i] ELSE NUL
uchar(c) == CHOOSE n \in DOMAIN Alphabet : Alphabet[n] = c
\* isdigit, and the number of a capture counted from 0 (of "0" it is -1).
isdigit(c) == c = "0" \/ c \in ToSet(Digits)
CaptureIndex(c) == IF c = "0" THEN -1 ELSE (CHOOSE n \in DOMAIN Digits : Digits[n] = c) - 1

MatchState(src, pat) == [src |-> src, pat |-> pat, capture |-> <<>>, err |-> ""]
Returns(ms, s) == [ms |-> ms, s |-> s]
luaL_error(ms, why) == Returns([ms EXCEPT !.err = why], NoMatch)
Failed(res) == res.s = NoMatch /\ res.ms.err = ""
src_end(ms) == Len(ms.src) + 1
level(ms) == Len(ms.capture)

-----------------------------------------------------------------------------
(* Captures as values: <<"string", characters>>, <<"number", n>> or         *)
(* <<"error", why>>.  s is 0 where the whole match is not wanted.           *)

push_onecapture(ms, i, s, e) ==
  LET cap == ms.capture[i + 1]
  IN  CASE i >= level(ms) -> IF i = 0 THEN <<"string", SubSeq(ms.src, s, e - 1)>> ELSE <<"error", "invalid capture index">>
        [] i < level(ms) /\ cap.len = CAP_UNFINISHED -> <<"error", "unfinished capture">>
        [] i < level(ms) /\ cap.len = CAP_POSITION   -> <<"number", cap.init>>
        [] OTHER -> <<"string", SubSeq(ms.src, cap.init, cap.init + cap.len - 1)>>

push_captures(ms, s, e) ==
  LET nlevels == IF level(ms) = 0 /\ s # 0 THEN 1 ELSE level(ms)
  IN  [i \in 1..nlevels |-> push_onecapture(ms, i - 1, s, e)]
=============================================================================
