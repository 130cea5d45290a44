-------------------------------- MODULE Zio --------------------------------
(***************************************************************************)
(* Buffered streams (lzio.c).  A reader hands a stream over in pieces, and *)
(* luaZ_read takes bytes from it wherever a piece may end.  z.p is what is *)
(* unread of the current piece, z.rest the pieces to come.  A reader that  *)
(* returns an empty piece, or none, has come to the end of the stream.     *)
(***************************************************************************)
EXTENDS Naturals, Sequences

luaZ_init(pieces) == [p |-> <<>>, rest |-> pieces]

luaZ_fill(z) == IF z.rest = <<>> THEN z ELSE [p |-> Head(z.rest), rest |-> Tail(z.rest)]
luaZ_lookahead(z) == IF z.p = <<>> THEN luaZ_fill(z) ELSE z

\* Mutant: what the next piece gives is put before the end of this one.
ReadTurn_Swapped(r) ==
  LET y == luaZ_lookahead(r.z)
      m == IF r.missing <= Len(y.p) THEN r.missing ELSE Len(y.p)
  IN  [z |-> [y EXCEPT !.p = SubSeq(@, m + 1, Len(@))], b |-> SubSeq(y.p, 1, m) \o r.b,
       missing |-> r.missing - m, eoz |-> y.p = <<>>]

\* A turn of the loop of luaZ_read, which has read b so far.
ReadTurn(r) ==
  LET y == luaZ_lookahead(r.z)
      m == IF r.missing <= Len(y.p) THEN r.missing ELSE Len(y.p)
  IN  [z |-> [y EXCEPT !.p = SubSeq(@, m + 1, Len(@))], b |-> r.b \o SubSeq(y.p, 1, m),
       missing |-> r.missing - m, eoz |-> y.p = <<>>]

\* Up to n bytes b, and how many are missing.  A turn that is not the last
\* reads a byte at least.
luaZ_read(z, n) ==
  LET Read[t \in 0..n] ==
        IF t = 0 THEN [z |-> z, b |-> <<>>, missing |-> n, eoz |-> FALSE]
        ELSE LET r == Read[t - 1] IN IF r.missing = 0 \/ r.eoz THEN r ELSE ReadTurn(r)
  IN  Read[n]
=============================================================================
