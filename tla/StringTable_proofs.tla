------------------------- MODULE StringTable_proofs -------------------------
(***************************************************************************)
(* Proofs about StringTable: strings are interned, the program's strings   *)
(* stay in the table and no sweep misses a dead one, for any number of     *)
(* strings, any hash function and any sizes.                               *)
(***************************************************************************)
EXTENDS StringTable, FiniteSetTheorems, TLAPS

\* What the program holds is never dead: atomic marks it, and a string that
\* luaS_newlstr finds dead is brought back.  Without this part StringsLive is
\* not inductive.
HeldAlive == \A o \in held : ~isdead(o)

\* The sweep stops before the end of the table.
SweepIndex == gcstate = "sweepstring" => sweepstrgc < size

IInv == TypeOK /\ Interned /\ StringsLive /\ DeadOnlyUnswept /\ HeldAlive /\ SweepIndex

----------------------------------------------------------------------------
(* The chains.                                                             *)

Union(h) == UNION {h[i] : i \in DOMAIN h}

\* The chains h hold strings of contents S where a table of n chains has them.
Placed(h, n, S) ==
    /\ h \in [0 .. n - 1 -> SUBSET Obj]
    /\ \A i \in 0 .. n - 1 : \A o \in h[i] : S[o] \in Str /\ lmod(S[o], n) = i

\* A hash value gives an index of the table.
LEMMA LmodType ==
    ASSUME NEW s \in Str, NEW n \in Nat \ {0}
    PROVE  lmod(s, n) \in 0 .. n - 1
<1>1. Hash[s] \in Nat
  BY StringTableAssumption
<1> QED BY <1>1 DEF lmod

\* What is in a chain is in the table, and nothing else is.
LEMMA UnionIs ==
    ASSUME NEW n, NEW h \in [0 .. n - 1 -> SUBSET Obj]
    PROVE  /\ Union(h) \subseteq Obj
           /\ \A o \in Union(h) : \E i \in 0 .. n - 1 : o \in h[i]
           /\ \A i \in 0 .. n - 1 : h[i] \subseteq Union(h)
BY DEF Union

\* A string that is placed is in the chain of its hash.
LEMMA PlacedAt ==
    ASSUME NEW n, NEW h, NEW S, Placed(h, n, S), NEW o \in Union(h)
    PROVE  S[o] \in Str /\ o \in h[lmod(S[o], n)] /\ lmod(S[o], n) \in 0 .. n - 1
<1>1. h \in [0 .. n - 1 -> SUBSET Obj]
  BY DEF Placed
<1>2. PICK i \in 0 .. n - 1 : o \in h[i]
  BY <1>1, UnionIs
<1>3. S[o] \in Str /\ lmod(S[o], n) = i
  BY <1>2 DEF Placed
<1> QED BY <1>2, <1>3

\* Rehashing loses no string and places every one.
LEMMA RehashedPlaced ==
    ASSUME NEW m, NEW n \in Nat \ {0}, NEW h, NEW S, Placed(h, m, S)
    PROVE  Placed(Rehashed(h, n, S), n, S) /\ Union(Rehashed(h, n, S)) = Union(h)
<1> DEFINE r == Rehashed(h, n, S)
<1>1. Union(h) \subseteq Obj /\ \A o \in Union(h) : S[o] \in Str
  BY UnionIs, PlacedAt DEF Placed
<1>2. r = [i \in 0 .. n - 1 |-> {o \in Union(h) : lmod(S[o], n) = i}]
  BY DEF Rehashed, Union
<1>3. Placed(r, n, S)
  BY <1>1, <1>2 DEF Placed
<1>4. Union(r) \subseteq Union(h)
  BY <1>2 DEF Union
<1>5. ASSUME NEW o \in Union(h) PROVE o \in Union(r)
  <2>1. lmod(S[o], n) \in 0 .. n - 1
    BY <1>1, LmodType
  <2>2. o \in r[lmod(S[o], n)]
    BY <1>2, <2>1
  <2> QED BY <2>1, <2>2, <1>3, UnionIs DEF Placed
<1> QED BY <1>3, <1>4, <1>5

\* luaS_resize, to any size, keeps the table in order.
LEMMA ResizePlaced ==
    ASSUME NEW n \in Nat \ {0}, NEW h, NEW S, Placed(h, size, S), size \in Nat \ {0},
           luaS_resize(h, n, S)
    PROVE  /\ Placed(hash', size', S) /\ Union(hash') = Union(h) /\ size' \in {size, n}
           /\ gcstate = "sweepstring" => hash' = h /\ size' = size
BY RehashedPlaced DEF luaS_resize

\* Placed is what Interned says of the chains.
LEMMA PlacedIs ==
    ASSUME NEW n \in Nat \ {0}, NEW h \in [0 .. n - 1 -> SUBSET Obj],
           NEW S \in [Obj -> Str \cup {None}]
    PROVE  Placed(h, n, S) <=>
               \A i \in DOMAIN h : \A o \in h[i] : S[o] # None /\ Hash[S[o]] % n = i
<1>1. \A i \in 0 .. n - 1 : \A o \in h[i] : S[o] # None <=> S[o] \in Str
  BY StringTableAssumption
<1> QED BY <1>1 DEF Placed, lmod

\* The invariant in terms of Placed.
LEMMA InternedIs ==
    ASSUME TypeOK
    PROVE  /\ InTable = Union(hash)
           /\ Interned <=> /\ Placed(hash, size, str)
                           /\ nuse = Cardinality(InTable)
                           /\ \A o, p \in InTable : str[o] = str[p] => o = p
BY PlacedIs DEF TypeOK, InTable, Union, Interned, lmod

\* The same, of the next state.
LEMMA InternedNext ==
    ASSUME TypeOK'
    PROVE  /\ InTable' = Union(hash')
           /\ Interned' <=> /\ Placed(hash', size', str')
                            /\ nuse' = Cardinality(InTable')
                            /\ \A o, p \in InTable' : str'[o] = str'[p] => o = p
BY PlacedIs DEF TypeOK, InTable, Union, Interned, lmod

----------------------------------------------------------------------------
(* The invariant holds at the start.                                       *)

\* The table is filled with the fixed strings, each once.
LEMMA InitIInv == Init => IInv
<1> SUFFICES ASSUME Init PROVE IInv
  OBVIOUS
<1>1. size \in Nat \ {0}
  BY StringTableAssumption DEF Init
<1>2. \A o \in Obj : str[o] \in Fixed => str[o] \in Str /\ lmod(str[o], size) \in 0 .. size - 1
  BY <1>1, LmodType, StringTableAssumption
<1>3. Placed(hash, size, str)
  BY <1>1, <1>2 DEF Init, Placed
<1>4. Union(hash) = {o \in Obj : str[o] \in Fixed}
  BY <1>1, <1>2 DEF Init, Union
<1>5. ASSUME NEW s \in Fixed
      PROVE  \E o \in Obj : {p \in Obj : str[p] = s} = {o}
  <2> DEFINE T == {p \in Obj : str[p] = s}
  <2>1. IsFiniteSet(T) /\ Cardinality(T) = 1
    BY FS_Subset, StringTableAssumption DEF Init
  <2>2. PICK o : T = {o}
    BY <2>1, FS_Singleton
  <2> QED BY <2>2
<1>6. \A o, p \in Union(hash) : str[o] = str[p] => o = p
  BY <1>4, <1>5
<1>7. \A s \in Fixed : \E o \in Union(hash) : str[o] = s
  BY <1>4, <1>5
<1>8. IsFiniteSet(Union(hash))
  BY <1>4, FS_Subset, StringTableAssumption
<1>9. Cardinality(Union(hash)) = Cardinality(Fixed) /\ IsFiniteSet(Fixed)
  <2> DEFINE f == [o \in Union(hash) |-> str[o]]
  <2>1. f \in Surjection(Union(hash), Fixed)
    BY <1>4, <1>7 DEF Surjection
  <2>2. f \in Injection(Union(hash), Fixed)
    BY <1>4, <1>6 DEF Injection, IsInjective
  <2> QED BY <1>8, <2>1, <2>2, FS_Surjection
<1>10. TypeOK
  BY <1>1, <1>3, <1>9, FS_CardinalityType, StringTableAssumption
     DEF Init, Placed, TypeOK, White
<1>11. InTable = Union(hash) /\ Interned
  BY <1>3, <1>6, <1>9, <1>10, InternedIs DEF Init
<1>12. StringsLive /\ DeadOnlyUnswept /\ HeldAlive /\ SweepIndex
  <2>1. \A o \in Obj : ~isdead(o)
    BY DEF Init, isdead, otherwhite
  <2> QED BY <2>1, <1>7, <1>10, <1>11 DEF Init, StringsLive, DeadOnlyUnswept, HeldAlive, SweepIndex, TypeOK
<1> QED BY <1>10, <1>11, <1>12 DEF IInv

----------------------------------------------------------------------------
(* Every step keeps the invariant.                                         *)

USE DEF vars, table, gc

\* What the invariant says of the table and of the two whites.
LEMMA IInvFacts ==
    ASSUME IInv
    PROVE  /\ size \in Nat \ {0} /\ Placed(hash, size, str)
           /\ InTable = Union(hash) /\ InTable \subseteq Obj /\ IsFiniteSet(InTable)
           /\ currentwhite \in White /\ otherwhite \in White /\ otherwhite # currentwhite
<1>1. Placed(hash, size, str) /\ InTable = Union(hash)
  BY InternedIs DEF IInv
<1>2. InTable \subseteq Obj /\ IsFiniteSet(InTable)
  BY <1>1, UnionIs, FS_Subset, StringTableAssumption DEF Placed
<1>3. currentwhite \in White /\ otherwhite \in White /\ otherwhite # currentwhite
  BY DEF IInv, TypeOK, White, otherwhite
<1> QED BY <1>1, <1>2, <1>3 DEF IInv, TypeOK

\* Only strings of chains still to be swept are dead.
LEMMA DeadIs ==
    ASSUME IInv, NEW o \in InTable, isdead(o)
    PROVE  gcstate = "sweepstring" /\ lmod(str[o], size) >= sweepstrgc /\ o \notin held
<1>1. o \in hash[lmod(str[o], size)] /\ lmod(str[o], size) \in DOMAIN hash
  BY IInvFacts, PlacedAt DEF IInv, TypeOK
<1> QED BY <1>1 DEF IInv, DeadOnlyUnswept, HeldAlive

\* What a step has to show of the strings, once they are placed.
LEMMA StringsNext ==
    ASSUME TypeOK', Placed(hash', size', str'), nuse' = Cardinality(InTable'),
           \A o, p \in InTable' : str'[o] = str'[p] => o = p,
           held' \subseteq InTable',
           \A s \in Fixed : \E o \in InTable' : str'[o] = s,
           \A o \in InTable' : isdead(o)' =>
               /\ gcstate' = "sweepstring" /\ lmod(str'[o], size') >= sweepstrgc'
               /\ o \notin held',
           SweepIndex'
    PROVE  IInv'
<1>1. Interned' /\ InTable' = Union(hash')
  BY InternedNext
<1>2. StringsLive' /\ HeldAlive'
  BY DEF StringsLive, HeldAlive
<1>3. DeadOnlyUnswept'
  <2> SUFFICES ASSUME NEW i \in 0 .. size' - 1, NEW o \in hash'[i], isdead(o)'
               PROVE  gcstate' = "sweepstring" /\ i >= sweepstrgc'
    BY DEF DeadOnlyUnswept, TypeOK
  <2>1. o \in InTable' /\ lmod(str'[o], size') = i
    BY <1>1, UnionIs DEF Placed
  <2> QED BY <2>1
<1> QED BY <1>1, <1>2, <1>3 DEF IInv

\* A step that leaves the strings and only rearranges the chains.
LEMMA SameStrings ==
    ASSUME IInv, TypeOK', Placed(hash', size', str), Union(hash') = Union(hash),
           UNCHANGED <<nuse, str>>, held' \subseteq InTable,
           \A o \in InTable : isdead(o)' =>
               /\ gcstate' = "sweepstring" /\ lmod(str[o], size') >= sweepstrgc'
               /\ o \notin held',
           SweepIndex'
    PROVE  IInv'
<1>1. InTable' = InTable
  BY IInvFacts, InternedNext
<1>2. /\ nuse = Cardinality(InTable)
      /\ \A o, p \in InTable : str[o] = str[p] => o = p
      /\ \A s \in Fixed : \E o \in InTable : str[o] = s
  BY DEF IInv, Interned, StringsLive
<1> QED BY <1>1, <1>2, StringsNext

\* A string that is looked up and found.
LEMMA FoundStep ==
    ASSUME IInv, NEW s \in Str, NEW o \in Obj, o \in Lookup(s), Found(o),
           UNCHANGED <<table, gc>>, held' = held \cup {o}
    PROVE  IInv'
<1>1. lmod(s, size) \in 0 .. size - 1 /\ hash \in [0 .. size - 1 -> SUBSET Obj]
  BY IInvFacts, LmodType DEF Placed
<1>2. o \in InTable
  BY <1>1, IInvFacts, UnionIs DEF Lookup
<1>3. \A p \in Obj : mark'[p] = IF p = o /\ isdead(o) THEN currentwhite ELSE mark[p]
  BY DEF Found, IInv, TypeOK
<1>4. TypeOK'
  BY <1>2, IInvFacts DEF Found, IInv, TypeOK
<1>5. \A p \in InTable : isdead(p)' => isdead(p) /\ p # o
  BY <1>3, IInvFacts DEF isdead, otherwhite
<1>6. held' \subseteq InTable /\ Placed(hash', size', str) /\ Union(hash') = Union(hash)
  BY <1>2, IInvFacts DEF IInv, StringsLive
<1>7. \A p \in InTable : isdead(p)' =>
          gcstate' = "sweepstring" /\ lmod(str[p], size') >= sweepstrgc' /\ p \notin held'
  BY <1>5, DeadIs
<1>8. SweepIndex'
  BY DEF IInv, SweepIndex
<1> QED BY <1>4, <1>6, <1>7, <1>8, IInvFacts, SameStrings

\* A new string: its object was free, and its contents in no other object.
LEMMA NewStep ==
    ASSUME IInv, NEW s \in Str, NEW o \in Obj, Lookup(s) = {}, str[o] = None,
           newlstr(s, o), UNCHANGED gc, held' = held \cup {o}
    PROVE  IInv'
<1> DEFINE h == [hash EXCEPT ![lmod(s, size)] = @ \cup {o}]
<1>1. lmod(s, size) \in 0 .. size - 1 /\ hash \in [0 .. size - 1 -> SUBSET Obj]
  BY IInvFacts, LmodType DEF Placed
<1>2. \A p \in InTable : str[p] \in Str /\ str[p] # s
  BY <1>1, IInvFacts, PlacedAt DEF Lookup
<1>3. o \notin InTable /\ s # None
  BY <1>2, StringTableAssumption
<1>4. /\ str' \in [Obj -> Str \cup {None}] /\ str'[o] = s
      /\ \A p \in InTable : str'[p] = str[p] /\ mark'[p] = mark[p]
      /\ mark' \in [Obj -> White \cup {"gray"}] /\ mark'[o] = currentwhite
      /\ nuse' = nuse + 1
  BY <1>3, IInvFacts DEF newlstr, IInv, TypeOK
<1>5. Placed(h, size, str')
  <2>1. h \in [0 .. size - 1 -> SUBSET Obj]
    BY <1>1
  <2>2. ASSUME NEW i \in 0 .. size - 1, NEW p \in h[i]
        PROVE  str'[p] \in Str /\ lmod(str'[p], size) = i
    <3>1. CASE p = o
      <4>1. i = lmod(s, size)
        BY <1>1, <1>3, <2>2, <3>1, IInvFacts, UnionIs
      <4> QED BY <1>4, <3>1, <4>1
    <3>2. CASE p # o
      <4>1. p \in hash[i]
        BY <1>1, <2>2, <3>2
      <4>2. p \in InTable
        BY <1>1, <4>1, IInvFacts, UnionIs
      <4> QED BY <1>4, <4>1, <4>2, IInvFacts DEF Placed
    <3> QED BY <3>1, <3>2
  <2> QED BY <2>1, <2>2 DEF Placed
<1>6. Union(h) = InTable \cup {o}
  <2>1. \A i \in 0 .. size - 1 : h[i] = IF i = lmod(s, size) THEN hash[i] \cup {o} ELSE hash[i]
    BY <1>1
  <2>2. DOMAIN h = 0 .. size - 1 /\ DOMAIN hash = 0 .. size - 1
    BY <1>1
  <2> QED BY <1>1, <2>1, <2>2, IInvFacts DEF Union
<1> HIDE DEF h
<1>7. /\ Placed(hash', size', str') /\ Union(hash') = InTable \cup {o}
      /\ size' \in Nat \ {0} /\ size' \in {size, 2 * size}
      /\ gcstate = "sweepstring" => size' = size
  <2>1. CASE nuse + 1 > size /\ size <= MaxSize
    <3>1. luaS_resize(h, 2 * size, str') /\ 2 * size \in Nat \ {0}
      BY <2>1, IInvFacts DEF newlstr, h
    <3> QED BY <1>5, <1>6, <3>1, IInvFacts, ResizePlaced
  <2>2. CASE ~(nuse + 1 > size /\ size <= MaxSize)
    <3>1. hash' = h /\ size' = size
      BY <2>2 DEF newlstr, h
    <3> QED BY <1>5, <1>6, <3>1, IInvFacts
  <2> QED BY <2>1, <2>2
<1>8. TypeOK'
  <2>1. hash' \in [0 .. size' - 1 -> SUBSET Obj]
    BY <1>7 DEF Placed
  <2>2. sweepstrgc' \in 0 .. size' /\ nuse' \in Nat
    BY <1>4, <1>7, IInvFacts DEF IInv, TypeOK
  <2> QED BY <1>4, <1>7, <2>1, <2>2 DEF IInv, TypeOK
<1>9. InTable' = InTable \cup {o}
  BY <1>7, <1>8, InternedNext
<1>10. nuse' = Cardinality(InTable')
  BY <1>3, <1>4, <1>9, IInvFacts, FS_AddElement DEF IInv, Interned
<1>11. \A p, q \in InTable' : str'[p] = str'[q] => p = q
  BY <1>2, <1>4, <1>9 DEF IInv, Interned
<1>12. held' \subseteq InTable' /\ \A t \in Fixed : \E p \in InTable' : str'[p] = t
  BY <1>4, <1>9 DEF IInv, StringsLive
<1>13. ASSUME NEW p \in InTable', isdead(p)'
       PROVE  gcstate' = "sweepstring" /\ lmod(str'[p], size') >= sweepstrgc' /\ p \notin held'
  <2>1. p \in InTable /\ isdead(p)
    BY <1>4, <1>9, <1>13, IInvFacts DEF isdead, otherwhite
  <2> QED BY <1>3, <1>4, <1>7, <2>1, DeadIs
<1>14. SweepIndex'
  BY <1>7, IInvFacts DEF IInv, SweepIndex, TypeOK
<1> QED BY <1>7, <1>8, <1>10, <1>11, <1>12, <1>13, <1>14, StringsNext

\* MarkString makes a string gray.
LEMMA MarkStep ==
    ASSUME IInv, NEW o \in Obj, MarkString(o)
    PROVE  IInv'
<1>1. \A p \in InTable : isdead(p)' => isdead(p)
  BY IInvFacts DEF MarkString, isdead, otherwhite, White, IInv, TypeOK
<1>2. TypeOK' /\ SweepIndex'
  BY DEF MarkString, IInv, TypeOK, SweepIndex
<1>3. held' \subseteq InTable /\ UNCHANGED <<table, gc, held>>
  BY DEF MarkString, IInv, StringsLive
<1> QED BY <1>1, <1>2, <1>3, IInvFacts, DeadIs, SameStrings

\* atomic: the sweep begins, with every string that is not held dead.
LEMMA AtomicStep ==
    ASSUME IInv, atomic
    PROVE  IInv'
<1>1. \A o \in InTable : isdead(o)' => o \notin held
  BY IInvFacts DEF atomic, isdead, otherwhite, White
<1>2. \A o \in InTable : lmod(str[o], size) >= 0
  BY IInvFacts, PlacedAt
<1>3. TypeOK' /\ SweepIndex' /\ sweepstrgc' = 0 /\ gcstate' = "sweepstring"
  BY IInvFacts DEF atomic, IInv, TypeOK, SweepIndex
<1>4. held' \subseteq InTable /\ UNCHANGED <<table, held>>
  BY DEF atomic, IInv, StringsLive
<1> QED BY <1>1, <1>2, <1>3, <1>4, IInvFacts, SameStrings

\* A step that touches neither the strings nor their marks, and that leaves
\* the sweep of the strings only if it was not in it.
LEMMA QuietStep ==
    ASSUME IInv, UNCHANGED <<table, mark, currentwhite>>, held' \subseteq held,
           full' \in {"no", "sweep", "collect"},
           gcstate' \in {"pause", "propagate", "sweepstring", "sweep", "finalize"},
           \/ gcstate' = gcstate /\ sweepstrgc' = sweepstrgc
           \/ /\ gcstate # "sweepstring"
              /\ sweepstrgc' \in 0 .. size
              /\ gcstate' = "sweepstring" => sweepstrgc' = 0
    PROVE  IInv'
<1>1. \A o \in InTable : isdead(o)' => isdead(o)
  BY DEF isdead, otherwhite
<1>2. TypeOK' /\ SweepIndex'
  BY IInvFacts DEF IInv, TypeOK, SweepIndex
<1>3. held' \subseteq InTable
  BY DEF IInv, StringsLive
<1> QED BY <1>1, <1>2, <1>3, IInvFacts, DeadIs, SameStrings

\* checkSizes: a halved table has every string, placed anew.
LEMMA CheckSizesStep ==
    ASSUME IInv, checkSizes
    PROVE  IInv'
<1>1. /\ Placed(hash', size', str) /\ Union(hash') = Union(hash)
      /\ size' \in Nat \ {0} /\ sweepstrgc' \in 0 .. size'
  <2>1. CASE nuse < size \div 4 /\ size > MinSize * 2
    <3>1. size \div 2 \in Nat \ {0}
      BY <2>1, IInvFacts, StringTableAssumption
    <3>2. luaS_resize(hash, size \div 2, str) /\ sweepstrgc' = size'
      BY <2>1 DEF checkSizes
    <3> QED BY <3>1, <3>2, IInvFacts, ResizePlaced
  <2>2. CASE ~(nuse < size \div 4 /\ size > MinSize * 2)
    BY <2>2, IInvFacts DEF checkSizes, IInv, TypeOK
  <2> QED BY <2>1, <2>2
<1>2. hash' \in [0 .. size' - 1 -> SUBSET Obj]
  BY <1>1 DEF Placed
<1>3. TypeOK' /\ SweepIndex'
  BY <1>1, <1>2 DEF checkSizes, IInv, TypeOK, SweepIndex
<1>4. \A o \in InTable : ~isdead(o)'
  BY DeadIs DEF checkSizes, isdead, otherwhite
<1>5. held' \subseteq InTable /\ UNCHANGED <<nuse, str>>
  BY DEF checkSizes, IInv, StringsLive
<1> QED BY <1>1, <1>3, <1>4, <1>5, SameStrings

\* sweepstring frees the dead strings of one chain, and only them.
LEMMA SweepStep ==
    ASSUME IInv, sweepstring
    PROVE  IInv'
<1> DEFINE g == sweepstrgc
           freed == {o \in hash[g] : ~Kept(o)}
<1>1. g \in 0 .. size - 1 /\ hash \in [0 .. size - 1 -> SUBSET Obj]
  BY IInvFacts DEF sweepstring, IInv, TypeOK, SweepIndex
<1>2. /\ freed \subseteq InTable /\ freed = {o \in hash[g] : isdead(o) /\ str[o] \notin Fixed}
      /\ \A o \in InTable : o \in hash[g] <=> lmod(str[o], size) = g
  <2>1. freed = {o \in hash[g] : isdead(o) /\ str[o] \notin Fixed}
    BY DEF Kept, isdead
  <2>2. hash[g] \subseteq InTable
    BY <1>1, IInvFacts, UnionIs
  <2>3. \A o \in InTable : o \in hash[g] <=> lmod(str[o], size) = g
    BY <1>1, IInvFacts, PlacedAt DEF Placed
  <2> QED BY <2>1, <2>2, <2>3
<1>3. /\ hash' = [hash EXCEPT ![g] = @ \ freed]
      /\ str' = [o \in Obj |-> IF o \in freed THEN None ELSE str[o]]
      /\ mark' = [o \in Obj |-> IF o \in hash[g] \ freed THEN currentwhite
                                ELSE IF o \in freed THEN "white0" ELSE mark[o]]
      /\ nuse' = nuse - Cardinality(freed)
      /\ sweepstrgc' = g + 1 /\ gcstate' = IF g + 1 >= size THEN "sweep" ELSE "sweepstring"
      /\ UNCHANGED <<size, currentwhite, full, held>>
  BY DEF sweepstring, SweepChain
<1> HIDE DEF freed, g
<1>4. /\ Placed(hash', size', str') /\ Union(hash') = InTable \ freed
      /\ \A o \in InTable \ freed : str'[o] = str[o]
  <2>1. /\ hash' \in [0 .. size - 1 -> SUBSET Obj]
        /\ \A i \in 0 .. size - 1 : hash'[i] = IF i = g THEN hash[i] \ freed ELSE hash[i]
    BY <1>1, <1>3
  <2>2. \A o \in Obj \ freed : str'[o] = str[o]
    BY <1>3
  <2>3. \A i \in 0 .. size - 1 : hash'[i] = hash[i] \ freed
    <3> SUFFICES ASSUME NEW i \in 0 .. size - 1, NEW o \in hash[i], i # g
                 PROVE  o \notin freed
      BY <2>1
    <3>1. o \in InTable /\ lmod(str[o], size) = i
      BY <1>1, IInvFacts, UnionIs DEF Placed
    <3> QED BY <1>2, <3>1 DEF freed
  <2>4. Placed(hash', size', str')
    BY <1>1, <1>3, <2>1, <2>2, <2>3, IInvFacts DEF Placed
  <2>5. Union(hash') = Union(hash) \ freed
    BY <1>1, <2>1, <2>3 DEF Union
  <2> QED BY <2>2, <2>4, <2>5, IInvFacts
<1>5. IsFiniteSet(freed) /\ nuse = Cardinality(InTable) /\ InTable \cap freed = freed
  BY <1>2, IInvFacts, FS_Subset DEF IInv, Interned
<1>6. nuse' = Cardinality(InTable \ freed) /\ nuse' \in Nat
  <2>1. /\ IsFiniteSet(InTable \ freed)
        /\ Cardinality(InTable \ freed) = Cardinality(InTable) - Cardinality(InTable \cap freed)
    BY IInvFacts, FS_Difference
  <2>2. Cardinality(InTable \ freed) \in Nat
    BY <2>1, FS_CardinalityType
  <2> QED BY <1>3, <1>5, <2>1, <2>2
<1>7. TypeOK'
  <2>1. hash' \in [0 .. size' - 1 -> SUBSET Obj]
    BY <1>4 DEF Placed
  <2>2. str' \in [Obj -> Str \cup {None}] /\ mark' \in [Obj -> White \cup {"gray"}]
    BY <1>3, IInvFacts DEF IInv, TypeOK, White
  <2>3. sweepstrgc' \in 0 .. size' /\ gcstate' \in {"sweepstring", "sweep"}
    BY <1>1, <1>3, IInvFacts
  <2> QED BY <1>3, <1>6, <2>1, <2>2, <2>3 DEF IInv, TypeOK
<1>8. InTable' = InTable \ freed
  BY <1>4, <1>7, InternedNext
<1>9. held' \subseteq InTable'
  BY <1>2, <1>3, <1>8 DEF IInv, StringsLive, HeldAlive
<1>10. \A t \in Fixed : \E o \in InTable' : str'[o] = t
  BY <1>2, <1>4, <1>8 DEF IInv, StringsLive
<1>11. \A o, p \in InTable' : str'[o] = str'[p] => o = p
  BY <1>4, <1>8 DEF IInv, Interned
<1>12. ASSUME NEW o \in InTable', isdead(o)'
       PROVE  gcstate' = "sweepstring" /\ lmod(str'[o], size') >= sweepstrgc' /\ o \notin held'
  <2>1. o \in InTable /\ o \notin freed /\ o \in Obj
    BY <1>8, IInvFacts
  <2>2. o \notin hash[g] /\ isdead(o)
    BY <1>3, <1>12, <2>1, IInvFacts DEF isdead, otherwhite
  <2>3. lmod(str[o], size) >= g /\ o \notin held
    BY <2>1, <2>2, DeadIs DEF g
  <2>4. lmod(str[o], size) # g
    BY <1>2, <2>1, <2>2
  <2>5. lmod(str[o], size) \in 0 .. size - 1
    BY <2>1, IInvFacts, PlacedAt
  <2> QED BY <1>1, <1>3, <1>4, <2>1, <2>3, <2>4, <2>5, IInvFacts
<1>13. SweepIndex'
  BY <1>1, <1>3, IInvFacts DEF SweepIndex
<1> QED BY <1>4, <1>6, <1>7, <1>8, <1>9, <1>10, <1>11, <1>12, <1>13, StringsNext

\* IInv is inductive.
LEMMA NextIInv == IInv /\ [Next]_vars => IInv'
<1> SUFFICES ASSUME IInv, [Next]_vars PROVE IInv'
  OBVIOUS
<1>0. TypeOK
  BY DEF IInv
<1>1. ASSUME NEW o \in Obj, NEW s \in Str, luaS_newlstr(s, o) PROVE IInv'
  BY <1>1, FoundStep, NewStep DEF luaS_newlstr
<1>2. ASSUME NEW o \in Obj, Forget(o) PROVE IInv'
  BY <1>0, <1>2, QuietStep DEF Forget, TypeOK
<1>3. ASSUME NEW o \in Obj, MarkString(o) PROVE IInv'
  BY <1>3, MarkStep
<1>4. CASE markroot
  BY <1>0, <1>4, QuietStep DEF markroot, TypeOK
<1>5. CASE atomic
  BY <1>5, AtomicStep
<1>6. CASE sweepstring
  BY <1>6, SweepStep
<1>7. CASE checkSizes
  BY <1>7, CheckSizesStep
<1>8. CASE EndCycle
  BY <1>0, <1>8, QuietStep DEF EndCycle, TypeOK
<1>9. CASE luaC_fullgc
  BY <1>0, <1>9, IInvFacts, QuietStep DEF luaC_fullgc, TypeOK
<1>10. CASE UNCHANGED vars
  BY <1>0, <1>10, QuietStep DEF TypeOK
<1> QED BY <1>1, <1>2, <1>3, <1>4, <1>5, <1>6, <1>7, <1>8, <1>9, <1>10 DEF Next

LEMMA Invariance == Spec => []IInv
BY InitIInv, NextIInv, PTL DEF Spec

----------------------------------------------------------------------------
(* What follows.                                                           *)

\* The variables keep their types: no count, index or mark leaves its range.
THEOREM TypeCorrect == Spec => []TypeOK
<1>1. IInv => TypeOK
  BY DEF IInv
<1> QED BY <1>1, Invariance, PTL

\* Two strings with the same contents are the same object, each is in the
\* chain of its hash, and nuse counts them, however the collector's sweep,
\* the doubling and the halving of the table and new strings interleave.
THEOREM InternedThm == Spec => []Interned
<1>1. IInv => Interned
  BY DEF IInv
<1> QED BY <1>1, Invariance, PTL

\* The collector frees no string the program holds and no fixed string.
THEOREM StringsLiveThm == Spec => []StringsLive
<1>1. IInv => StringsLive
  BY DEF IInv
<1> QED BY <1>1, Invariance, PTL

\* A dead string is only ever in a chain that is still to be swept.
THEOREM DeadOnlyUnsweptThm == Spec => []DeadOnlyUnswept
<1>1. IInv => DeadOnlyUnswept
  BY DEF IInv
<1> QED BY <1>1, Invariance, PTL
=============================================================================
