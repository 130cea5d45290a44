---------------------------- MODULE UpVals_proofs ----------------------------
(***************************************************************************)
(* Proofs about UpVals: open upvalues lead to the slots of their           *)
(* variables, closures keep their upvalues from the collector, and reads   *)
(* give what lexical scoping says, for any number of coroutines, closures, *)
(* upvalues and variables.                                                 *)
(***************************************************************************)
EXTENDS UpVals, FiniteSetTheorems, SequenceTheorems, TLAPS

\* The closures that the collector has not found unreachable.
Undead == {c \in Clo : upval[c] # None /\ c \notin dead}

\* What the program holds is not being freed, and neither is the upvalue of a
\* closure that is not: a closure may be reachable from another one, or
\* be dropped in the middle of a cycle.
Kept ==
    /\ held \cap Thread \subseteq alive
    /\ held \cap dead = {}
    /\ \A c \in Clo : c \in held \cup dead => upval[c] # None
    /\ \A u \in Uv : u \in dead => uv[u] # None
    /\ \A c \in Undead : uv[upval[c]] # None /\ upval[c] \notin dead

HistoryOK ==
    /\ val \in Seq(Data)
    /\ scope \in [Thread -> Seq(Nat)]
    /\ cap \in [Clo -> Seq(Nat)]

\* Slots and cells of active variables are in one-to-one correspondence.
Scopes ==
    /\ \A L \in Thread : Len(scope[L]) = Len(stack[L])
    /\ \A L \in Thread : \A i \in 1 .. Len(stack[L]) :
          scope[L][i] \in 1 .. Len(val) /\ stack[L][i] = val[scope[L][i]]
    /\ \A L, M \in Thread : \A i \in 1 .. Len(stack[L]), j \in 1 .. Len(stack[M]) :
          scope[L][i] = scope[M][j] => L = M /\ i = j

\* The cell a closure captured is that of its upvalue: of the slot, while it
\* is open, and one that nothing else has, afterwards.
Captured ==
    /\ \A c \in Undead : Len(cap[c]) = 1 /\ cap[c][1] \in 1 .. Len(val)
    /\ \A c \in Undead : IsOpen(upval[c]) =>
          cap[c][1] = scope[uv[upval[c]].v.thread][Level(upval[c])]
    /\ \A c \in Undead : ~IsOpen(upval[c]) =>
          /\ uv[upval[c]].v = val[cap[c][1]]
          /\ \A L \in Thread : \A i \in 1 .. Len(stack[L]) : scope[L][i] # cap[c][1]
    /\ \A c, d \in Undead : upval[c] = upval[d] <=> cap[c][1] = cap[d][1]

IInv == TypeOK /\ OpenLists /\ Kept /\ HistoryOK /\ Scopes /\ Captured

USE DEF stacks, closures, gc, vars

----------------------------------------------------------------------------
(* Sequences and lists.                                                    *)

LEMMA SeqOfIs ==
    ASSUME NEW S, NEW n \in Nat
    PROVE  SeqOf(S, n) = {s \in Seq(S) : Len(s) <= n}
<1>1. ASSUME NEW s \in SeqOf(S, n) PROVE s \in Seq(S) /\ Len(s) <= n
  <2>1. PICK m \in 0 .. n : s \in [1 .. m -> S]
    BY <1>1 DEF SeqOf
  <2>2. m \in Nat /\ s \in Seq(S) /\ Len(s) = m
    BY <2>1, IsASeq, LenProperties
  <2> QED BY <2>1, <2>2
<1>2. ASSUME NEW s \in Seq(S), Len(s) <= n PROVE s \in SeqOf(S, n)
  <2>1. s \in [1 .. Len(s) -> S] /\ Len(s) \in 0 .. n
    BY <1>2, LenProperties
  <2> QED BY <2>1 DEF SeqOf
<1> QED BY <1>1, <1>2

\* A function changed at one point.
LEMMA UpdateType ==
    ASSUME NEW A, NEW B, NEW g \in [A -> B], NEW x \in A, NEW y \in B
    PROVE  /\ [g EXCEPT ![x] = y] \in [A -> B] /\ [g EXCEPT ![x] = y][x] = y
           /\ \A z \in A : z # x => [g EXCEPT ![x] = y][z] = g[z]
OBVIOUS

LEMMA Concat3 ==
    ASSUME NEW S, NEW a \in Seq(S), NEW b \in Seq(S), NEW e \in S
    PROVE  /\ (a \o <<e>>) \o b \in Seq(S) /\ Len((a \o <<e>>) \o b) = Len(a) + Len(b) + 1
           /\ ((a \o <<e>>) \o b)[Len(a) + 1] = e
           /\ \A i \in 1 .. Len(a) : ((a \o <<e>>) \o b)[i] = a[i]
           /\ \A i \in 1 .. Len(b) : ((a \o <<e>>) \o b)[Len(a) + i + 1] = b[i]
<1>1. PICK c \in Seq(S) : c = <<e>> /\ Len(c) = 1 /\ c[1] = e
  <2>1. <<e>> \in Seq(S) /\ Len(<<e>>) = 1 /\ <<e>>[1] = e
    OBVIOUS
  <2> QED BY <2>1, Zenon
<1>2. Len(a) \in Nat /\ Len(b) \in Nat
  BY LenProperties
<1>3. PICK d \in Seq(S) : d = a \o c
  BY ConcatProperties
<1>4. Len(d) = Len(a) + 1 /\ d[Len(a) + 1] = e /\ \A i \in 1 .. Len(a) : d[i] = a[i]
  <2>1. /\ Len(d) = Len(a) + Len(c)
        /\ \A i \in 1 .. Len(a) + Len(c) : d[i] = IF i <= Len(a) THEN a[i] ELSE c[i - Len(a)]
    BY <1>3, ConcatProperties
  <2>2. /\ Len(a) + 1 \in 1 .. Len(a) + Len(c) /\ ~(Len(a) + 1 <= Len(a))
        /\ Len(a) + 1 - Len(a) = 1
    BY <1>1, <1>2
  <2>3. \A i \in 1 .. Len(a) : i \in 1 .. Len(a) + Len(c) /\ i <= Len(a)
    BY <1>1, <1>2
  <2> QED BY <1>1, <2>1, <2>2, <2>3
<1>5. PICK t : t = d \o b
  OBVIOUS
<1>6. /\ t \in Seq(S) /\ Len(t) = Len(d) + Len(b)
      /\ \A i \in 1 .. Len(d) + Len(b) : t[i] = IF i <= Len(d) THEN d[i] ELSE b[i - Len(d)]
  BY <1>5, ConcatProperties
<1>7. \A i \in 1 .. Len(a) + 1 : t[i] = d[i]
  <2>1. \A i \in 1 .. Len(a) + 1 : i \in 1 .. Len(d) + Len(b) /\ i <= Len(d)
    BY <1>2, <1>4
  <2> QED BY <1>6, <2>1
<1>8. t[Len(a) + 1] = e /\ \A i \in 1 .. Len(a) : t[i] = a[i]
  <2>1. Len(a) + 1 \in 1 .. Len(a) + 1 /\ \A i \in 1 .. Len(a) : i \in 1 .. Len(a) + 1
    BY <1>2
  <2> QED BY <1>4, <1>7, <2>1
<1>9. ASSUME NEW i \in 1 .. Len(b) PROVE t[Len(a) + i + 1] = b[i]
  <2>1. /\ Len(a) + i + 1 \in 1 .. Len(d) + Len(b) /\ ~(Len(a) + i + 1 <= Len(d))
        /\ Len(a) + i + 1 - Len(d) = i
    BY <1>2, <1>4
  <2> QED BY <1>6, <2>1
<1>10. Len(t) = Len(a) + Len(b) + 1
  BY <1>2, <1>4, <1>6
<1>11. t = (a \o <<e>>) \o b
  BY <1>1, <1>3, <1>5
<1> QED BY <1>6, <1>8, <1>9, <1>10, <1>11

LEMMA InsertDef ==
    ASSUME NEW s, NEW m, NEW e
    PROVE  InsertAt(s, m, e) = (SubSeq(s, 1, m - 1) \o <<e>>) \o SubSeq(s, m, Len(s))
BY DEF InsertAt

\* t is s, with e after its place k.
InsertIs(t, s, k, e) ==
    /\ Len(t) = Len(s) + 1 /\ t[k + 1] = e
    /\ \A i \in 1 .. k : t[i] = s[i]
    /\ \A i \in k + 1 .. Len(s) : t[i + 1] = s[i]

LEMMA InsertProperties ==
    ASSUME NEW S, NEW s \in Seq(S), NEW k \in 0 .. Len(s), NEW e \in S,
           NEW t, t = InsertAt(s, k + 1, e)
    PROVE  t \in Seq(S) /\ InsertIs(t, s, k, e)
<1> DEFINE m == k + 1
<1>1. Len(s) \in Nat /\ k \in Nat /\ k + 1 - 1 = k /\ \A i \in 1 .. Len(s) : s[i] \in S
  BY LenProperties, ElementOfSeq
<1>2. /\ SubSeq(s, 1, k) \in Seq(S) /\ Len(SubSeq(s, 1, k)) = k
      /\ \A i \in 1 .. k : SubSeq(s, 1, k)[i] = s[i]
  <2>1. \A i \in 1 .. k : s[i] \in S
    BY <1>1
  <2> QED BY <1>1, <2>1, SubSeqProperties
<1>3. /\ SubSeq(s, k + 1, Len(s)) \in Seq(S) /\ Len(SubSeq(s, k + 1, Len(s))) = Len(s) - k
      /\ \A i \in 1 .. Len(s) - k : SubSeq(s, k + 1, Len(s))[i] = s[k + i]
  BY <1>1, SubSeqProperties
<1>4. PICK a \in Seq(S) : a = SubSeq(s, 1, k)
  BY <1>2
<1>5. PICK b \in Seq(S) : b = SubSeq(s, k + 1, Len(s))
  BY <1>3
<1>6. InsertAt(s, m, e) = (a \o <<e>>) \o b
  <2>2. InsertAt(s, m, e) = (SubSeq(s, 1, m - 1) \o <<e>>) \o SubSeq(s, m, Len(s))
    BY InsertDef
  <2>3. m - 1 = k
    BY <1>1
  <2>4. SubSeq(s, 1, m - 1) = a /\ SubSeq(s, m, Len(s)) = b
    BY <1>4, <1>5, <2>3
  <2> QED BY <2>2, <2>4
<1>7. PICK d : d = (a \o <<e>>) \o b
  OBVIOUS
<1>8. /\ d \in Seq(S) /\ Len(d) = Len(s) + 1 /\ d[k + 1] = e
      /\ \A i \in 1 .. k : d[i] = s[i]
      /\ \A i \in 1 .. Len(s) - k : d[k + i + 1] = b[i]
  <2>1. /\ Len(a) = k /\ \A i \in 1 .. k : a[i] = s[i]
        /\ Len(b) = Len(s) - k
    BY <1>2, <1>3, <1>4, <1>5
  <2>2. /\ d \in Seq(S) /\ Len(d) = Len(a) + Len(b) + 1 /\ d[Len(a) + 1] = e
        /\ \A i \in 1 .. Len(a) : d[i] = a[i]
        /\ \A i \in 1 .. Len(b) : d[Len(a) + i + 1] = b[i]
    <3>1. /\ (a \o <<e>>) \o b \in Seq(S) /\ Len((a \o <<e>>) \o b) = Len(a) + Len(b) + 1
          /\ ((a \o <<e>>) \o b)[Len(a) + 1] = e
          /\ \A i \in 1 .. Len(a) : ((a \o <<e>>) \o b)[i] = a[i]
          /\ \A i \in 1 .. Len(b) : ((a \o <<e>>) \o b)[Len(a) + i + 1] = b[i]
      BY Concat3
    <3> QED BY <1>7, <3>1, Zenon
  <2> QED BY <1>1, <2>1, <2>2
<1>9. ASSUME NEW i \in k + 1 .. Len(s) PROVE d[i + 1] = s[i]
  <2>1. PICK j \in 1 .. Len(s) - k : j = i - k /\ k + j = i /\ k + j + 1 = i + 1
    BY <1>1
  <2>2. d[k + j + 1] = b[j]
    BY <1>8, <2>1
  <2> QED BY <1>3, <1>5, <2>1, <2>2
<1> QED BY <1>6, <1>7, <1>8, <1>9 DEF InsertIs

LEMMA DropProperties ==
    ASSUME NEW S, NEW s \in Seq(S), NEW k \in 0 .. Len(s)
    PROVE  /\ SubSeq(s, k + 1, Len(s)) \in Seq(S) /\ Len(SubSeq(s, k + 1, Len(s))) = Len(s) - k
           /\ \A i \in 1 .. Len(s) - k : SubSeq(s, k + 1, Len(s))[i] = s[k + i]
<1>1. Len(s) \in Nat /\ \A i \in 1 .. Len(s) : s[i] \in S
  BY LenProperties, ElementOfSeq
<1> QED BY <1>1, SubSeqProperties

\* A set of positions that has all positions before each of its own.
LEMMA Prefix ==
    ASSUME NEW n \in Nat, NEW K \in SUBSET (1 .. n), \A k \in K : 1 .. k \subseteq K
    PROVE  Cardinality(K) \in 0 .. n /\ K = 1 .. Cardinality(K)
<1>1. IsFiniteSet(1 .. n) /\ Cardinality(1 .. n) = n
  BY FS_Interval
<1>2. IsFiniteSet(K) /\ Cardinality(K) \in Nat /\ Cardinality(K) <= n
  <2>1. IsFiniteSet(K) /\ Cardinality(K) <= Cardinality(1 .. n)
    BY <1>1, FS_Subset
  <2> QED BY <1>1, <2>1, FS_CardinalityType
<1>3. ASSUME NEW k \in K PROVE k \in 1 .. Cardinality(K)
  <2>1. 1 .. k \subseteq K /\ k \in Nat \ {0}
    BY <1>3
  <2>2. Cardinality(1 .. k) = k
    BY <2>1, FS_Interval
  <2>3. k <= Cardinality(K)
    BY <1>2, <2>1, <2>2, FS_Subset
  <2> QED BY <1>2, <2>1, <2>3
<1>4. IsFiniteSet(1 .. Cardinality(K)) /\ Cardinality(1 .. Cardinality(K)) = Cardinality(K)
  BY <1>2, FS_Interval
<1>5. K = 1 .. Cardinality(K)
  BY <1>3, <1>4, FS_Subset
<1> QED BY <1>2, <1>5

\* Positions in a set, by their rank in it.
LEMMA Ranked ==
    ASSUME NEW l \in Nat, NEW K \in SUBSET (1 .. l)
    PROVE  /\ Cardinality(K) \in Nat
           /\ \A m \in 1 .. Cardinality(K) : Nth(K, m) \in K
           /\ \A i, m \in 1 .. Cardinality(K) : i < m => Nth(K, i) < Nth(K, m)
           /\ \A k \in K : \E m \in 1 .. Cardinality(K) : Nth(K, m) = k
<1> DEFINE R(k) == {j \in K : j <= k}
           g == [k \in K |-> Cardinality(R(k))]
<1>1. PICK n \in Nat : IsFiniteSet(K) /\ n = Cardinality(K)
  <2>1. IsFiniteSet(1 .. l)
    BY FS_Interval
  <2> QED BY <2>1, FS_Subset, FS_CardinalityType
<1>2. \A k \in K : k \in Nat
  OBVIOUS
<1>3. ASSUME NEW k \in K PROVE IsFiniteSet(R(k)) /\ Cardinality(R(k)) \in 1 .. n
  <2>1. R(k) \in SUBSET K /\ {k} \in SUBSET R(k)
    BY <1>2
  <2>2. IsFiniteSet(R(k)) /\ Cardinality(R(k)) \in Nat /\ Cardinality(R(k)) <= n
    BY <1>1, <2>1, FS_Subset, FS_CardinalityType
  <2>3. Cardinality({k}) = 1
    BY FS_Singleton
  <2>4. Cardinality({k}) <= Cardinality(R(k))
    BY <2>1, <2>2, FS_Subset
  <2> QED BY <1>1, <2>2, <2>3, <2>4
<1>4. ASSUME NEW j \in K, NEW k \in K, j < k PROVE Cardinality(R(j)) < Cardinality(R(k))
  <2>1. j \in Nat /\ k \in Nat /\ ~(k <= j)
    BY <1>2, <1>4
  <2>2. R(j) \in SUBSET R(k)
    <3>1. \A i \in K : i <= j => i <= k
      BY <1>2, <1>4, <2>1
    <3> QED BY <3>1
  <2>3. k \in R(k) /\ k \notin R(j)
    BY <2>1
  <2>4. IsFiniteSet(R(k)) /\ R(j) # R(k)
    BY <1>3, <2>3
  <2>5. Cardinality(R(j)) <= Cardinality(R(k)) /\ Cardinality(R(k)) # Cardinality(R(j))
    BY <2>2, <2>4, FS_Subset
  <2>6. Cardinality(R(j)) \in Nat /\ Cardinality(R(k)) \in Nat
    BY <1>1, <1>3
  <2> QED BY <2>5, <2>6
<1>5. g \in [K -> 1 .. n]
  BY <1>3
<1>6. \A j, k \in K : j < k => g[j] < g[k]
  BY <1>4
<1>7. \A k \in K : g[k] = Cardinality({j \in K : j <= k})
  OBVIOUS
<1> HIDE DEF g, R
<1>8. \A j, k \in K : g[j] = g[k] => j = k
  <2> SUFFICES ASSUME NEW j \in K, NEW k \in K, j # k PROVE g[j] # g[k]
    OBVIOUS
  <2>1. j \in Nat /\ k \in Nat /\ g[j] \in Nat /\ g[k] \in Nat
    BY <1>2, <1>5
  <2>2. CASE j < k
    BY <1>6, <2>1, <2>2
  <2>3. CASE k < j
    BY <1>6, <2>1, <2>3
  <2> QED BY <2>1, <2>2, <2>3
<1>9. \A m \in 1 .. n : \E k \in K : g[k] = m
  <2>1. g \in Injection(K, 1 .. n)
    BY <1>5, <1>8 DEF Injection, IsInjective
  <2>2. IsFiniteSet(1 .. n) /\ Cardinality(1 .. n) = n
    BY FS_Interval
  <2>3. g \in Surjection(K, 1 .. n)
    BY <1>1, <2>1, <2>2, FS_Injection
  <2> QED BY <2>3 DEF Surjection
<1>10. \A m \in 1 .. n : Nth(K, m) \in K /\ g[Nth(K, m)] = m
  <2> SUFFICES ASSUME NEW m \in 1 .. n PROVE Nth(K, m) \in K /\ g[Nth(K, m)] = m
    OBVIOUS
  <2>1. \E k \in K : Cardinality({j \in K : j <= k}) = m
    BY <1>7, <1>9
  <2>2. Nth(K, m) \in K /\ Cardinality({j \in K : j <= Nth(K, m)}) = m
    BY <2>1, Zenon DEF Nth
  <2> QED BY <1>7, <2>2
<1>11. ASSUME NEW i \in 1 .. n, NEW m \in 1 .. n, i < m PROVE Nth(K, i) < Nth(K, m)
  <2>1. PICK a \in K, b \in K : a = Nth(K, i) /\ b = Nth(K, m) /\ g[a] = i /\ g[b] = m
    BY <1>10
  <2>2. a # b /\ ~(b < a) /\ a \in Nat /\ b \in Nat
    BY <1>2, <1>6, <1>11, <2>1
  <2> QED BY <2>1, <2>2
<1>12. ASSUME NEW k \in K PROVE \E m \in 1 .. n : Nth(K, m) = k
  <2>1. PICK m \in 1 .. n : m = g[k]
    BY <1>5
  <2>2. Nth(K, m) \in K /\ g[Nth(K, m)] = g[k]
    BY <1>10, <2>1
  <2> QED BY <1>8, <2>2
<1> QED BY <1>1, <1>10, <1>11, <1>12

\* t has, in their order, the elements of s that are not in D.
Selects(t, s, D) ==
    \E f \in [1 .. Len(t) -> 1 .. Len(s)] :
        /\ \A j, k \in 1 .. Len(t) : j < k => f[j] < f[k]
        /\ \A j \in 1 .. Len(t) : t[j] = s[f[j]] /\ s[f[j]] \notin D
        /\ \A k \in 1 .. Len(s) : s[k] \notin D => \E j \in 1 .. Len(t) : f[j] = k

LEMMA WithoutProperties ==
    ASSUME NEW S, NEW s \in Seq(S), NEW D, NEW t, t = Without(s, D)
    PROVE  t \in Seq(S) /\ Selects(t, s, D)
<1>1. Len(s) \in Nat /\ DOMAIN s = 1 .. Len(s) /\ \A i \in 1 .. Len(s) : s[i] \in S
  BY LenProperties, ElementOfSeq
<1>2. PICK K \in SUBSET (1 .. Len(s)) : K = {k \in DOMAIN s : s[k] \notin D}
  BY <1>1
<1>3. PICK n \in Nat : n = Cardinality(K)
  BY <1>1, Ranked
<1>4. /\ \A m \in 1 .. n : Nth(K, m) \in K
      /\ \A i, m \in 1 .. n : i < m => Nth(K, i) < Nth(K, m)
      /\ \A k \in K : \E m \in 1 .. n : Nth(K, m) = k
  BY <1>1, <1>3, Ranked
<1>5. t = [m \in 1 .. n |-> s[Nth(K, m)]]
  BY <1>2, <1>3, Zenon DEF Without
<1>6. \A k \in K : k \in 1 .. Len(s) /\ s[k] \notin D /\ s[k] \in S
  BY <1>1, <1>2
<1>7. t \in Seq(S) /\ Len(t) = n /\ \A m \in 1 .. n : t[m] = s[Nth(K, m)]
  <2>1. t \in [1 .. n -> S]
    BY <1>4, <1>5, <1>6
  <2>2. t \in Seq(S)
    BY <2>1, SeqDef
  <2> QED BY <1>5, <2>1, <2>2, LenProperties
<1>8. PICK f : f = [m \in 1 .. n |-> Nth(K, m)]
  OBVIOUS
<1>9. /\ f \in [1 .. n -> 1 .. Len(s)] /\ \A m \in 1 .. n : f[m] = Nth(K, m)
      /\ \A k \in 1 .. Len(s) : s[k] \notin D => k \in K
  BY <1>1, <1>2, <1>4, <1>8
<1>10. /\ \A i, m \in 1 .. n : i < m => f[i] < f[m]
       /\ \A m \in 1 .. n : t[m] = s[f[m]] /\ s[f[m]] \notin D
       /\ \A k \in 1 .. Len(s) : s[k] \notin D => \E m \in 1 .. n : f[m] = k
  BY <1>4, <1>6, <1>7, <1>9
<1>11. Len(t) = n /\ f \in [1 .. n -> 1 .. Len(s)]
  BY <1>7, <1>9
<1>12. Selects(t, s, D)
  <2>1. \E h \in [1 .. n -> 1 .. Len(s)] :
          /\ \A j, k \in 1 .. n : j < k => h[j] < h[k]
          /\ \A j \in 1 .. n : t[j] = s[h[j]] /\ s[h[j]] \notin D
          /\ \A k \in 1 .. Len(s) : s[k] \notin D => \E j \in 1 .. n : h[j] = k
    BY <1>10, <1>11, Zenon
  <2>2. n = Len(t)
    BY <1>11
  <2> QED BY <2>1, <2>2 DEF Selects
<1> QED BY <1>7, <1>12

\* A sequence whose elements descend within 1 .. m has at most m of them.
LEMMA Descending ==
    ASSUME NEW n \in Nat, NEW m \in Nat, NEW f \in [1 .. n -> 1 .. m],
           \A j, k \in 1 .. n : j < k => f[j] > f[k]
    PROVE  n <= m
<1>1. \A j, k \in 1 .. n : j # k => f[j] # f[k]
  <2> SUFFICES ASSUME NEW j \in 1 .. n, NEW k \in 1 .. n, j < k PROVE f[j] # f[k]
    OBVIOUS
  <2>1. f[j] \in Nat /\ f[k] \in Nat /\ f[j] > f[k]
    OBVIOUS
  <2> QED BY <2>1
<1>2. f \in Injection(1 .. n, 1 .. m)
  BY <1>1 DEF Injection, IsInjective
<1>3. IsFiniteSet(1 .. m) /\ Cardinality(1 .. m) = m /\ Cardinality(1 .. n) = n
  BY FS_Interval
<1> QED BY <1>2, <1>3, FS_Injection

----------------------------------------------------------------------------
(* Upvalues and pointers.                                                  *)

LEMMA UpValCases ==
    ASSUME NEW x \in UpVal, x # None
    PROVE  \/ x.st = "open" /\ x.v \in Pointer /\ x = [st |-> "open", v |-> x.v]
           \/ x.st = "closed" /\ x.v \in Data /\ x = [st |-> "closed", v |-> x.v]
BY DEF UpVal

LEMMA UpValIntro ==
    /\ \A p \in Pointer : LET x == [st |-> "open", v |-> p]
       IN  x \in UpVal /\ x # None /\ x.st = "open" /\ x.v = p
    /\ \A d \in Data : LET x == [st |-> "closed", v |-> d]
       IN  x \in UpVal /\ x # None /\ x.st = "closed" /\ x.v = d
    /\ None \in UpVal
<1>1. ASSUME NEW p \in Pointer
      PROVE  [st |-> "open", v |-> p] \in UpVal /\ [st |-> "open", v |-> p] # None
  <2>1. [st |-> "open", v |-> p] \in [st : {"open", "closed"}, v : Pointer \cup Data]
    OBVIOUS
  <2>2. [st |-> "open", v |-> p] # None
    BY <2>1, NoneAssumption, Zenon
  <2> QED BY <2>2 DEF UpVal
<1>2. ASSUME NEW d \in Data
      PROVE  [st |-> "closed", v |-> d] \in UpVal /\ [st |-> "closed", v |-> d] # None
  <2>1. [st |-> "closed", v |-> d] \in [st : {"open", "closed"}, v : Pointer \cup Data]
    OBVIOUS
  <2>2. [st |-> "closed", v |-> d] # None
    BY <2>1, NoneAssumption, Zenon
  <2> QED BY <2>2 DEF UpVal
<1>3. None \in UpVal
  BY DEF UpVal
<1> QED BY <1>1, <1>2, <1>3

LEMMA PointerFacts ==
    ASSUME NEW p \in Pointer
    PROVE  /\ p.thread \in Thread /\ p.block \in Block /\ p.level \in 1 .. MaxTop
           /\ p = [thread |-> p.thread, block |-> p.block, level |-> p.level]
BY DEF Pointer

LEMMA SlotFacts ==
    ASSUME TypeOK, NEW L \in Thread, NEW i \in 1 .. MaxTop
    PROVE  /\ Slot(L, i) \in Pointer /\ Slot(L, i).thread = L
           /\ Slot(L, i).block = block[L] /\ Slot(L, i).level = i
BY DEF TypeOK, Slot, Pointer

LEMMA Types ==
    ASSUME TypeOK
    PROVE  /\ MaxTop \in Nat
           /\ \A L \in Thread : /\ stack[L] \in Seq(Data) /\ Len(stack[L]) \in Nat
                                /\ Len(stack[L]) <= MaxTop
                                /\ DOMAIN stack[L] = 1 .. Len(stack[L])
                                /\ \A i \in 1 .. Len(stack[L]) : stack[L][i] \in Data
           /\ \A L \in Thread : /\ openupval[L] \in Seq(Uv) /\ Len(openupval[L]) \in Nat
                                /\ DOMAIN openupval[L] = 1 .. Len(openupval[L])
                                /\ \A i \in 1 .. Len(openupval[L]) : openupval[L][i] \in Uv
           /\ \A u \in Uv : IsOpen(u) =>
                 /\ uv[u] # None /\ uv[u].v \in Pointer /\ uv[u].st = "open"
                 /\ uv[u] = [st |-> "open", v |-> uv[u].v]
                 /\ uv[u].v.thread \in Thread /\ Level(u) \in 1 .. MaxTop
           /\ \A u \in Uv : uv[u] # None /\ ~IsOpen(u) =>
                 /\ uv[u].st = "closed" /\ uv[u].v \in Data
                 /\ uv[u] = [st |-> "closed", v |-> uv[u].v]
<1>1. MaxTop \in Nat
  BY UpValAssumption
<1>2. ASSUME NEW S, NEW s \in BoundedSeq(S, MaxTop)
      PROVE  /\ s \in Seq(S) /\ Len(s) \in Nat /\ Len(s) <= MaxTop
             /\ DOMAIN s = 1 .. Len(s) /\ \A i \in 1 .. Len(s) : s[i] \in S
  <2>1. s \in Seq(S) /\ Len(s) <= MaxTop
    BY <1>1, SeqOfIs DEF BoundedSeq
  <2> QED BY <2>1, LenProperties, ElementOfSeq
<1>3. \A L \in Thread : stack[L] \in BoundedSeq(Data, MaxTop) /\ openupval[L] \in BoundedSeq(Uv, MaxTop)
  BY DEF TypeOK
<1>4. ASSUME NEW u \in Uv, IsOpen(u)
      PROVE  /\ uv[u] # None /\ uv[u].v \in Pointer /\ uv[u].st = "open"
             /\ uv[u] = [st |-> "open", v |-> uv[u].v]
             /\ uv[u].v.thread \in Thread /\ Level(u) \in 1 .. MaxTop
  <2>1. uv[u] \in UpVal /\ uv[u] # None /\ uv[u].st = "open"
    BY <1>4 DEF TypeOK, IsOpen
  <2>2. uv[u].v \in Pointer /\ uv[u] = [st |-> "open", v |-> uv[u].v]
    BY <2>1, UpValCases
  <2>3. uv[u].v.thread \in Thread /\ uv[u].v.level \in 1 .. MaxTop
    BY <2>2, PointerFacts
  <2> QED BY <2>1, <2>2, <2>3 DEF Level
<1>5. ASSUME NEW u \in Uv, uv[u] # None, ~IsOpen(u)
      PROVE  /\ uv[u].st = "closed" /\ uv[u].v \in Data
             /\ uv[u] = [st |-> "closed", v |-> uv[u].v]
  <2>1. uv[u] \in UpVal /\ uv[u].st # "open"
    BY <1>5 DEF TypeOK, IsOpen
  <2> QED BY <1>5, <2>1, UpValCases
<1> QED BY <1>1, <1>2, <1>3, <1>4, <1>5

\* The list of L, as a function of positions.
LEMMA Listed ==
    ASSUME TypeOK, OpenLists, NEW L \in Thread
    PROVE  /\ \A k \in 1 .. Len(openupval[L]) :
                 LET u == openupval[L][k]
                 IN  u \in Uv /\ IsOpen(u) /\ uv[u].v.thread = L /\ Level(u) \in 1 .. MaxTop
           /\ \A j, k \in 1 .. Len(openupval[L]) :
                 j < k => Level(openupval[L][j]) > Level(openupval[L][k])
           /\ \A u \in Uv : IsOpen(u) /\ uv[u].v.thread = L =>
                 \E k \in 1 .. Len(openupval[L]) : openupval[L][k] = u
<1>1. DOMAIN openupval[L] = 1 .. Len(openupval[L])
  BY Types
<1>2. ToSet(openupval[L]) = {u \in Uv : IsOpen(u) /\ uv[u].v.thread = L}
  BY DEF OpenLists
<1>3. ToSet(openupval[L]) = {openupval[L][k] : k \in 1 .. Len(openupval[L])}
  BY <1>1 DEF ToSet
<1>4. ASSUME NEW k \in 1 .. Len(openupval[L])
      PROVE  LET u == openupval[L][k]
             IN  u \in Uv /\ IsOpen(u) /\ uv[u].v.thread = L /\ Level(u) \in 1 .. MaxTop
  <2>1. PICK u : u = openupval[L][k]
    OBVIOUS
  <2>2. u \in Uv /\ IsOpen(u) /\ uv[u].v.thread = L
    BY <1>2, <1>3, <2>1
  <2>3. Level(u) \in 1 .. MaxTop
    BY <2>2, Types
  <2> QED BY <2>1, <2>2, <2>3
<1>5. \A j, k \in 1 .. Len(openupval[L]) :
        j < k => Level(openupval[L][j]) > Level(openupval[L][k])
  BY <1>1 DEF OpenLists
<1>6. ASSUME NEW u \in Uv, IsOpen(u), uv[u].v.thread = L
      PROVE  \E k \in 1 .. Len(openupval[L]) : openupval[L][k] = u
  BY <1>2, <1>3, <1>6
<1> QED BY <1>4, <1>5, <1>6

\* There is one open upvalue for a slot.
LEMMA OneForSlot ==
    ASSUME TypeOK, OpenLists, NEW u \in Uv, NEW w \in Uv, IsOpen(u), IsOpen(w),
           uv[u].v.thread = uv[w].v.thread, Level(u) = Level(w)
    PROVE  u = w
<1>1. PICK L \in Thread : L = uv[u].v.thread
  BY Types
<1>2. PICK j \in 1 .. Len(openupval[L]) : openupval[L][j] = u
  BY <1>1, Listed
<1>3. PICK k \in 1 .. Len(openupval[L]) : openupval[L][k] = w
  BY <1>1, Listed
<1>4. Level(u) \in Nat /\ Level(w) \in Nat
  <2>1. MaxTop \in Nat /\ Level(u) \in 1 .. MaxTop
    BY Types
  <2> QED BY <2>1
<1>5. ~(Level(u) > Level(w)) /\ ~(Level(w) > Level(u))
  BY <1>4
<1>6. ~(j < k) /\ ~(k < j)
  BY <1>2, <1>3, <1>5, Listed
<1>7. Len(openupval[L]) \in Nat
  BY Types
<1>8. j = k
  BY <1>6, <1>7
<1> QED BY <1>2, <1>3, <1>8

\* The loops of luaF_findupval and luaF_close pass exactly what is above n.
LEMMA AboveIs ==
    ASSUME TypeOK, OpenLists, NEW L \in Thread, NEW n \in Nat
    PROVE  /\ Above(L, n) \in 0 .. Len(openupval[L])
           /\ \A k \in 1 .. Len(openupval[L]) :
                 k <= Above(L, n) <=> Level(openupval[L][k]) > n
<1>1. PICK l \in Nat : l = Len(openupval[L]) /\ DOMAIN openupval[L] = 1 .. l
  BY Types
<1>2. PICK f : f = [k \in 1 .. l |-> Level(openupval[L][k])]
  OBVIOUS
<1>3. /\ \A k \in 1 .. l : f[k] = Level(openupval[L][k]) /\ f[k] \in Nat
      /\ \A j, k \in 1 .. l : j < k => f[j] > f[k]
  <2>1. \A k \in 1 .. l : Level(openupval[L][k]) \in 1 .. MaxTop
    BY <1>1, Listed
  <2>2. \A j, k \in 1 .. l : j < k => Level(openupval[L][j]) > Level(openupval[L][k])
    BY <1>1, Listed
  <2>3. MaxTop \in Nat
    BY Types
  <2> QED BY <1>2, <2>1, <2>2, <2>3
<1>4. PICK K \in SUBSET (1 .. l) : K = {k \in 1 .. l : \A j \in 1 .. k : f[j] > n}
  OBVIOUS
<1>5. \A k \in 1 .. l : \A j \in 1 .. k : j \in 1 .. l
  OBVIOUS
<1>6. K = {k \in DOMAIN openupval[L] : \A j \in 1 .. k : Level(openupval[L][j]) > n}
  BY <1>1, <1>3, <1>4, <1>5
<1>7. \A k \in K : 1 .. k \subseteq K
  BY <1>4
<1>8. Cardinality(K) \in 0 .. l /\ K = 1 .. Cardinality(K)
  BY <1>7, Prefix
<1>9. Above(L, n) = Cardinality(K)
  BY <1>6, Zenon DEF Above
<1>10. ASSUME NEW k \in 1 .. l PROVE k \in K <=> f[k] > n
  <2>1. ASSUME f[k] > n, NEW j \in 1 .. k PROVE f[j] > n
    <3>1. j \in 1 .. l /\ f[j] \in Nat /\ f[k] \in Nat
      BY <1>3
    <3>2. CASE j = k
      BY <2>1, <3>2
    <3>3. CASE j < k
      <4>1. f[j] > f[k]
        BY <1>3, <3>1, <3>3
      <4> QED BY <2>1, <3>1, <4>1
    <3> QED BY <3>2, <3>3
  <2>2. k \in 1 .. k
    OBVIOUS
  <2> QED BY <1>4, <2>1, <2>2
<1>11. \A k \in 1 .. l : k <= Above(L, n) <=> f[k] > n
  <2>1. \A k \in 1 .. l : k <= Cardinality(K) <=> k \in K
    BY <1>8
  <2> QED BY <1>9, <1>10, <2>1
<1> QED BY <1>1, <1>3, <1>8, <1>9, <1>11

\* The levels of a list bound its length.
LEMMA ListBounded ==
    ASSUME NEW s \in Seq(Uv), NEW f \in [1 .. Len(s) -> 1 .. MaxTop],
           \A j, k \in 1 .. Len(s) : j < k => f[j] > f[k]
    PROVE  s \in BoundedSeq(Uv, MaxTop)
<1>1. PICK n \in Nat : n = Len(s)
  BY LenProperties
<1>2. n <= MaxTop
  BY <1>1, UpValAssumption, Descending
<1> QED BY <1>1, <1>2, UpValAssumption, SeqOfIs DEF BoundedSeq

\* g is the descending f, with i after its place a.
Inserted(f, n, a, i, g) ==
    /\ f \in [1 .. n -> Nat] /\ g \in [1 .. n + 1 -> Nat]
    /\ \A j, k \in 1 .. n : j < k => f[j] > f[k]
    /\ \A k \in 1 .. n : (k <= a <=> f[k] > i) /\ f[k] # i
    /\ g[a + 1] = i /\ \A k \in 1 .. a : g[k] = f[k]
    /\ \A k \in a + 1 .. n : g[k + 1] = f[k]

LEMMA InsertDescending ==
    ASSUME NEW n \in Nat, NEW a \in 0 .. n, NEW i \in Nat, NEW f, NEW g,
           Inserted(f, n, a, i, g)
    PROVE  \A j, k \in 1 .. n + 1 : j < k => g[j] > g[k]
<1> USE DEF Inserted
<1>1. ASSUME NEW k \in a + 2 .. n + 1
      PROVE  k - 1 \in a + 1 .. n /\ k - 1 \in 1 .. n /\ g[k] = f[k - 1] /\ g[k] < i
  <2>1. k - 1 \in a + 1 .. n /\ k - 1 \in 1 .. n /\ k - 1 + 1 = k /\ ~(k - 1 <= a)
    OBVIOUS
  <2>2. g[k] = f[k - 1]
    BY <2>1
  <2>3. ~(f[k - 1] > i) /\ f[k - 1] # i /\ f[k - 1] \in Nat
    BY <2>1
  <2> QED BY <2>1, <2>2, <2>3
<1>2. \A k \in 1 .. a : k \in 1 .. n /\ g[k] = f[k] /\ g[k] > i
  OBVIOUS
<1> SUFFICES ASSUME NEW j \in 1 .. n + 1, NEW k \in 1 .. n + 1, j < k PROVE g[j] > g[k]
  OBVIOUS
<1>3. g[j] \in Nat /\ g[k] \in Nat
  OBVIOUS
<1>4. CASE j <= a /\ k <= a
  <2>1. j \in 1 .. a /\ k \in 1 .. a
    BY <1>4
  <2> QED BY <1>2, <2>1
<1>5. CASE j <= a /\ k = a + 1
  <2>1. j \in 1 .. a
    BY <1>5
  <2> QED BY <1>2, <1>5, <2>1
<1>6. CASE j <= a /\ k >= a + 2
  <2>1. j \in 1 .. a /\ k \in a + 2 .. n + 1
    BY <1>6
  <2> QED BY <1>1, <1>2, <1>3, <2>1
<1>7. CASE j = a + 1
  <2>1. k \in a + 2 .. n + 1
    BY <1>7
  <2> QED BY <1>1, <1>3, <1>7, <2>1
<1>8. CASE j >= a + 2
  <2>1. j \in a + 2 .. n + 1 /\ k \in a + 2 .. n + 1 /\ j - 1 < k - 1
    BY <1>8
  <2>2. /\ j - 1 \in 1 .. n /\ k - 1 \in 1 .. n
        /\ g[j] = f[j - 1] /\ g[k] = f[k - 1]
    BY <1>1, <2>1
  <2> QED BY <2>1, <2>2
<1>9. (j <= a \/ j = a + 1 \/ j >= a + 2) /\ (k <= a \/ k = a + 1 \/ k >= a + 2)
  OBVIOUS
<1> QED BY <1>4, <1>5, <1>6, <1>7, <1>8, <1>9

Ordered ==
    \A L \in Thread : \A j, k \in DOMAIN openupval[L] :
        j < k => Level(openupval[L][j]) > Level(openupval[L][k])
Listing ==
    \A L \in Thread : ToSet(openupval[L]) = {u \in Uv : IsOpen(u) /\ uv[u].v.thread = L}
Pointing ==
    \A u \in Uv : IsOpen(u) => uv[u].v.thread \in alive /\ Valid(uv[u].v)

\* A step gives L the list t, with levels f, of its open upvalues, and
\* changes nothing of the others.
GivesList(L, t, f) ==
    /\ openupval' = [openupval EXCEPT ![L] = t]
    /\ f \in [1 .. Len(t) -> 1 .. MaxTop]
    /\ \A j, k \in 1 .. Len(t) : j < k => f[j] > f[k]
    /\ \A k \in 1 .. Len(t) : /\ IsOpen(t[k])' /\ uv'[t[k]].v.thread = L
                              /\ uv'[t[k]].v.level = f[k]
    /\ \A w \in Uv : IsOpen(w)' /\ uv'[w].v.thread = L => \E k \in 1 .. Len(t) : t[k] = w
    /\ \A w \in Uv : uv'[w] = uv[w] \/ /\ IsOpen(w) => uv[w].v.thread = L
                                       /\ IsOpen(w)' => uv'[w].v.thread = L

LEMMA NewList ==
    ASSUME TypeOK, OpenLists, NEW L \in Thread, NEW t \in Seq(Uv), NEW f, GivesList(L, t, f)
    PROVE  openupval' \in [Thread -> BoundedSeq(Uv, MaxTop)] /\ Ordered' /\ Listing'
<1> USE DEF GivesList
<1>1. t \in BoundedSeq(Uv, MaxTop)
  BY ListBounded
<1>2. openupval \in [Thread -> BoundedSeq(Uv, MaxTop)]
  BY DEF TypeOK
<1>3. /\ openupval' \in [Thread -> BoundedSeq(Uv, MaxTop)] /\ openupval'[L] = t
      /\ \A M \in Thread : M # L => openupval'[M] = openupval[M]
  BY <1>1, <1>2, UpdateType
<1>4. PICK n \in Nat : n = Len(t) /\ DOMAIN t = 1 .. n /\ \A k \in 1 .. n : t[k] \in Uv
  BY LenProperties, ElementOfSeq
<1>5. ASSUME NEW M \in Thread, M # L, NEW k \in 1 .. Len(openupval[M])
      PROVE  uv'[openupval[M][k]] = uv[openupval[M][k]]
  <2>1. PICK w \in Uv : w = openupval[M][k] /\ IsOpen(w) /\ uv[w].v.thread = M
    BY Listed
  <2> QED BY <1>5, <2>1
<1>6. Ordered'
  <2>1. ASSUME NEW M \in Thread, NEW j \in DOMAIN openupval'[M], NEW k \in DOMAIN openupval'[M],
               j < k
        PROVE  uv'[openupval'[M][j]].v.level > uv'[openupval'[M][k]].v.level
    <3>1. CASE M = L
      BY <1>3, <1>4, <2>1, <3>1
    <3>2. CASE M # L
      <4>1. j \in 1 .. Len(openupval[M]) /\ k \in 1 .. Len(openupval[M])
        BY <1>3, <3>2, Types
      <4>2. Level(openupval[M][j]) > Level(openupval[M][k])
        BY <2>1, <4>1, Listed
      <4> QED BY <1>3, <1>5, <3>2, <4>1, <4>2 DEF Level
    <3> QED BY <3>1, <3>2
  <2> QED BY <2>1 DEF Ordered, Level
<1>7. Listing'
  <2>1. ASSUME NEW M \in Thread, NEW w \in Uv
        PROVE  w \in ToSet(openupval'[M]) <=> IsOpen(w)' /\ uv'[w].v.thread = M
    <3>1. CASE M = L
      <4>1. w \in ToSet(openupval'[M]) <=> \E k \in 1 .. n : t[k] = w
        BY <1>3, <1>4, <3>1 DEF ToSet
      <4> QED BY <1>4, <3>1, <4>1
    <3>2. CASE M # L
      <4>1. w \in ToSet(openupval'[M]) <=> IsOpen(w) /\ uv[w].v.thread = M
        BY <1>3, <3>2 DEF OpenLists
      <4>2. CASE uv'[w] = uv[w]
        BY <4>1, <4>2 DEF IsOpen
      <4>3. CASE uv'[w] # uv[w]
        BY <3>2, <4>1, <4>3
      <4> QED BY <4>2, <4>3
    <3> QED BY <3>1, <3>2
  <2>2. ASSUME NEW M \in Thread PROVE ToSet(openupval'[M]) \subseteq Uv
    <3>1. CASE M = L
      BY <1>3, <1>4, <3>1 DEF ToSet
    <3>2. CASE M # L
      BY <1>3, <3>2 DEF OpenLists
    <3> QED BY <3>1, <3>2
  <2>3. \A M \in Thread : ToSet(openupval'[M]) = {w \in Uv : IsOpen(w)' /\ uv'[w].v.thread = M}
    BY <2>1, <2>2
  <2> QED BY <2>3 DEF Listing
<1> QED BY <1>3, <1>6, <1>7

\* What luaF_findupval gives: the one open upvalue of the slot.
LEMMA FindFacts ==
    ASSUME TypeOK, OpenLists, Kept, NEW L \in Thread, NEW i \in 1 .. Len(stack[L]), NEW u \in Uv,
           luaF_findupval(L, i, u)
    PROVE  /\ uv' \in [Uv -> UpVal] /\ openupval' \in [Thread -> BoundedSeq(Uv, MaxTop)]
           /\ dead' = dead \ {u}
           /\ uv'[u] = [st |-> "open", v |-> Slot(L, i)]
           /\ \A w \in Uv : w # u => uv'[w] = uv[w]
           /\ uv[u] # None => uv'[u] = uv[u]
           /\ uv[u] = None => \A w \in Uv : IsOpen(w) => uv[w].v # Slot(L, i)
           /\ Ordered' /\ Listing'
<1>1. i \in 1 .. MaxTop /\ i \in Nat /\ MaxTop \in Nat
  BY Types
<1>2. /\ Slot(L, i) \in Pointer /\ Slot(L, i).thread = L
      /\ Slot(L, i).block = block[L] /\ Slot(L, i).level = i
  BY <1>1, SlotFacts
<1>3. uv \in [Uv -> UpVal] /\ openupval \in [Thread -> BoundedSeq(Uv, MaxTop)]
  BY DEF TypeOK
<1>4. CASE Found(L, i) # {}
  <2>1. u \in Found(L, i) /\ dead' = dead \ {u} /\ uv' = uv /\ openupval' = openupval
    BY <1>4 DEF luaF_findupval
  <2>2. u \in ToSet(openupval[L]) /\ uv[u].v = Slot(L, i)
    BY <2>1 DEF Found
  <2>3. IsOpen(u)
    BY <2>2 DEF OpenLists
  <2>4. uv[u] = [st |-> "open", v |-> Slot(L, i)] /\ uv[u] # None
    BY <2>2, <2>3, Types
  <2>5. Ordered' /\ Listing'
    BY <2>1 DEF OpenLists, Ordered, Listing, Level, IsOpen
  <2> QED BY <1>3, <2>1, <2>4, <2>5
<1>5. CASE Found(L, i) = {}
  <2>0. PICK t, n, a : /\ t = InsertAt(openupval[L], Above(L, i) + 1, u)
                       /\ n = Len(openupval[L]) /\ a = Above(L, i)
    OBVIOUS
  <2>1. /\ uv[u] = None /\ uv' = [uv EXCEPT ![u] = [st |-> "open", v |-> Slot(L, i)]]
        /\ openupval' = [openupval EXCEPT ![L] = t] /\ dead' = dead
    BY <1>5, <2>0 DEF luaF_findupval
  <2>2. [st |-> "open", v |-> Slot(L, i)] \in UpVal /\ [st |-> "open", v |-> Slot(L, i)] # None
    BY <1>2, UpValIntro
  <2>3. /\ uv' \in [Uv -> UpVal] /\ uv'[u] = [st |-> "open", v |-> Slot(L, i)]
        /\ \A w \in Uv : w # u => uv'[w] = uv[w]
    BY <1>3, <2>1, <2>2, UpdateType
  <2>4. u \notin dead
    BY <2>1 DEF Kept
  <2>5. ASSUME NEW w \in Uv, IsOpen(w) PROVE uv[w].v # Slot(L, i)
    <3> SUFFICES ASSUME uv[w].v = Slot(L, i) PROVE FALSE
      OBVIOUS
    <3>1. w \in ToSet(openupval[L])
      BY <1>2, <2>5 DEF OpenLists
    <3> QED BY <1>5, <3>1 DEF Found
  <2>6. openupval[L] \in Seq(Uv) /\ n \in Nat
    BY <2>0, Types
  <2>7. a \in 0 .. n /\ \A k \in 1 .. n : k <= a <=> Level(openupval[L][k]) > i
    BY <1>1, <2>0, AboveIs
  <2>8. /\ t \in Seq(Uv) /\ Len(t) = n + 1 /\ t[a + 1] = u
        /\ \A k \in 1 .. a : t[k] = openupval[L][k]
        /\ \A k \in a + 1 .. n : t[k + 1] = openupval[L][k]
    <3>1. a \in 0 .. Len(openupval[L]) /\ t = InsertAt(openupval[L], a + 1, u)
      BY <2>0, <2>7
    <3>2. t \in Seq(Uv) /\ InsertIs(t, openupval[L], a, u)
      BY <2>6, <3>1, InsertProperties
    <3> QED BY <2>0, <3>2 DEF InsertIs
  <2>9. ASSUME NEW k \in 1 .. n
        PROVE  LET w == openupval[L][k]
               IN  /\ w \in Uv /\ w # u /\ uv'[w] = uv[w] /\ IsOpen(w) /\ uv[w].v.thread = L
                   /\ Level(w) \in 1 .. MaxTop /\ Level(w) # i
    <3>1. PICK w : w = openupval[L][k]
      OBVIOUS
    <3>2. w \in Uv /\ IsOpen(w) /\ uv[w].v.thread = L /\ Level(w) \in 1 .. MaxTop
      BY <2>0, <3>1, Listed
    <3>3. w # u
      BY <2>1, <3>2 DEF IsOpen
    <3>4. uv[w].v \in Pointer /\ uv[w].v.block = block[L]
      BY <3>2, Types DEF OpenLists, Valid
    <3>5. uv[w].v = [thread |-> L, block |-> block[L], level |-> Level(w)]
      BY <3>2, <3>4, PointerFacts DEF Level
    <3>6. Level(w) # i
      BY <2>5, <3>2, <3>5 DEF Slot
    <3> QED BY <2>3, <3>1, <3>2, <3>3, <3>6
  <2>10. PICK f \in [1 .. n -> Nat] : \A k \in 1 .. n : f[k] = Level(openupval[L][k])
    <3>1. [k \in 1 .. n |-> Level(openupval[L][k])] \in [1 .. n -> Nat]
      BY <1>1, <2>9
    <3> QED BY <3>1
  <2>11. PICK g : g = [k \in 1 .. n + 1 |-> uv'[t[k]].v.level]
    OBVIOUS
  <2>12. ASSUME NEW k \in 1 .. n + 1
         PROVE  /\ IsOpen(t[k])' /\ uv'[t[k]].v.thread = L
                /\ uv'[t[k]].v.level \in 1 .. MaxTop
    <3>1. CASE k = a + 1
      <4>1. t[k] = u /\ uv'[u].v = Slot(L, i) /\ uv'[u] # None /\ uv'[u].st = "open"
        BY <2>2, <2>3, <2>8, <3>1
      <4> QED BY <1>1, <1>2, <4>1 DEF IsOpen
    <3>2. CASE k # a + 1
      <4>1. PICK j \in 1 .. n : t[k] = openupval[L][j]
        <5>1. CASE k \in 1 .. a
          <6>1. k \in 1 .. n
            BY <2>6, <2>7, <5>1
          <6> QED BY <2>8, <5>1, <6>1
        <5>2. CASE k - 1 \in a + 1 .. n
          <6>1. PICK j \in a + 1 .. n : j = k - 1 /\ j + 1 = k
            BY <5>2
          <6>2. j \in 1 .. n
            BY <2>7
          <6> QED BY <2>8, <6>1, <6>2
        <5>3. k \in 1 .. a \/ k - 1 \in a + 1 .. n
          BY <2>6, <2>7, <3>2
        <5> QED BY <5>1, <5>2, <5>3
      <4> QED BY <2>9, <4>1 DEF IsOpen, Level
    <3> QED BY <3>1, <3>2
  <2>13. g \in [1 .. n + 1 -> 1 .. MaxTop] /\ \A k \in 1 .. n + 1 : g[k] = uv'[t[k]].v.level
    BY <2>11, <2>12
  <2>14. /\ g[a + 1] = i /\ \A k \in 1 .. a : g[k] = f[k]
         /\ \A k \in a + 1 .. n : g[k + 1] = f[k]
    <3>1. g[a + 1] = i
      BY <1>2, <2>3, <2>6, <2>7, <2>8, <2>13
    <3>2. ASSUME NEW k \in 1 .. a PROVE g[k] = f[k]
      <4>1. k \in 1 .. n /\ k \in 1 .. n + 1
        BY <2>6, <2>7
      <4> QED BY <2>8, <2>9, <2>10, <2>13, <4>1 DEF Level
    <3>3. ASSUME NEW k \in a + 1 .. n PROVE g[k + 1] = f[k]
      <4>1. k \in 1 .. n /\ k + 1 \in 1 .. n + 1
        BY <2>6, <2>7
      <4> QED BY <2>8, <2>9, <2>10, <2>13, <4>1 DEF Level
    <3> QED BY <3>1, <3>2, <3>3
  <2>15. \A j, k \in 1 .. n + 1 : j < k => g[j] > g[k]
    <3>1. \A j, k \in 1 .. n : j < k => f[j] > f[k]
      <4>1. \A j, k \in 1 .. n : j < k => Level(openupval[L][j]) > Level(openupval[L][k])
        BY <2>0, Listed
      <4> QED BY <2>10, <4>1
    <3>2. \A k \in 1 .. n : (k <= a <=> f[k] > i) /\ f[k] # i
      BY <2>7, <2>9, <2>10
    <3>3. g \in [1 .. n + 1 -> Nat]
      BY <1>1, <2>13
    <3>4. n \in Nat /\ a \in 0 .. n /\ i \in Nat /\ f \in [1 .. n -> Nat]
      BY <1>1, <2>6, <2>7, <2>10
    <3>5. Inserted(f, n, a, i, g)
      BY <2>14, <3>1, <3>2, <3>3, <3>4 DEF Inserted
    <3> QED BY <3>4, <3>5, InsertDescending
  <2>16. ASSUME NEW w \in Uv, IsOpen(w)', uv'[w].v.thread = L
         PROVE  \E k \in 1 .. n + 1 : t[k] = w
    <3>1. CASE w = u
      BY <2>6, <2>7, <2>8, <3>1
    <3>2. CASE w # u
      <4>1. IsOpen(w) /\ uv[w].v.thread = L
        BY <2>3, <2>16, <3>2 DEF IsOpen
      <4>2. PICK k \in 1 .. n : openupval[L][k] = w
        BY <2>0, <4>1, Listed
      <4>3. CASE k \in 1 .. a
        BY <2>6, <2>8, <4>2, <4>3
      <4>4. CASE k \in a + 1 .. n
        <5>1. k + 1 \in 1 .. n + 1 /\ t[k + 1] = w
          BY <2>6, <2>7, <2>8, <4>2, <4>4
        <5> QED BY <5>1
      <4>5. k \in 1 .. a \/ k \in a + 1 .. n
        BY <2>6, <2>7
      <4> QED BY <4>3, <4>4, <4>5
    <3> QED BY <3>1, <3>2
  <2>17. \A w \in Uv : uv'[w] = uv[w] \/ /\ IsOpen(w) => uv[w].v.thread = L
                                         /\ IsOpen(w)' => uv'[w].v.thread = L
    <3>1. ~IsOpen(u) /\ uv'[u].v.thread = L
      BY <1>2, <2>1, <2>3 DEF IsOpen
    <3> QED BY <2>3, <3>1
  <2>18. openupval' \in [Thread -> BoundedSeq(Uv, MaxTop)] /\ Ordered' /\ Listing'
    <3>1. t \in Seq(Uv) /\ Len(t) = n + 1
      BY <2>8
    <3>2. /\ openupval' = [openupval EXCEPT ![L] = t] /\ g \in [1 .. Len(t) -> 1 .. MaxTop]
          /\ \A j, k \in 1 .. Len(t) : j < k => g[j] > g[k]
      BY <2>1, <2>13, <2>15, <3>1
    <3>3. \A k \in 1 .. Len(t) : /\ IsOpen(t[k])' /\ uv'[t[k]].v.thread = L
                                 /\ uv'[t[k]].v.level = g[k]
      BY <2>12, <2>13, <3>1
    <3>4. \A w \in Uv : IsOpen(w)' /\ uv'[w].v.thread = L => \E k \in 1 .. Len(t) : t[k] = w
      BY <2>16, <3>1
    <3>5. GivesList(L, t, g)
      BY <2>17, <3>2, <3>3, <3>4 DEF GivesList
    <3> QED BY <3>1, <3>5, NewList
  <2> QED BY <2>1, <2>3, <2>4, <2>5, <2>18
<1> QED BY <1>4, <1>5

\* What luaF_close does: the upvalues of L above level n take the values of
\* their slots, and the list of L keeps the others.
LEMMA CloseFacts ==
    ASSUME TypeOK, OpenLists, NEW L \in Thread, NEW n \in Nat, luaF_close(L, n, dead)
    PROVE  /\ uv' \in [Uv -> UpVal] /\ openupval' \in [Thread -> BoundedSeq(Uv, MaxTop)]
           /\ \A u \in Uv : IsOpen(u) /\ uv[u].v.thread = L /\ Level(u) > n =>
                 IF u \in dead THEN uv'[u] = None
                 ELSE /\ uv'[u] # None /\ ~IsOpen(u)'
                      /\ uv'[u].v = stack[L][Level(u)] /\ Level(u) \in 1 .. Len(stack[L])
           /\ \A u \in Uv : ~(IsOpen(u) /\ uv[u].v.thread = L /\ Level(u) > n) => uv'[u] = uv[u]
           /\ Ordered' /\ Listing'
<1>1. PICK s, m, a : s = openupval[L] /\ m = Len(s) /\ a = Above(L, n)
  OBVIOUS
<1>2. s \in Seq(Uv) /\ m \in Nat
  BY <1>1, Types
<1>3. /\ a \in 0 .. m
      /\ \A k \in 1 .. m : k <= a <=> Level(s[k]) > n
  BY <1>1, AboveIs
<1>4. \A k \in 1 .. m : s[k] \in Uv /\ IsOpen(s[k]) /\ uv[s[k]].v.thread = L
                        /\ Level(s[k]) \in 1 .. MaxTop
  BY <1>1, Listed
<1>5. \A j, k \in 1 .. m : j < k => Level(s[j]) > Level(s[k])
  BY <1>1, Listed
<1>6. \A u \in Uv : u \in Closing(L, n) <=> IsOpen(u) /\ uv[u].v.thread = L /\ Level(u) > n
  <2>1. \A u : u \in Closing(L, n) <=> \E k \in 1 .. a : s[k] = u
    BY <1>1 DEF Closing
  <2>2. ASSUME NEW u \in Uv, u \in Closing(L, n)
        PROVE  IsOpen(u) /\ uv[u].v.thread = L /\ Level(u) > n
    <3>1. PICK k \in 1 .. a : s[k] = u
      BY <2>1, <2>2
    <3>2. k \in 1 .. m /\ k <= a
      BY <1>2, <1>3, <3>1
    <3> QED BY <1>3, <1>4, <3>1, <3>2
  <2>3. ASSUME NEW u \in Uv, IsOpen(u), uv[u].v.thread = L, Level(u) > n
        PROVE  u \in Closing(L, n)
    <3>1. PICK k \in 1 .. m : s[k] = u
      BY <1>1, <2>3, Listed
    <3>2. k <= a
      BY <1>3, <2>3, <3>1
    <3>3. k \in 1 .. a
      BY <1>2, <1>3, <3>1, <3>2
    <3> QED BY <2>1, <3>1, <3>3
  <2> QED BY <2>2, <2>3
<1>7. PICK t : t = SubSeq(s, a + 1, m) /\ openupval' = [openupval EXCEPT ![L] = t]
  BY <1>1 DEF luaF_close
<1>8. t \in Seq(Uv) /\ Len(t) = m - a /\ \A k \in 1 .. m - a : t[k] = s[a + k]
  BY <1>1, <1>2, <1>3, <1>7, DropProperties
<1>9. \A u \in Uv : uv'[u] = IF u \notin Closing(L, n) THEN uv[u]
                             ELSE IF u \in dead THEN None
                             ELSE [st |-> "closed", v |-> Deref(u)]
  BY DEF luaF_close
<1>10. ASSUME NEW u \in Uv, IsOpen(u), uv[u].v.thread = L
       PROVE  /\ Deref(u) = stack[L][Level(u)] /\ Level(u) \in 1 .. Len(stack[L])
              /\ Deref(u) \in Data
  <2>1. uv[u] # None /\ uv[u].st = "open" /\ Level(u) \in 1 .. MaxTop /\ MaxTop \in Nat
    BY <1>10, Types
  <2>2. Valid(uv[u].v)
    BY <1>10 DEF OpenLists
  <2>3. Level(u) <= Len(stack[L]) /\ Len(stack[L]) \in Nat
    BY <1>10, <2>2, Types DEF Valid, Level
  <2>4. Level(u) \in 1 .. Len(stack[L])
    BY <2>1, <2>3
  <2>5. Deref(u) = stack[L][Level(u)]
    BY <1>10, <2>1, <2>2 DEF Deref, Level
  <2> QED BY <2>4, <2>5, Types
<1>11. ASSUME NEW u \in Uv
       PROVE  /\ uv'[u] \in UpVal
              /\ u \notin Closing(L, n) => uv'[u] = uv[u]
              /\ u \in Closing(L, n) => ~IsOpen(u)' /\ (u \in dead => uv'[u] = None)
              /\ u \in Closing(L, n) /\ u \notin dead =>
                    uv'[u] # None /\ uv'[u].v = stack[L][Level(u)]
                    /\ Level(u) \in 1 .. Len(stack[L])
  <2>1. CASE u \notin Closing(L, n)
    BY <1>9, <2>1 DEF TypeOK
  <2>2. CASE u \in Closing(L, n) /\ u \in dead
    BY <1>9, <2>2, UpValIntro DEF IsOpen
  <2>3. CASE u \in Closing(L, n) /\ u \notin dead
    <3>1. uv'[u] = [st |-> "closed", v |-> Deref(u)]
      BY <1>9, <2>3
    <3>2. PICK d \in Data : d = Deref(u) /\ d = stack[L][Level(u)] /\ Level(u) \in 1 .. Len(stack[L])
      BY <1>6, <1>10, <2>3
    <3>3. uv'[u] = [st |-> "closed", v |-> d]
      BY <3>1, <3>2
    <3>4. uv'[u] \in UpVal /\ uv'[u] # None /\ uv'[u].st = "closed" /\ uv'[u].v = d
      BY <3>3, UpValIntro
    <3> QED BY <2>3, <3>2, <3>4 DEF IsOpen
  <2> QED BY <2>1, <2>2, <2>3
<1>12. uv' \in [Uv -> UpVal]
  <2>1. uv' = [u \in Uv |-> uv'[u]]
    BY DEF luaF_close
  <2> QED BY <1>11, <2>1
<1>13. PICK f : f = [k \in 1 .. Len(t) |-> Level(s[a + k])]
  OBVIOUS
<1>14. ASSUME NEW k \in 1 .. Len(t)
       PROVE  /\ t[k] = s[a + k] /\ a + k \in 1 .. m /\ ~(a + k <= a) /\ f[k] = Level(t[k])
              /\ t[k] \in Uv /\ uv'[t[k]] = uv[t[k]] /\ IsOpen(t[k])
              /\ uv[t[k]].v.thread = L /\ f[k] \in 1 .. MaxTop
  <2>1. t[k] = s[a + k] /\ a + k \in 1 .. m /\ ~(a + k <= a)
    BY <1>2, <1>3, <1>8
  <2>2. PICK w \in Uv : w = s[a + k] /\ IsOpen(w) /\ uv[w].v.thread = L /\ Level(w) \in 1 .. MaxTop
                        /\ ~(Level(w) > n)
    BY <1>3, <1>4, <2>1
  <2>3. uv'[w] = uv[w]
    BY <1>6, <1>11, <2>2
  <2> QED BY <1>13, <2>1, <2>2, <2>3
<1>15. f \in [1 .. Len(t) -> 1 .. MaxTop]
  BY <1>13, <1>14
<1>16. ASSUME NEW j \in 1 .. Len(t), NEW k \in 1 .. Len(t), j < k PROVE f[j] > f[k]
  <2>1. a + j \in 1 .. m /\ a + k \in 1 .. m /\ a + j < a + k
    BY <1>2, <1>3, <1>8, <1>16
  <2>2. Level(s[a + j]) > Level(s[a + k])
    BY <1>5, <2>1
  <2> QED BY <1>14, <2>2
<1>17. \A k \in 1 .. Len(t) : /\ IsOpen(t[k])' /\ uv'[t[k]].v.thread = L
                              /\ uv'[t[k]].v.level = f[k]
  BY <1>14 DEF IsOpen, Level
<1>18. ASSUME NEW w \in Uv, IsOpen(w)', uv'[w].v.thread = L
       PROVE  \E k \in 1 .. Len(t) : t[k] = w
  <2>1. uv'[w] = uv[w] /\ w \notin Closing(L, n)
    BY <1>11, <1>18
  <2>2. IsOpen(w) /\ uv[w].v.thread = L /\ ~(Level(w) > n)
    BY <1>6, <1>18, <2>1 DEF IsOpen
  <2>3. PICK k \in 1 .. m : s[k] = w
    BY <1>1, <2>2, Listed
  <2>4. ~(k <= a)
    BY <1>3, <2>2, <2>3
  <2>5. k - a \in 1 .. Len(t) /\ a + (k - a) = k
    BY <1>2, <1>3, <1>8, <2>4
  <2> QED BY <1>14, <2>3, <2>5
<1>19. \A w \in Uv : uv'[w] = uv[w] \/ /\ IsOpen(w) => uv[w].v.thread = L
                                       /\ IsOpen(w)' => uv'[w].v.thread = L
  BY <1>6, <1>11
<1>20. openupval' \in [Thread -> BoundedSeq(Uv, MaxTop)] /\ Ordered' /\ Listing'
  <2>1. t \in Seq(Uv) /\ openupval' = [openupval EXCEPT ![L] = t]
    BY <1>7, <1>8
  <2>2. \A j, k \in 1 .. Len(t) : j < k => f[j] > f[k]
    BY <1>16
  <2>3. \A w \in Uv : IsOpen(w)' /\ uv'[w].v.thread = L => \E k \in 1 .. Len(t) : t[k] = w
    BY <1>18
  <2>4. GivesList(L, t, f)
    BY <1>15, <1>17, <1>19, <2>1, <2>2, <2>3 DEF GivesList
  <2> QED BY <2>1, <2>4, NewList
<1> QED BY <1>6, <1>11, <1>12, <1>20

\* What sweeplist does to the list of a live thread.
LEMMA SweepFacts ==
    ASSUME TypeOK, OpenLists, NEW L \in Thread,
           uv' = [u \in Uv |-> IF u \in ToSet(openupval[L]) \cap dead THEN None ELSE uv[u]],
           openupval' = [openupval EXCEPT ![L] = Swept(L)]
    PROVE  /\ uv' \in [Uv -> UpVal] /\ openupval' \in [Thread -> BoundedSeq(Uv, MaxTop)]
           /\ \A u \in Uv : u \notin dead => uv'[u] = uv[u]
           /\ \A u \in Uv : uv'[u] = uv[u] \/ (uv'[u] = None /\ u \in ToSet(openupval[L]))
           /\ Ordered' /\ Listing'
<1>1. PICK s, m : s = openupval[L] /\ m = Len(s)
  OBVIOUS
<1>2. s \in Seq(Uv) /\ m \in Nat
  BY <1>1, Types
<1>3. \A k \in 1 .. m : s[k] \in Uv /\ IsOpen(s[k]) /\ uv[s[k]].v.thread = L
                        /\ Level(s[k]) \in 1 .. MaxTop
  BY <1>1, Listed
<1>4. \A j, k \in 1 .. m : j < k => Level(s[j]) > Level(s[k])
  BY <1>1, Listed
<1>5. \A u \in Uv : u \in ToSet(openupval[L]) <=> IsOpen(u) /\ uv[u].v.thread = L
  BY DEF OpenLists
<1>6. ASSUME NEW u \in Uv
      PROVE  /\ uv'[u] \in UpVal /\ (u \notin dead => uv'[u] = uv[u])
             /\ uv'[u] = uv[u] \/ (uv'[u] = None /\ u \in ToSet(openupval[L]))
             /\ IsOpen(u) /\ uv[u].v.thread = L /\ u \in dead => uv'[u] = None
  BY <1>5, UpValIntro DEF TypeOK
<1>7. uv' \in [Uv -> UpVal]
  BY <1>6
<1>8. PICK t : t = Without(s, dead) /\ openupval' = [openupval EXCEPT ![L] = t]
  BY <1>1 DEF Swept
<1>9. t \in Seq(Uv) /\ Selects(t, s, dead)
  BY <1>2, <1>8, WithoutProperties
<1>10. PICK p \in [1 .. Len(t) -> 1 .. m] :
          /\ \A j, k \in 1 .. Len(t) : j < k => p[j] < p[k]
          /\ \A j \in 1 .. Len(t) : t[j] = s[p[j]] /\ s[p[j]] \notin dead
          /\ \A k \in 1 .. m : s[k] \notin dead => \E j \in 1 .. Len(t) : p[j] = k
  BY <1>1, <1>9 DEF Selects
<1>11. PICK f : f = [k \in 1 .. Len(t) |-> Level(s[p[k]])]
  OBVIOUS
<1>12. ASSUME NEW k \in 1 .. Len(t)
       PROVE  /\ t[k] = s[p[k]] /\ p[k] \in 1 .. m /\ f[k] = Level(t[k])
              /\ t[k] \in Uv /\ uv'[t[k]] = uv[t[k]] /\ IsOpen(t[k])
              /\ uv[t[k]].v.thread = L /\ f[k] \in 1 .. MaxTop
  <2>1. t[k] = s[p[k]] /\ p[k] \in 1 .. m /\ t[k] \notin dead
    BY <1>10
  <2>2. PICK w \in Uv : w = t[k] /\ IsOpen(w) /\ uv[w].v.thread = L /\ Level(w) \in 1 .. MaxTop
    BY <1>3, <2>1
  <2>3. uv'[w] = uv[w]
    BY <1>6, <2>1, <2>2
  <2> QED BY <1>11, <2>1, <2>2, <2>3
<1>13. f \in [1 .. Len(t) -> 1 .. MaxTop]
  BY <1>11, <1>12
<1>14. \A j, k \in 1 .. Len(t) : j < k => f[j] > f[k]
  <2> SUFFICES ASSUME NEW j \in 1 .. Len(t), NEW k \in 1 .. Len(t), j < k PROVE f[j] > f[k]
    OBVIOUS
  <2>1. p[j] \in 1 .. m /\ p[k] \in 1 .. m /\ p[j] < p[k]
    BY <1>10
  <2>2. Level(s[p[j]]) > Level(s[p[k]])
    BY <1>4, <2>1
  <2> QED BY <1>12, <2>2
<1>15. \A k \in 1 .. Len(t) : /\ IsOpen(t[k])' /\ uv'[t[k]].v.thread = L
                              /\ uv'[t[k]].v.level = f[k]
  BY <1>12 DEF IsOpen, Level
<1>16. ASSUME NEW w \in Uv, IsOpen(w)', uv'[w].v.thread = L
       PROVE  \E k \in 1 .. Len(t) : t[k] = w
  <2>1. uv'[w] # None
    BY <1>16 DEF IsOpen
  <2>2. uv'[w] = uv[w] /\ IsOpen(w) /\ uv[w].v.thread = L /\ w \notin dead
    BY <1>6, <1>16, <2>1 DEF IsOpen
  <2>3. PICK k \in 1 .. m : s[k] = w
    BY <1>1, <2>2, Listed
  <2>4. PICK j \in 1 .. Len(t) : p[j] = k
    BY <1>10, <2>2, <2>3
  <2> QED BY <1>10, <2>3, <2>4
<1>17. \A w \in Uv : uv'[w] = uv[w] \/ /\ IsOpen(w) => uv[w].v.thread = L
                                       /\ IsOpen(w)' => uv'[w].v.thread = L
  BY <1>5, <1>6 DEF IsOpen
<1>18. openupval' \in [Thread -> BoundedSeq(Uv, MaxTop)] /\ Ordered' /\ Listing'
  <2>1. \A w \in Uv : IsOpen(w)' /\ uv'[w].v.thread = L => \E k \in 1 .. Len(t) : t[k] = w
    BY <1>16
  <2>2. t \in Seq(Uv) /\ openupval' = [openupval EXCEPT ![L] = t]
    BY <1>8, <1>9
  <2>3. GivesList(L, t, f)
    BY <1>13, <1>14, <1>15, <1>17, <2>1, <2>2 DEF GivesList
  <2> QED BY <2>2, <2>3, NewList
<1> QED BY <1>6, <1>7, <1>18

----------------------------------------------------------------------------
(* The program.                                                            *)

LEMMA OpenListsParts == OpenLists <=> Ordered /\ Listing /\ Pointing
BY DEF OpenLists, Ordered, Listing, Pointing

LEMMA IInvParts ==
    ASSUME IInv
    PROVE  TypeOK /\ OpenLists /\ Kept /\ HistoryOK /\ Scopes /\ Captured
BY DEF IInv

LEMMA HistoryFacts ==
    ASSUME HistoryOK
    PROVE  /\ Len(val) \in Nat /\ \A n \in 1 .. Len(val) : val[n] \in Data
           /\ \A L \in Thread : /\ scope[L] \in Seq(Nat) /\ Len(scope[L]) \in Nat
                                /\ \A i \in 1 .. Len(scope[L]) : scope[L][i] \in Nat
<1>1. val \in Seq(Data) /\ \A L \in Thread : scope[L] \in Seq(Nat)
  BY DEF HistoryOK
<1> QED BY <1>1, LenProperties, ElementOfSeq

LEMMA AppendFacts ==
    ASSUME NEW S, NEW s \in Seq(S), NEW e \in S, NEW t, t = Append(s, e)
    PROVE  /\ t \in Seq(S) /\ Len(t) = Len(s) + 1 /\ t[Len(s) + 1] = e
           /\ Len(s) \in Nat /\ \A i \in 1 .. Len(s) : t[i] = s[i]
BY AppendProperties, LenProperties

LEMMA DeclareStep ==
    ASSUME IInv, NEW L \in Thread, NEW v \in Data, Declare(L, v)
    PROVE  IInv'
<1>1. PICK n \in Nat : n = Len(stack[L])
  BY Types DEF IInv
<1>2. PICK m \in Nat : m = Len(val)
  BY HistoryFacts DEF IInv
<1>3. /\ n < MaxTop /\ stack' = [stack EXCEPT ![L] = Append(stack[L], v)]
      /\ val' = Append(val, v) /\ scope' = [scope EXCEPT ![L] = Append(scope[L], m + 1)]
  BY <1>1, <1>2 DEF Declare, Cells!Declare
<1>4. UNCHANGED <<block, uv, openupval, upval, held, alive, dead, unswept, cap>>
  BY DEF Declare, Cells!Declare
<1>5. PICK s : s = Append(stack[L], v)
  OBVIOUS
<1>6. /\ s \in Seq(Data) /\ Len(s) = n + 1 /\ s[n + 1] = v
      /\ \A i \in 1 .. n : s[i] = stack[L][i]
  <2>1. stack[L] \in Seq(Data)
    BY Types DEF IInv
  <2> QED BY <1>1, <1>5, <2>1, AppendFacts
<1>7. PICK r : r = Append(scope[L], m + 1)
  OBVIOUS
<1>8. /\ r \in Seq(Nat) /\ Len(r) = n + 1 /\ r[n + 1] = m + 1
      /\ \A i \in 1 .. n : r[i] = scope[L][i]
  <2>1. scope[L] \in Seq(Nat) /\ m + 1 \in Nat
    BY <1>2, HistoryFacts DEF IInv
  <2>2. Len(scope[L]) = n
    BY <1>1 DEF IInv, Scopes
  <2> QED BY <1>7, <2>1, <2>2, AppendFacts
<1>9. /\ val' \in Seq(Data) /\ Len(val') = m + 1 /\ val'[m + 1] = v
      /\ \A i \in 1 .. m : val'[i] = val[i]
  <2>1. val \in Seq(Data)
    BY DEF IInv, HistoryOK
  <2> QED BY <1>2, <1>3, <2>1, AppendFacts
<1>10. /\ stack' \in [Thread -> BoundedSeq(Data, MaxTop)] /\ stack'[L] = s
       /\ \A M \in Thread : M # L => stack'[M] = stack[M]
  <2>1. stack \in [Thread -> BoundedSeq(Data, MaxTop)] /\ MaxTop \in Nat
    BY UpValAssumption DEF IInv, TypeOK
  <2>2. s \in BoundedSeq(Data, MaxTop)
    BY <1>3, <1>6, <2>1, SeqOfIs DEF BoundedSeq
  <2> QED BY <1>3, <1>5, <2>1, <2>2, UpdateType
<1>11. /\ scope' \in [Thread -> Seq(Nat)] /\ scope'[L] = r
       /\ \A M \in Thread : M # L => scope'[M] = scope[M]
  <2>1. scope \in [Thread -> Seq(Nat)]
    BY DEF IInv, HistoryOK
  <2> QED BY <1>3, <1>7, <1>8, <2>1, UpdateType
<1>12. TypeOK'
  BY <1>4, <1>10 DEF IInv, TypeOK
<1>13. OpenLists'
  <2>1. Ordered' /\ Listing'
    BY <1>4 DEF IInv, OpenLists, Ordered, Listing, Level, IsOpen
  <2>2. ASSUME NEW u \in Uv, IsOpen(u)
        PROVE  uv[u].v.thread \in alive /\ uv[u].v.block = block[uv[u].v.thread]
               /\ uv[u].v.level <= Len(stack'[uv[u].v.thread])
    <3>1. PICK M \in Thread : M = uv[u].v.thread /\ Level(u) \in 1 .. MaxTop
      BY <2>2, Types DEF IInv
    <3>2. M \in alive /\ uv[u].v.block = block[M] /\ uv[u].v.level <= Len(stack[M])
      BY <2>2, <3>1 DEF IInv, OpenLists, Valid
    <3>3. Len(stack[M]) <= Len(stack'[M])
      BY <1>1, <1>6, <1>10, Types DEF IInv
    <3>4. Len(stack[M]) \in Nat /\ Len(stack'[M]) \in Nat /\ uv[u].v.level \in Nat
      <4>1. MaxTop \in Nat /\ Len(stack[M]) \in Nat
        BY Types DEF IInv
      <4>2. Len(stack'[M]) \in Nat
        <5>1. CASE M = L
          BY <1>1, <1>6, <1>10, <5>1
        <5>2. CASE M # L
          BY <1>10, <4>1, <5>2
        <5> QED BY <5>1, <5>2
      <4> QED BY <3>1, <4>1, <4>2 DEF Level
    <3>5. uv[u].v.level <= Len(stack'[M])
      BY <3>2, <3>3, <3>4
    <3> QED BY <3>1, <3>2, <3>5
  <2>3. Pointing'
    BY <1>4, <2>2 DEF Pointing, IsOpen, Valid
  <2> QED BY <2>1, <2>3 DEF OpenLists, Ordered, Listing, Pointing
<1>14. Kept'
  BY <1>4 DEF IInv, Kept, Undead
<1>15. HistoryOK'
  BY <1>4, <1>9, <1>11 DEF IInv, HistoryOK
<1>16. ASSUME NEW M \in Thread, NEW i \in 1 .. Len(stack[M])
       PROVE  /\ i \in 1 .. Len(stack'[M]) /\ stack'[M][i] = stack[M][i]
              /\ scope'[M][i] = scope[M][i] /\ scope[M][i] \in 1 .. m
  <2>1. scope[M][i] \in 1 .. m
    BY <1>2 DEF IInv, Scopes
  <2>2. CASE M = L
    <3>1. i \in 1 .. n
      BY <1>1, <2>2
    <3> QED BY <1>6, <1>8, <1>10, <1>11, <2>1, <2>2, <3>1
  <2>3. CASE M # L
    BY <1>10, <1>11, <2>1, <2>3
  <2> QED BY <2>2, <2>3
<1>17. ASSUME NEW M \in Thread, NEW i \in 1 .. Len(stack'[M])
       PROVE  \/ i \in 1 .. Len(stack[M])
              \/ M = L /\ i = n + 1 /\ stack'[M][i] = v /\ scope'[M][i] = m + 1
  BY <1>1, <1>6, <1>8, <1>10, <1>11
<1>18. Scopes'
  <2>1. \A M \in Thread : Len(scope'[M]) = Len(stack'[M])
    BY <1>6, <1>8, <1>10, <1>11 DEF IInv, Scopes
  <2>2. ASSUME NEW M \in Thread, NEW i \in 1 .. Len(stack'[M])
        PROVE  scope'[M][i] \in 1 .. Len(val') /\ stack'[M][i] = val'[scope'[M][i]]
    <3>1. CASE i \in 1 .. Len(stack[M])
      <4>1. stack[M][i] = val[scope[M][i]]
        BY <3>1 DEF IInv, Scopes
      <4>2. stack'[M][i] = stack[M][i] /\ scope'[M][i] = scope[M][i] /\ scope[M][i] \in 1 .. m
        BY <1>16, <3>1
      <4>3. val'[scope[M][i]] = val[scope[M][i]] /\ scope[M][i] \in 1 .. Len(val')
        BY <1>9, <4>2
      <4> QED BY <4>1, <4>2, <4>3
    <3>2. CASE M = L /\ i = n + 1 /\ stack'[M][i] = v /\ scope'[M][i] = m + 1
      BY <1>9, <3>2
    <3> QED BY <1>17, <3>1, <3>2
  <2>3. ASSUME NEW M \in Thread, NEW N \in Thread, NEW i \in 1 .. Len(stack'[M]),
               NEW j \in 1 .. Len(stack'[N]), scope'[M][i] = scope'[N][j]
        PROVE  M = N /\ i = j
    <3>1. CASE i \in 1 .. Len(stack[M]) /\ j \in 1 .. Len(stack[N])
      <4>1. scope[M][i] = scope[N][j]
        BY <1>16, <2>3, <3>1
      <4> QED BY <3>1, <4>1 DEF IInv, Scopes
    <3>2. CASE i \in 1 .. Len(stack[M]) /\ j \notin 1 .. Len(stack[N])
      <4>1. scope'[M][i] \in 1 .. m
        BY <1>16, <3>2
      <4>2. scope'[N][j] = m + 1
        BY <1>17, <3>2
      <4> QED BY <2>3, <4>1, <4>2
    <3>3. CASE i \notin 1 .. Len(stack[M]) /\ j \in 1 .. Len(stack[N])
      <4>1. scope'[N][j] \in 1 .. m
        BY <1>16, <3>3
      <4>2. scope'[M][i] = m + 1
        BY <1>17, <3>3
      <4> QED BY <2>3, <4>1, <4>2
    <3>4. CASE i \notin 1 .. Len(stack[M]) /\ j \notin 1 .. Len(stack[N])
      BY <1>17, <3>4
    <3> QED BY <3>1, <3>2, <3>3, <3>4
  <2> QED BY <2>1, <2>2, <2>3 DEF Scopes
<1>19. Captured'
  <2>1. Undead' = Undead
    BY <1>4 DEF Undead
  <2>2. ASSUME NEW c \in Undead PROVE upval[c] \in Uv
    BY DEF IInv, Undead, TypeOK
  <2>3. ASSUME NEW c \in Undead
        PROVE  Len(cap[c]) = 1 /\ cap[c][1] \in 1 .. m /\ cap[c][1] \in 1 .. Len(val')
    BY <1>2, <1>9 DEF IInv, Captured
  <2>4. ASSUME NEW c \in Undead, IsOpen(upval[c])
        PROVE  cap[c][1] = scope'[uv[upval[c]].v.thread][Level(upval[c])]
    <3>1. PICK u \in Uv : u = upval[c] /\ IsOpen(u)
      BY <2>2, <2>4
    <3>2. PICK M \in Thread : M = uv[u].v.thread /\ Level(u) \in 1 .. Len(stack[M])
      <4>1. uv[u].v.thread \in Thread /\ Level(u) \in 1 .. MaxTop /\ MaxTop \in Nat
        BY <3>1, Types DEF IInv
      <4>2. Level(u) <= Len(stack[uv[u].v.thread]) /\ Len(stack[uv[u].v.thread]) \in Nat
        BY <3>1, <4>1, Types DEF IInv, OpenLists, Valid, Level
      <4> QED BY <4>1, <4>2
    <3>3. cap[c][1] = scope[M][Level(u)]
      BY <2>4, <3>1, <3>2 DEF IInv, Captured
    <3> QED BY <1>16, <3>1, <3>2, <3>3
  <2>5. ASSUME NEW c \in Undead, ~IsOpen(upval[c])
        PROVE  /\ uv[upval[c]].v = val'[cap[c][1]]
               /\ \A M \in Thread : \A i \in 1 .. Len(stack'[M]) : scope'[M][i] # cap[c][1]
    <3>1. uv[upval[c]].v = val'[cap[c][1]]
      BY <1>9, <2>3, <2>5 DEF IInv, Captured
    <3>2. ASSUME NEW M \in Thread, NEW i \in 1 .. Len(stack'[M]) PROVE scope'[M][i] # cap[c][1]
      <4>1. CASE i \in 1 .. Len(stack[M])
        <5>1. scope[M][i] # cap[c][1]
          BY <2>5, <4>1 DEF IInv, Captured
        <5> QED BY <1>16, <4>1, <5>1
      <4>2. CASE scope'[M][i] = m + 1
        BY <2>3, <4>2
      <4> QED BY <1>17, <4>1, <4>2
    <3> QED BY <3>1, <3>2
  <2>6. \A c, d \in Undead : upval[c] = upval[d] <=> cap[c][1] = cap[d][1]
    BY DEF IInv, Captured
  <2> QED BY <1>4, <2>1, <2>3, <2>4, <2>5, <2>6 DEF Captured, IsOpen, Level
<1> QED BY <1>12, <1>13, <1>14, <1>15, <1>18, <1>19 DEF IInv

LEMMA SubSeqFacts ==
    ASSUME NEW S, NEW s \in Seq(S), NEW n \in 0 .. Len(s), NEW t, t = SubSeq(s, 1, n)
    PROVE  t \in Seq(S) /\ Len(t) = n /\ \A i \in 1 .. n : t[i] = s[i]
<1>1. Len(s) \in Nat /\ \A i \in 1 .. Len(s) : s[i] \in S
  BY LenProperties, ElementOfSeq
<1>2. n \in Nat /\ \A i \in 1 .. n : s[i] \in S
  BY <1>1
<1> QED BY <1>2, SubSeqProperties

\* The variables of L above level n end: what Leave and FreeThread share.
Ends(L, n) ==
    /\ luaF_close(L, n, dead)
    /\ stack' = [stack EXCEPT ![L] = SubSeq(@, 1, n)]
    /\ scope' = [scope EXCEPT ![L] = SubSeq(@, 1, n)]
    /\ dead' \subseteq dead /\ \A u \in Uv : u \in dead' => uv'[u] # None
    /\ \A c \in Clo : c \in dead => c \in dead'
    /\ alive' = alive \/ (n = 0 /\ L \notin held /\ alive' = alive \ {L})
    /\ unswept' \subseteq unswept
    /\ UNCHANGED <<block, upval, held, val, cap>>

LEMMA EndsStep ==
    ASSUME IInv, NEW L \in Thread, NEW n \in 0 .. Len(stack[L]), Ends(L, n)
    PROVE  IInv'
<1>1. n \in Nat /\ Len(stack[L]) \in Nat /\ Len(stack[L]) <= MaxTop /\ MaxTop \in Nat
  BY Types DEF IInv
<1>2. TypeOK /\ OpenLists /\ luaF_close(L, n, dead)
  BY DEF IInv, Ends
<1>3. /\ uv' \in [Uv -> UpVal] /\ openupval' \in [Thread -> BoundedSeq(Uv, MaxTop)]
      /\ \A u \in Uv : IsOpen(u) /\ uv[u].v.thread = L /\ Level(u) > n =>
            IF u \in dead THEN uv'[u] = None
            ELSE /\ uv'[u] # None /\ ~IsOpen(u)'
                 /\ uv'[u].v = stack[L][Level(u)] /\ Level(u) \in 1 .. Len(stack[L])
      /\ \A u \in Uv : ~(IsOpen(u) /\ uv[u].v.thread = L /\ Level(u) > n) => uv'[u] = uv[u]
      /\ Ordered' /\ Listing'
  BY <1>1, <1>2, CloseFacts
<1>4. UNCHANGED <<block, upval, held, val, cap>>
  BY DEF Ends
<1>5. PICK s : s = SubSeq(stack[L], 1, n)
  OBVIOUS
<1>6. s \in Seq(Data) /\ Len(s) = n /\ \A i \in 1 .. n : s[i] = stack[L][i]
  <2>1. stack[L] \in Seq(Data)
    BY Types DEF IInv
  <2> QED BY <1>5, <2>1, SubSeqFacts
<1>7. /\ stack' \in [Thread -> BoundedSeq(Data, MaxTop)] /\ stack'[L] = s
      /\ \A M \in Thread : M # L => stack'[M] = stack[M]
  <2>1. stack \in [Thread -> BoundedSeq(Data, MaxTop)] /\ stack' = [stack EXCEPT ![L] = s]
    BY <1>5 DEF IInv, TypeOK, Ends
  <2>2. s \in BoundedSeq(Data, MaxTop)
    BY <1>1, <1>6, SeqOfIs DEF BoundedSeq
  <2> QED BY <2>1, <2>2, UpdateType
<1>8. PICK r : r = SubSeq(scope[L], 1, n)
  OBVIOUS
<1>9. r \in Seq(Nat) /\ Len(r) = n /\ \A i \in 1 .. n : r[i] = scope[L][i]
  <2>1. scope[L] \in Seq(Nat) /\ Len(scope[L]) = Len(stack[L])
    BY HistoryFacts DEF IInv, Scopes
  <2> QED BY <1>8, <2>1, SubSeqFacts
<1>10. /\ scope' \in [Thread -> Seq(Nat)] /\ scope'[L] = r
       /\ \A M \in Thread : M # L => scope'[M] = scope[M]
  <2>1. scope \in [Thread -> Seq(Nat)] /\ scope' = [scope EXCEPT ![L] = r]
    BY <1>8 DEF IInv, HistoryOK, Ends
  <2> QED BY <1>9, <2>1, UpdateType
<1>11. TypeOK'
  BY <1>3, <1>4, <1>7 DEF IInv, TypeOK, Ends
<1>12. ASSUME NEW M \in Thread, NEW i \in 1 .. Len(stack'[M])
       PROVE  /\ i \in 1 .. Len(stack[M]) /\ stack'[M][i] = stack[M][i]
              /\ scope'[M][i] = scope[M][i] /\ (M = L => i <= n)
  BY <1>1, <1>6, <1>7, <1>9, <1>10
<1>13. ASSUME NEW M \in Thread, NEW i \in 1 .. Len(stack[M]), M = L => i <= n
       PROVE  i \in 1 .. Len(stack'[M])
  BY <1>1, <1>6, <1>7, <1>13
<1>14. ASSUME NEW u \in Uv, IsOpen(u)
       PROVE  /\ uv[u].v.thread \in Thread /\ Level(u) \in 1 .. Len(stack[uv[u].v.thread])
              /\ uv[u].v.thread \in alive /\ uv[u].v.block = block[uv[u].v.thread]
  <2>1. uv[u].v.thread \in Thread /\ Level(u) \in 1 .. MaxTop
    BY <1>14, Types DEF IInv
  <2>2. /\ uv[u].v.thread \in alive /\ uv[u].v.block = block[uv[u].v.thread]
        /\ Level(u) <= Len(stack[uv[u].v.thread])
    BY <1>14 DEF IInv, OpenLists, Valid, Level
  <2>3. Len(stack[uv[u].v.thread]) \in Nat
    BY <2>1, Types DEF IInv
  <2> QED BY <1>1, <2>1, <2>2, <2>3
<1>15. ASSUME NEW u \in Uv, IsOpen(u)'
       PROVE  /\ uv'[u] = uv[u] /\ IsOpen(u)
              /\ Level(u) \in 1 .. Len(stack'[uv[u].v.thread])
              /\ uv[u].v.thread = L => n > 0
  <2>1. uv'[u] = uv[u] /\ ~(IsOpen(u) /\ uv[u].v.thread = L /\ Level(u) > n)
    BY <1>3, <1>15 DEF IsOpen
  <2>2. IsOpen(u)
    BY <1>15, <2>1 DEF IsOpen
  <2>3. PICK M \in Thread : M = uv[u].v.thread /\ Level(u) \in 1 .. Len(stack[M])
    BY <1>14, <2>2
  <2>4. Len(stack[M]) \in Nat
    BY Types DEF IInv
  <2>5. M = L => Level(u) <= n /\ n > 0
    BY <1>1, <2>1, <2>2, <2>3, <2>4
  <2>6. Level(u) \in 1 .. Len(stack'[M])
    BY <1>13, <2>3, <2>5
  <2> QED BY <2>1, <2>2, <2>3, <2>5, <2>6
<1>16. OpenLists'
  <2>1. ASSUME NEW u \in Uv, IsOpen(u)'
        PROVE  uv'[u].v.thread \in alive' /\ Valid(uv[u].v)'
    <3>1. PICK M \in Thread :
             /\ M = uv[u].v.thread /\ M \in alive /\ uv[u].v.block = block[M]
             /\ uv'[u] = uv[u] /\ Level(u) \in 1 .. Len(stack'[M]) /\ (M = L => n > 0)
      BY <1>14, <1>15, <2>1
    <3>2. M \in alive'
      <4>1. alive' = alive \/ (n = 0 /\ alive' = alive \ {L})
        BY DEF Ends
      <4>2. n = 0 => M # L
        BY <3>1
      <4> QED BY <3>1, <4>1, <4>2
    <3>3. Len(stack'[M]) \in Nat
      BY <1>1, <1>6, <1>7, Types DEF IInv
    <3>4. uv[u].v.level <= Len(stack'[M])
      BY <3>1, <3>3 DEF Level
    <3>5. uv'[u].v.block = block'[uv'[u].v.thread] /\ uv'[u].v.level <= Len(stack'[uv'[u].v.thread])
      BY <1>4, <3>1, <3>4
    <3> QED BY <3>1, <3>2, <3>5 DEF Valid
  <2>2. Pointing'
    BY <2>1 DEF Pointing
  <2> QED BY <1>3, <2>2 DEF OpenLists, Ordered, Listing, Pointing
<1>17. Undead' = Undead
  BY <1>4 DEF Undead, Ends
<1>18. \A c \in Undead : /\ upval[c] \in Uv /\ upval[c] \notin dead /\ uv[upval[c]] # None
                         /\ uv'[upval[c]] # None
  <2>1. \A c \in Undead : upval[c] \in Uv /\ upval[c] \notin dead /\ uv[upval[c]] # None
    BY DEF IInv, Kept, Undead, TypeOK
  <2> QED BY <1>3, <2>1
<1>19. Kept'
  <2>1. held' \cap Thread \subseteq alive'
    BY <1>4 DEF IInv, Kept, Ends
  <2>2. /\ held' \cap dead' = {}
        /\ \A c \in Clo : c \in held' \cup dead' => upval'[c] # None
        /\ \A u \in Uv : u \in dead' => uv'[u] # None
    BY <1>4 DEF IInv, Kept, Ends
  <2>3. \A c \in Undead : uv'[upval[c]] # None /\ upval[c] \notin dead'
    BY <1>18 DEF Ends
  <2> QED BY <1>4, <1>17, <2>1, <2>2, <2>3 DEF Kept
<1>20. HistoryOK'
  BY <1>4, <1>10 DEF IInv, HistoryOK
<1>21. Scopes'
  <2>1. \A M \in Thread : Len(scope'[M]) = Len(stack'[M])
    BY <1>6, <1>7, <1>9, <1>10 DEF IInv, Scopes
  <2>2. ASSUME NEW M \in Thread, NEW i \in 1 .. Len(stack'[M])
        PROVE  scope'[M][i] \in 1 .. Len(val') /\ stack'[M][i] = val'[scope'[M][i]]
    BY <1>4, <1>12 DEF IInv, Scopes
  <2>3. ASSUME NEW M \in Thread, NEW N \in Thread, NEW i \in 1 .. Len(stack'[M]),
               NEW j \in 1 .. Len(stack'[N]), scope'[M][i] = scope'[N][j]
        PROVE  M = N /\ i = j
    BY <1>12, <2>3 DEF IInv, Scopes
  <2> QED BY <2>1, <2>2, <2>3 DEF Scopes
<1>22. Captured'
  <2>1. ASSUME NEW c \in Undead, IsOpen(upval[c])'
        PROVE  cap[c][1] = scope'[uv'[upval[c]].v.thread][uv'[upval[c]].v.level]
    <3>1. PICK u \in Uv : u = upval[c]
      BY <1>18
    <3>2. uv'[u] = uv[u] /\ IsOpen(u) /\ Level(u) \in 1 .. Len(stack'[uv[u].v.thread])
      <4>1. IsOpen(u)'
        BY <1>4, <2>1, <3>1 DEF IsOpen
      <4> QED BY <1>15, <4>1
    <3>3. PICK M \in Thread : M = uv[u].v.thread
      BY <1>14, <3>2
    <3>4. cap[c][1] = scope[M][Level(u)]
      BY <3>1, <3>2, <3>3 DEF IInv, Captured
    <3> QED BY <1>12, <3>1, <3>2, <3>3, <3>4 DEF Level
  <2>2. ASSUME NEW c \in Undead, ~IsOpen(upval[c])'
        PROVE  /\ uv'[upval[c]].v = val[cap[c][1]]
               /\ \A M \in Thread : \A i \in 1 .. Len(stack'[M]) : scope'[M][i] # cap[c][1]
    <3>1. PICK u \in Uv : u = upval[c] /\ uv[u] # None /\ u \notin dead
      BY <1>18
    <3>2. CASE IsOpen(u)
      <4>1. uv[u].v.thread = L /\ Level(u) > n
        BY <1>3, <1>4, <2>2, <3>1, <3>2 DEF IsOpen
      <4>2. uv'[u].v = stack[L][Level(u)] /\ Level(u) \in 1 .. Len(stack[L])
        BY <1>3, <3>1, <3>2, <4>1
      <4>3. cap[c][1] = scope[L][Level(u)]
        BY <3>1, <3>2, <4>1 DEF IInv, Captured
      <4>4. stack[L][Level(u)] = val[cap[c][1]]
        BY <4>2, <4>3 DEF IInv, Scopes
      <4>5. ASSUME NEW M \in Thread, NEW i \in 1 .. Len(stack'[M]), scope'[M][i] = cap[c][1]
            PROVE  FALSE
        <5>1. /\ i \in 1 .. Len(stack[M]) /\ scope[M][i] = scope[L][Level(u)] /\ (M = L => i <= n)
          BY <1>12, <4>3, <4>5
        <5>2. M = L /\ i = Level(u)
          BY <4>2, <5>1 DEF IInv, Scopes
        <5> QED BY <1>1, <4>1, <4>2, <5>1, <5>2
      <4> QED BY <3>1, <4>2, <4>4, <4>5
    <3>3. CASE ~IsOpen(u)
      <4>1. uv'[u] = uv[u]
        BY <1>3, <3>3
      <4>2. /\ uv[u].v = val[cap[c][1]]
            /\ \A M \in Thread : \A i \in 1 .. Len(stack[M]) : scope[M][i] # cap[c][1]
        BY <3>1, <3>3 DEF IInv, Captured
      <4> QED BY <1>12, <3>1, <4>1, <4>2
    <3> QED BY <3>2, <3>3
  <2>3. /\ \A c \in Undead : Len(cap[c]) = 1 /\ cap[c][1] \in 1 .. Len(val)
        /\ \A c, d \in Undead : upval[c] = upval[d] <=> cap[c][1] = cap[d][1]
    BY DEF IInv, Captured
  <2> QED BY <1>4, <1>17, <2>1, <2>2, <2>3 DEF Captured, IsOpen, Level
<1> QED BY <1>11, <1>16, <1>19, <1>20, <1>21, <1>22 DEF IInv

LEMMA ExceptFacts ==
    ASSUME NEW S, NEW s \in Seq(S), NEW i \in 1 .. Len(s), NEW e \in S,
           NEW t, t = [s EXCEPT ![i] = e]
    PROVE  /\ t \in Seq(S) /\ Len(t) = Len(s) /\ t[i] = e
           /\ \A j \in 1 .. Len(s) : j # i => t[j] = s[j]
BY ExceptSeq

LEMMA LeaveStep ==
    ASSUME IInv, NEW L \in Thread, NEW n \in 0 .. MaxTop, Leave(L, n)
    PROVE  IInv'
<1>1. n \in 0 .. Len(stack[L])
  BY Types DEF IInv, Leave
<1>2. /\ luaF_close(L, n, dead) /\ dead' = {x \in dead : x \in Uv => uv'[x] # None}
      /\ stack' = [stack EXCEPT ![L] = SubSeq(@, 1, n)]
      /\ scope' = [scope EXCEPT ![L] = SubSeq(@, 1, n)]
      /\ UNCHANGED <<block, upval, held, alive, unswept, val, cap>>
  BY DEF Leave, Cells!Leave
<1>3. \A c \in Clo : c \in dead => c \in dead'
  BY <1>2, UpValAssumption
<1>4. Ends(L, n)
  BY <1>2, <1>3 DEF Ends
<1> QED BY <1>1, <1>4, EndsStep

\* A value is assigned to the slot i of L, and to its cell.
AssignsSlot(L, i, v) ==
    /\ stack' = [stack EXCEPT ![L][i] = v]
    /\ val' = [val EXCEPT ![scope[L][i]] = v]
    /\ UNCHANGED <<block, closures, gc, scope, cap>>

LEMMA AssignsSlotStep ==
    ASSUME IInv, NEW L \in Thread, NEW i \in 1 .. Len(stack[L]), NEW v \in Data,
           AssignsSlot(L, i, v)
    PROVE  IInv'
<1>1. UNCHANGED <<block, uv, openupval, upval, held, alive, dead, unswept, scope, cap>>
  BY DEF AssignsSlot
<1>2. PICK m \in Nat : m = Len(val)
  BY HistoryFacts DEF IInv
<1>3. PICK n : n = scope[L][i]
  OBVIOUS
<1>4. n \in 1 .. m /\ stack[L][i] = val[n]
  BY <1>2, <1>3 DEF IInv, Scopes
<1>5. PICK s : s = [stack[L] EXCEPT ![i] = v]
  OBVIOUS
<1>6. s \in Seq(Data) /\ Len(s) = Len(stack[L]) /\ s[i] = v
      /\ \A j \in 1 .. Len(stack[L]) : j # i => s[j] = stack[L][j]
  <2>1. stack[L] \in Seq(Data)
    BY Types DEF IInv
  <2> QED BY <1>5, <2>1, ExceptFacts
<1>7. /\ stack' \in [Thread -> BoundedSeq(Data, MaxTop)] /\ stack'[L] = s
      /\ \A M \in Thread : M # L => stack'[M] = stack[M]
  <2>1. stack \in [Thread -> BoundedSeq(Data, MaxTop)] /\ MaxTop \in Nat
    BY UpValAssumption DEF IInv, TypeOK
  <2>2. stack' = [stack EXCEPT ![L] = s]
    BY <1>5 DEF AssignsSlot
  <2>3. Len(stack[L]) <= MaxTop
    BY Types DEF IInv
  <2>4. s \in BoundedSeq(Data, MaxTop)
    BY <1>6, <2>1, <2>3, SeqOfIs DEF BoundedSeq
  <2> QED BY <2>1, <2>2, <2>4, UpdateType
<1>8. /\ val' \in Seq(Data) /\ Len(val') = m /\ val'[n] = v
      /\ \A k \in 1 .. m : k # n => val'[k] = val[k]
  <2>1. val \in Seq(Data) /\ val' = [val EXCEPT ![n] = v] /\ n \in 1 .. Len(val)
    BY <1>2, <1>3, <1>4 DEF IInv, HistoryOK, AssignsSlot
  <2> QED BY <1>2, <2>1, ExceptFacts
<1>9. TypeOK'
  BY <1>1, <1>7 DEF IInv, TypeOK
<1>10. \A M \in Thread : Len(stack'[M]) = Len(stack[M])
  BY <1>6, <1>7
<1>11. OpenLists'
  <2>1. Ordered' /\ Listing'
    BY <1>1 DEF IInv, OpenLists, Ordered, Listing, Level, IsOpen
  <2>2. ASSUME NEW u \in Uv, IsOpen(u)
        PROVE  uv[u].v.thread \in alive /\ uv[u].v.block = block[uv[u].v.thread]
               /\ uv[u].v.level <= Len(stack'[uv[u].v.thread])
    <3>1. uv[u].v.thread \in Thread
      BY <2>2, Types DEF IInv
    <3> QED BY <1>10, <2>2, <3>1 DEF IInv, OpenLists, Valid
  <2>3. Pointing'
    BY <1>1, <2>2 DEF Pointing, IsOpen, Valid
  <2> QED BY <2>1, <2>3 DEF OpenLists, Ordered, Listing, Pointing
<1>12. Kept'
  BY <1>1 DEF IInv, Kept, Undead
<1>13. HistoryOK'
  BY <1>1, <1>8 DEF IInv, HistoryOK
<1>14. Scopes'
  <2>1. ASSUME NEW M \in Thread, NEW j \in 1 .. Len(stack[M])
        PROVE  scope[M][j] \in 1 .. m /\ stack'[M][j] = val'[scope[M][j]]
    <3>1. scope[M][j] \in 1 .. m /\ stack[M][j] = val[scope[M][j]]
      BY <1>2 DEF IInv, Scopes
    <3>2. CASE M = L /\ j = i
      BY <1>3, <1>6, <1>7, <1>8, <3>1, <3>2
    <3>3. CASE ~(M = L /\ j = i)
      <4>1. scope[M][j] # n
        BY <1>3, <3>3 DEF IInv, Scopes
      <4>2. stack'[M][j] = stack[M][j]
        BY <1>6, <1>7, <3>3
      <4> QED BY <1>8, <3>1, <4>1, <4>2
    <3> QED BY <3>2, <3>3
  <2>2. \A M \in Thread : Len(scope'[M]) = Len(stack'[M])
    BY <1>1, <1>10 DEF IInv, Scopes
  <2>3. \A M \in Thread : \A j \in 1 .. Len(stack'[M]) :
          scope'[M][j] \in 1 .. Len(val') /\ stack'[M][j] = val'[scope'[M][j]]
    BY <1>1, <1>8, <1>10, <2>1
  <2>4. \A M, N \in Thread : \A j \in 1 .. Len(stack'[M]), k \in 1 .. Len(stack'[N]) :
          scope'[M][j] = scope'[N][k] => M = N /\ j = k
    BY <1>1, <1>10 DEF IInv, Scopes
  <2> QED BY <2>2, <2>3, <2>4 DEF Scopes
<1>15. Captured'
  <2>1. Undead' = Undead
    BY <1>1 DEF Undead
  <2>2. ASSUME NEW c \in Undead, ~IsOpen(upval[c])
        PROVE  /\ uv[upval[c]].v = val'[cap[c][1]]
               /\ \A M \in Thread : \A j \in 1 .. Len(stack'[M]) : scope[M][j] # cap[c][1]
    <3>1. /\ cap[c][1] \in 1 .. m /\ uv[upval[c]].v = val[cap[c][1]]
          /\ \A M \in Thread : \A j \in 1 .. Len(stack[M]) : scope[M][j] # cap[c][1]
      BY <1>2, <2>2 DEF IInv, Captured
    <3>2. cap[c][1] # n
      BY <1>3, <3>1
    <3> QED BY <1>8, <1>10, <3>1, <3>2
  <2> QED BY <1>1, <1>2, <1>8, <2>1, <2>2 DEF IInv, Captured, IsOpen, Level
<1> QED BY <1>9, <1>11, <1>12, <1>13, <1>14, <1>15 DEF IInv

LEMMA SetLocalStep ==
    ASSUME IInv, NEW L \in Thread, NEW i \in DOMAIN stack[L], NEW v \in Data, SetLocal(L, i, v)
    PROVE  IInv'
<1>1. i \in 1 .. Len(stack[L])
  BY Types DEF IInv
<1>2. AssignsSlot(L, i, v)
  BY DEF SetLocal, Cells!Assign, AssignsSlot
<1> QED BY <1>1, <1>2, AssignsSlotStep

\* What the closure of a running function has.
LEMMA HeldFacts ==
    ASSUME IInv, NEW c \in Clo, c \in held
    PROVE  /\ c \in Undead /\ c \notin dead /\ upval[c] \in Uv /\ upval[c] \notin dead
           /\ uv[upval[c]] # None /\ Len(cap[c]) = 1 /\ cap[c][1] \in 1 .. Len(val)
<1>1. c \notin dead /\ upval[c] # None
  BY DEF IInv, Kept
<1>2. c \in Undead /\ upval[c] \in Uv
  BY <1>1 DEF Undead, IInv, TypeOK
<1> QED BY <1>1, <1>2 DEF IInv, Kept, Captured

\* An open upvalue leads to a slot of an active variable.
LEMMA OpenFacts ==
    ASSUME IInv, NEW u \in Uv, IsOpen(u)
    PROVE  /\ uv[u].v.thread \in Thread /\ Level(u) \in 1 .. Len(stack[uv[u].v.thread])
           /\ uv[u].v.thread \in alive /\ uv[u].v.block = block[uv[u].v.thread]
           /\ uv[u].v = Slot(uv[u].v.thread, Level(u))
<1>1. PICK L \in Thread : L = uv[u].v.thread /\ Level(u) \in 1 .. MaxTop /\ uv[u].v \in Pointer
  BY Types DEF IInv
<1>2. L \in alive /\ uv[u].v.block = block[L] /\ Level(u) <= Len(stack[L])
  BY <1>1 DEF IInv, OpenLists, Valid, Level
<1>3. Len(stack[L]) \in Nat /\ MaxTop \in Nat
  BY Types DEF IInv
<1>4. Level(u) \in 1 .. Len(stack[L])
  BY <1>1, <1>2, <1>3
<1>5. uv[u].v = [thread |-> L, block |-> block[L], level |-> Level(u)]
  BY <1>1, <1>2, PointerFacts DEF Level
<1> QED BY <1>1, <1>2, <1>4, <1>5 DEF Slot

LEMMA SetUpvalStep ==
    ASSUME IInv, NEW c \in Clo, NEW v \in Data, SetUpval(c, v)
    PROVE  IInv'
<1>1. PICK u \in Uv : /\ u = upval[c] /\ u \notin dead /\ uv[u] # None /\ c \in Undead
                      /\ Len(cap[c]) = 1 /\ cap[c][1] \in 1 .. Len(val)
  BY HeldFacts DEF SetUpval
<1>2. PICK n : n = cap[c][1]
  OBVIOUS
<1>3. val' = [val EXCEPT ![n] = v] /\ UNCHANGED <<block, openupval, upval, gc, scope, cap>>
  BY <1>2 DEF SetUpval, Cells!Assign
<1>4. CASE IsOpen(u)
  <2>1. PICK L \in Thread, i \in Nat :
           L = uv[u].v.thread /\ i = Level(u) /\ i \in 1 .. Len(stack[L])
    BY <1>4, OpenFacts
  <2>2. stack' = [stack EXCEPT ![L][i] = v] /\ uv' = uv
    BY <1>1, <1>4, <2>1 DEF SetUpval
  <2>3. scope[L][i] = n
    BY <1>1, <1>2, <1>4, <2>1 DEF IInv, Captured
  <2>4. AssignsSlot(L, i, v)
    BY <1>3, <2>2, <2>3 DEF AssignsSlot
  <2> QED BY <2>1, <2>4, AssignsSlotStep
<1>5. CASE ~IsOpen(u)
  <2>1. uv' = [uv EXCEPT ![u].v = v] /\ stack' = stack
    BY <1>1, <1>5 DEF SetUpval
  <2>2. uv[u].st = "closed" /\ uv[u] = [st |-> "closed", v |-> uv[u].v]
    BY <1>1, <1>5, Types DEF IInv
  <2>3. PICK x : x = [st |-> "closed", v |-> v]
    OBVIOUS
  <2>4. x \in UpVal /\ x # None /\ x.st = "closed" /\ x.v = v
    BY <2>3, UpValIntro
  <2>5. uv' = [uv EXCEPT ![u] = x]
    <3>1. x = [uv[u] EXCEPT !.v = v]
      <4>1. PICK r : r = uv[u]
        OBVIOUS
      <4>2. r = [st |-> "closed", v |-> r.v]
        BY <2>2, <4>1
      <4>3. [r EXCEPT !.v = v] = [st |-> "closed", v |-> v]
        BY <4>2
      <4> QED BY <2>3, <4>1, <4>3
    <3> QED BY <2>1, <3>1
  <2>6. /\ uv' \in [Uv -> UpVal] /\ uv'[u] = x
        /\ \A w \in Uv : w # u => uv'[w] = uv[w]
    <3>1. uv \in [Uv -> UpVal]
      BY DEF IInv, TypeOK
    <3> QED BY <2>4, <2>5, <3>1, UpdateType
  <2>7. PICK m \in Nat : m = Len(val)
    BY HistoryFacts DEF IInv
  <2>8. /\ val' \in Seq(Data) /\ Len(val') = m /\ val'[n] = v
        /\ \A k \in 1 .. m : k # n => val'[k] = val[k]
    <3>1. val \in Seq(Data) /\ n \in 1 .. Len(val)
      BY <1>1, <1>2 DEF IInv, HistoryOK
    <3> QED BY <1>3, <2>7, <3>1, ExceptFacts
  <2>9. \A w \in Uv : (uv'[w] # None <=> uv[w] # None) /\ (IsOpen(w)' <=> IsOpen(w))
    BY <1>1, <1>5, <2>2, <2>4, <2>6 DEF IsOpen
  <2>10. \A w \in Uv : IsOpen(w) => uv'[w] = uv[w]
    BY <1>5, <2>6
  <2>11. TypeOK'
    BY <1>3, <2>1, <2>6 DEF IInv, TypeOK
  <2>12. OpenLists'
    <3>1. Listing'
      BY <1>3, <2>9, <2>10 DEF IInv, OpenLists, Listing
    <3>2. Ordered'
      <4>1. ASSUME NEW L \in Thread, NEW j \in 1 .. Len(openupval[L]),
                   NEW k \in 1 .. Len(openupval[L]), j < k
            PROVE  uv'[openupval[L][j]].v.level > uv'[openupval[L][k]].v.level
        <5>1. /\ openupval[L][j] \in Uv /\ IsOpen(openupval[L][j])
              /\ openupval[L][k] \in Uv /\ IsOpen(openupval[L][k])
              /\ Level(openupval[L][j]) > Level(openupval[L][k])
          BY <4>1, Listed DEF IInv
        <5> QED BY <2>10, <5>1 DEF Level
      <4>2. \A L \in Thread : DOMAIN openupval[L] = 1 .. Len(openupval[L])
        BY Types DEF IInv
      <4> QED BY <1>3, <4>1, <4>2 DEF Ordered, Level
    <3>3. Pointing'
      <4>1. ASSUME NEW w \in Uv, IsOpen(w)
            PROVE  uv'[w].v.thread \in alive /\ uv'[w].v.block = block[uv'[w].v.thread]
                   /\ uv'[w].v.level <= Len(stack[uv'[w].v.thread])
        <5>1. uv'[w] = uv[w]
          BY <2>10, <4>1
        <5>2. uv[w].v.thread \in alive /\ Valid(uv[w].v)
          BY <4>1 DEF IInv, OpenLists
        <5> QED BY <5>1, <5>2 DEF Valid
      <4> QED BY <1>3, <2>1, <2>9, <4>1 DEF Pointing, Valid
    <3> QED BY <3>1, <3>2, <3>3 DEF OpenLists, Ordered, Listing, Pointing
  <2>13. Undead' = Undead
    BY <1>3 DEF Undead
  <2>14. \A d \in Undead : upval[d] \in Uv
    BY DEF Undead, IInv, TypeOK
  <2>15. Kept'
    BY <1>3, <2>9, <2>13, <2>14 DEF IInv, Kept
  <2>16. HistoryOK'
    BY <1>3, <2>8 DEF IInv, HistoryOK
  <2>17. \A L \in Thread : \A i \in 1 .. Len(stack[L]) : scope[L][i] # n
    BY <1>1, <1>2, <1>5 DEF IInv, Captured
  <2>18. Scopes'
    <3>1. \A M \in Thread : \A j \in 1 .. Len(stack[M]) :
            scope[M][j] \in 1 .. m /\ stack[M][j] = val'[scope[M][j]]
      BY <2>7, <2>8, <2>17 DEF IInv, Scopes
    <3> QED BY <1>3, <2>1, <2>8, <3>1 DEF IInv, Scopes
  <2>19. Captured'
    <3>1. ASSUME NEW d \in Undead, ~IsOpen(upval[d])
          PROVE  uv'[upval[d]].v = val'[cap[d][1]]
      <4>1. cap[d][1] \in 1 .. m /\ uv[upval[d]].v = val[cap[d][1]]
        BY <2>7, <3>1 DEF IInv, Captured
      <4>2. upval[d] = u <=> cap[d][1] = n
        BY <1>1, <1>2 DEF IInv, Captured
      <4> QED BY <2>4, <2>6, <2>8, <2>14, <4>1, <4>2
    <3>2. \A d \in Undead : IsOpen(upval[d]) =>
            cap[d][1] = scope[uv'[upval[d]].v.thread][uv'[upval[d]].v.level]
      BY <2>10, <2>14 DEF IInv, Captured, Level
    <3>3. \A d \in Undead : ~IsOpen(upval[d]) =>
            \A L \in Thread : \A i \in 1 .. Len(stack[L]) : scope[L][i] # cap[d][1]
      BY DEF IInv, Captured
    <3>4. /\ \A d \in Undead : Len(cap[d]) = 1 /\ cap[d][1] \in 1 .. Len(val')
          /\ \A d, e \in Undead : upval[d] = upval[e] <=> cap[d][1] = cap[e][1]
      BY <2>7, <2>8 DEF IInv, Captured
    <3>5. \A d \in Undead : IsOpen(upval[d])' <=> IsOpen(upval[d])
      BY <1>3, <2>9, <2>14 DEF IsOpen
    <3> QED BY <1>3, <2>1, <2>13, <3>1, <3>2, <3>3, <3>4, <3>5 DEF Captured, Level
  <2> QED BY <2>11, <2>12, <2>15, <2>16, <2>18, <2>19 DEF IInv
<1> QED BY <1>4, <1>5

\* A new closure c gets the upvalue u, of cell n, which the other closures
\* that have it know by that cell.
Gives(c, u, n) ==
    /\ NewClosure(c, u, n)
    /\ uv' \in [Uv -> UpVal] /\ openupval' \in [Thread -> BoundedSeq(Uv, MaxTop)]
    /\ dead' = dead \ {u} /\ uv'[u] # None
    /\ \A w \in Uv : uv[w] # None => uv'[w] = uv[w]
    /\ OpenLists'
    /\ IsOpen(u)' => n = scope[uv'[u].v.thread][uv'[u].v.level]
    /\ ~IsOpen(u)' => /\ uv'[u].v = val[n]
                      /\ \A L \in Thread : \A i \in 1 .. Len(stack[L]) : scope[L][i] # n
    /\ \A d \in Undead : upval[d] = u <=> cap[d][1] = n

LEMMA GivesStep ==
    ASSUME IInv, NEW c \in Clo, NEW u \in Uv, NEW n \in 1 .. Len(val), Gives(c, u, n)
    PROVE  IInv'
<1>1. NewClosure(c, u, n)
  BY DEF Gives
<1>2. /\ upval[c] = None /\ held' = held \cup {c} /\ dead' = dead \ {u}
      /\ UNCHANGED <<stack, block, alive, unswept, val, scope>>
  BY <1>1 DEF Gives, NewClosure
<1>3. c \notin held /\ c \notin dead /\ c \notin Undead /\ c \notin Thread /\ c # u /\ u # None
  BY <1>2, UpValAssumption DEF IInv, Kept, Undead
<1>4. /\ upval' \in [Clo -> Uv \cup {None}] /\ upval'[c] = u
      /\ \A d \in Clo : d # c => upval'[d] = upval[d]
  <2>1. upval \in [Clo -> Uv \cup {None}] /\ upval' = [upval EXCEPT ![c] = u]
    BY <1>1 DEF NewClosure, IInv, TypeOK
  <2> QED BY <2>1, UpdateType
<1>5. PICK q : q = <<n>>
  OBVIOUS
<1>6. Len(val) \in Nat /\ n \in Nat
  BY HistoryFacts DEF IInv
<1>7. q \in Seq(Nat) /\ Len(q) = 1 /\ q[1] = n
  BY <1>5, <1>6
<1>8. /\ cap' \in [Clo -> Seq(Nat)] /\ cap'[c] = q
      /\ \A d \in Clo : d # c => cap'[d] = cap[d]
  <2>1. cap \in [Clo -> Seq(Nat)] /\ cap' = [cap EXCEPT ![c] = q]
    BY <1>1, <1>5 DEF NewClosure, IInv, HistoryOK
  <2> QED BY <1>7, <2>1, UpdateType
<1>9. \A d : d \in Undead' <=> d \in Undead \/ d = c
  <2>1. \A d \in Clo : d # u
    BY UpValAssumption
  <2> QED BY <1>2, <1>3, <1>4, <2>1 DEF Undead
<1>10. \A d \in Undead : /\ d \in Clo /\ d # c /\ upval'[d] = upval[d] /\ cap'[d] = cap[d]
                         /\ upval[d] \in Uv /\ upval[d] \notin dead /\ uv[upval[d]] # None
  BY <1>3, <1>4, <1>8 DEF Undead, IInv, Kept, TypeOK
<1>11. /\ \A d \in Undead : uv'[upval[d]] = uv[upval[d]]
       /\ uv'[u] # None
  BY <1>10 DEF Gives
<1>12. TypeOK'
  <2>1. /\ uv' \in [Uv -> UpVal] /\ openupval' \in [Thread -> BoundedSeq(Uv, MaxTop)]
    BY DEF Gives
  <2>2. held' \in SUBSET (Clo \cup Thread) /\ dead' \in SUBSET (Clo \cup Thread \cup Uv)
    BY <1>2 DEF IInv, TypeOK
  <2> QED BY <1>2, <1>4, <2>1, <2>2 DEF IInv, TypeOK
<1>13. OpenLists'
  BY DEF Gives
<1>14. Kept'
  <2>1. held' \cap Thread \subseteq alive' /\ held' \cap dead' = {}
    BY <1>2, <1>3 DEF IInv, Kept
  <2>2. \A d \in Clo : d \in held' \cup dead' => upval'[d] # None
    BY <1>2, <1>3, <1>4 DEF IInv, Kept
  <2>3. \A w \in Uv : w \in dead' => uv'[w] # None
    <3>1. \A w \in Uv : uv[w] # None => uv'[w] = uv[w]
      BY DEF Gives
    <3> QED BY <1>2, <3>1 DEF IInv, Kept
  <2>4. \A d \in Undead' : uv'[upval'[d]] # None /\ upval'[d] \notin dead'
    BY <1>2, <1>4, <1>9, <1>10, <1>11
  <2> QED BY <2>1, <2>2, <2>3, <2>4 DEF Kept
<1>15. HistoryOK'
  BY <1>2, <1>8 DEF IInv, HistoryOK
<1>16. Scopes'
  BY <1>2 DEF IInv, Scopes
<1>17. Captured'
  <2>1. \A d \in Undead' : Len(cap'[d]) = 1 /\ cap'[d][1] \in 1 .. Len(val)
    BY <1>7, <1>8, <1>9, <1>10 DEF IInv, Captured
  <2>2. ASSUME NEW d \in Undead', IsOpen(upval[d])'
        PROVE  cap'[d][1] = scope[uv'[upval'[d]].v.thread][uv'[upval'[d]].v.level]
    <3>1. CASE d = c
      BY <1>4, <1>7, <1>8, <2>2, <3>1 DEF Gives, IsOpen
    <3>2. CASE d \in Undead
      <4>1. IsOpen(upval[d])
        BY <1>10, <1>11, <2>2, <3>2 DEF IsOpen
      <4> QED BY <1>10, <1>11, <3>2, <4>1 DEF IInv, Captured, Level
    <3> QED BY <1>9, <3>1, <3>2
  <2>3. ASSUME NEW d \in Undead', ~IsOpen(upval[d])'
        PROVE  /\ uv'[upval'[d]].v = val[cap'[d][1]]
               /\ \A L \in Thread : \A i \in 1 .. Len(stack[L]) : scope[L][i] # cap'[d][1]
    <3>1. CASE d = c
      BY <1>4, <1>7, <1>8, <2>3, <3>1 DEF Gives, IsOpen
    <3>2. CASE d \in Undead
      <4>1. ~IsOpen(upval[d])
        BY <1>10, <1>11, <2>3, <3>2 DEF IsOpen
      <4> QED BY <1>10, <1>11, <3>2, <4>1 DEF IInv, Captured
    <3> QED BY <1>9, <3>1, <3>2
  <2>4. ASSUME NEW d \in Undead', NEW e \in Undead'
        PROVE  upval'[d] = upval'[e] <=> cap'[d][1] = cap'[e][1]
    <3>1. \A x \in Undead : upval'[x] = u <=> cap'[x][1] = n
      BY <1>10 DEF Gives
    <3>2. \A x, y \in Undead : upval'[x] = upval'[y] <=> cap'[x][1] = cap'[y][1]
      BY <1>10 DEF IInv, Captured
    <3>3. upval'[c] = u /\ cap'[c][1] = n
      BY <1>4, <1>7, <1>8
    <3> QED BY <1>9, <3>1, <3>2, <3>3
  <2> QED BY <1>2, <2>1, <2>2, <2>3, <2>4 DEF Captured, Level
<1> QED BY <1>12, <1>13, <1>14, <1>15, <1>16, <1>17 DEF IInv

LEMMA ClosureOfUpvalueStep ==
    ASSUME IInv, NEW f \in Clo, NEW c \in Clo, ClosureOfUpvalue(f, c)
    PROVE  IInv'
<1>1. PICK u \in Uv : /\ u = upval[f] /\ u \notin dead /\ uv[u] # None /\ f \in Undead
                      /\ cap[f][1] \in 1 .. Len(val)
  BY HeldFacts DEF ClosureOfUpvalue
<1>2. PICK n \in 1 .. Len(val) : n = cap[f][1]
  BY <1>1
<1>3. NewClosure(c, u, n) /\ uv' = uv /\ openupval' = openupval /\ dead' = dead
  BY <1>1, <1>2 DEF ClosureOfUpvalue
<1>4. UNCHANGED <<stack, block, alive>>
  BY <1>3 DEF NewClosure
<1>5. OpenLists'
  BY <1>3, <1>4 DEF IInv, OpenLists, IsOpen, Level, Valid
<1>6. /\ IsOpen(u)' => n = scope[uv'[u].v.thread][uv'[u].v.level]
      /\ ~IsOpen(u)' => /\ uv'[u].v = val[n]
                        /\ \A L \in Thread : \A i \in 1 .. Len(stack[L]) : scope[L][i] # n
      /\ \A d \in Undead : upval[d] = u <=> cap[d][1] = n
  BY <1>1, <1>2, <1>3 DEF IInv, Captured, IsOpen, Level
<1>7. dead' = dead \ {u} /\ uv'[u] # None
  BY <1>1, <1>3
<1>8. Gives(c, u, n)
  BY <1>3, <1>5, <1>6, <1>7 DEF Gives, IInv, TypeOK
<1> QED BY <1>2, <1>8, GivesStep

LEMMA ClosureOfLocalStep ==
    ASSUME IInv, NEW L \in Thread, NEW c \in Clo, NEW i \in DOMAIN stack[L], NEW u \in Uv,
           ClosureOfLocal(L, c, i, u)
    PROVE  IInv'
<1>1. i \in 1 .. Len(stack[L]) /\ i \in 1 .. MaxTop
  BY Types DEF IInv
<1>2. L \in alive /\ luaF_findupval(L, i, u)
  BY DEF ClosureOfLocal, IInv, Kept
<1>3. /\ uv' \in [Uv -> UpVal] /\ openupval' \in [Thread -> BoundedSeq(Uv, MaxTop)]
      /\ dead' = dead \ {u}
      /\ uv'[u] = [st |-> "open", v |-> Slot(L, i)]
      /\ \A w \in Uv : w # u => uv'[w] = uv[w]
      /\ uv[u] # None => uv'[u] = uv[u]
      /\ uv[u] = None => \A w \in Uv : IsOpen(w) => uv[w].v # Slot(L, i)
      /\ Ordered' /\ Listing'
  BY <1>1, <1>2, FindFacts DEF IInv
<1>4. PICK n : n = scope[L][i]
  OBVIOUS
<1>5. n \in 1 .. Len(val) /\ NewClosure(c, u, n)
  BY <1>1, <1>4 DEF IInv, Scopes, ClosureOfLocal
<1>6. UNCHANGED <<stack, block, alive>>
  BY <1>5 DEF NewClosure
<1>7. /\ Slot(L, i) \in Pointer /\ Slot(L, i).thread = L
      /\ Slot(L, i).block = block[L] /\ Slot(L, i).level = i
  BY <1>1, SlotFacts DEF IInv
<1>8. uv'[u] # None /\ uv'[u].st = "open" /\ uv'[u].v = Slot(L, i)
  BY <1>3, <1>7, UpValIntro
<1>9. \A w \in Uv : uv[w] # None => uv'[w] = uv[w]
  BY <1>3
<1>10. OpenLists'
  <2>1. ASSUME NEW w \in Uv, IsOpen(w)'
        PROVE  /\ uv'[w].v.thread \in alive /\ uv'[w].v.block = block[uv'[w].v.thread]
               /\ uv'[w].v.level <= Len(stack[uv'[w].v.thread])
    <3>1. CASE w = u
      <4>1. Len(stack[L]) \in Nat
        BY Types DEF IInv
      <4> QED BY <1>1, <1>2, <1>7, <1>8, <3>1, <4>1
    <3>2. CASE w # u
      <4>1. uv'[w] = uv[w] /\ IsOpen(w)
        BY <1>3, <2>1, <3>2 DEF IsOpen
      <4> QED BY <4>1 DEF IInv, OpenLists, Valid
    <3> QED BY <3>1, <3>2
  <2>2. Pointing'
    BY <1>6, <2>1 DEF Pointing, Valid
  <2> QED BY <1>3, <2>2 DEF OpenLists, Ordered, Listing, Pointing
<1>11. ASSUME NEW d \in Undead PROVE upval[d] = u <=> cap[d][1] = n
  <2>1. PICK w \in Uv : w = upval[d] /\ uv[w] # None
    BY DEF Undead, IInv, Kept, TypeOK
  <2>2. ASSUME w = u PROVE cap[d][1] = n
    <3>1. uv[w].v = Slot(L, i) /\ IsOpen(w)
      BY <1>3, <1>8, <2>1, <2>2 DEF IsOpen
    <3>2. cap[d][1] = scope[uv[w].v.thread][uv[w].v.level]
      BY <2>1, <3>1 DEF IInv, Captured, Level
    <3> QED BY <1>4, <1>7, <3>1, <3>2
  <2>3. ASSUME cap[d][1] = n PROVE w = u
    <3>1. IsOpen(w)
      BY <1>1, <1>4, <2>1, <2>3 DEF IInv, Captured
    <3>2. cap[d][1] = scope[uv[w].v.thread][Level(w)]
      BY <2>1, <3>1 DEF IInv, Captured
    <3>3. PICK M \in Thread, j \in Nat : /\ M = uv[w].v.thread /\ j = Level(w)
                                         /\ j \in 1 .. Len(stack[M]) /\ uv[w].v = Slot(M, j)
      BY <3>1, OpenFacts
    <3>4. M = L /\ j = i
      <4>1. scope[M][j] = scope[L][i]
        BY <1>4, <2>3, <3>2, <3>3
      <4>2. j \in 1 .. Len(stack[M])
        BY <3>3
      <4> QED BY <1>1, <4>1, <4>2 DEF IInv, Scopes
    <3>5. uv[w].v = Slot(L, i)
      BY <3>3, <3>4
    <3>6. uv[u] # None
      BY <1>3, <3>1, <3>5
    <3>7. IsOpen(u) /\ uv[u].v = Slot(L, i)
      BY <1>3, <1>8, <3>6 DEF IsOpen
    <3>8. uv[u].v.thread = uv[w].v.thread /\ Level(u) = Level(w)
      BY <3>5, <3>7 DEF Level
    <3> QED BY <3>1, <3>7, <3>8, OneForSlot DEF IInv
  <2> QED BY <2>1, <2>2, <2>3
<1>12. Gives(c, u, n)
  BY <1>3, <1>4, <1>5, <1>7, <1>8, <1>9, <1>10, <1>11 DEF Gives, IsOpen
<1> QED BY <1>5, <1>12, GivesStep

\* Reads, and dropping a reference.
LEMMA QuietStep ==
    ASSUME IInv, held' \subseteq held,
           UNCHANGED <<stacks, closures, alive, dead, unswept, val, scope, cap>>
    PROVE  IInv'
<1>1. UNCHANGED <<stack, block, uv, openupval, upval, alive, dead, unswept, val, scope, cap>>
  OBVIOUS
<1>2. TypeOK'
  BY <1>1 DEF IInv, TypeOK
<1>3. OpenLists'
  BY <1>1 DEF IInv, OpenLists, IsOpen, Level, Valid
<1>4. Undead' = Undead
  BY <1>1 DEF Undead
<1>5. Kept'
  BY <1>1, <1>4 DEF IInv, Kept
<1>6. HistoryOK' /\ Scopes'
  BY <1>1 DEF IInv, HistoryOK, Scopes
<1>7. Captured'
  BY <1>1, <1>4 DEF IInv, Captured, IsOpen, Level
<1> QED BY <1>2, <1>3, <1>5, <1>6, <1>7 DEF IInv

LEMMA ReallocStep ==
    ASSUME IInv, NEW L \in Thread, luaD_reallocstack(L)
    PROVE  IInv'
<1>1. /\ block' = [block EXCEPT ![L] = 1 - @]
      /\ uv' = [u \in Uv |-> IF u \in ToSet(openupval[L])
                               THEN [uv[u] EXCEPT !.v.block = block'[L]] ELSE uv[u]]
      /\ UNCHANGED <<stack, openupval, upval, held, alive, dead, unswept, val, scope, cap>>
  BY DEF luaD_reallocstack
<1>2. PICK b \in Block : b = block'[L]
  <2>1. block \in [Thread -> Block]
    BY DEF IInv, TypeOK
  <2> QED BY <1>1, <2>1 DEF Block
<1>3. /\ block' \in [Thread -> Block] /\ block'[L] = b
      /\ \A M \in Thread : M # L => block'[M] = block[M]
  <2>1. block \in [Thread -> Block] /\ 1 - block[L] = b
    BY <1>1, <1>2 DEF IInv, TypeOK
  <2> QED BY <1>1, <2>1, UpdateType
<1>4. \A u \in Uv : u \in ToSet(openupval[L]) <=> IsOpen(u) /\ uv[u].v.thread = L
  BY DEF IInv, OpenLists
<1>5. ASSUME NEW u \in Uv, ~IsOpen(u) \/ uv[u].v.thread # L PROVE uv'[u] = uv[u]
  BY <1>1, <1>4, <1>5
<1>6. ASSUME NEW u \in Uv, IsOpen(u), uv[u].v.thread = L
      PROVE  /\ uv'[u] \in UpVal /\ uv'[u] # None /\ uv'[u].st = "open"
             /\ uv'[u].v.thread = L /\ uv'[u].v.block = b /\ uv'[u].v.level = Level(u)
  <2>1. uv'[u] = [uv[u] EXCEPT !.v.block = b]
    BY <1>1, <1>2, <1>4, <1>6
  <2>2. PICK p \in Pointer : uv[u] = [st |-> "open", v |-> p] /\ p = uv[u].v
    BY <1>6, Types DEF IInv
  <2>3. PICK q : q = [p EXCEPT !.block = b]
    OBVIOUS
  <2>4. q \in Pointer /\ q.thread = p.thread /\ q.block = b /\ q.level = p.level
    BY <2>3 DEF Pointer
  <2>5. uv'[u] = [st |-> "open", v |-> q]
    <3>1. PICK r : r = uv[u]
      OBVIOUS
    <3>2. uv'[u] = [r EXCEPT !.v = [r.v EXCEPT !.block = b]]
      BY <2>1, <3>1
    <3>3. r = [st |-> "open", v |-> p] /\ r.v = p
      BY <2>2, <3>1
    <3> QED BY <2>3, <3>2, <3>3
  <2>6. uv'[u] \in UpVal /\ uv'[u] # None /\ uv'[u].st = "open" /\ uv'[u].v = q
    BY <2>4, <2>5, UpValIntro
  <2> QED BY <1>6, <2>2, <2>4, <2>6 DEF Level
<1>7. ASSUME NEW u \in Uv
      PROVE  /\ uv'[u] \in UpVal /\ (uv'[u] = None <=> uv[u] = None)
             /\ IsOpen(u)' <=> IsOpen(u)
             /\ IsOpen(u) => uv'[u].v.thread = uv[u].v.thread /\ uv'[u].v.level = Level(u)
             /\ ~IsOpen(u) => uv'[u] = uv[u]
  <2>1. CASE IsOpen(u) /\ uv[u].v.thread = L
    BY <1>6, <2>1 DEF IsOpen
  <2>2. CASE ~(IsOpen(u) /\ uv[u].v.thread = L)
    <3>1. uv'[u] = uv[u] /\ uv[u] \in UpVal
      BY <1>5, <2>2 DEF IInv, TypeOK
    <3> QED BY <3>1 DEF IsOpen, Level
  <2> QED BY <2>1, <2>2
<1>8. TypeOK'
  <2>1. uv' \in [Uv -> UpVal]
    BY <1>1, <1>7
  <2> QED BY <1>1, <1>3, <2>1 DEF IInv, TypeOK
<1>9. OpenLists'
  <2>1. Listing'
    BY <1>1, <1>7 DEF IInv, OpenLists, Listing
  <2>2. Ordered'
    <3>1. ASSUME NEW M \in Thread, NEW j \in 1 .. Len(openupval[M]),
                 NEW k \in 1 .. Len(openupval[M]), j < k
          PROVE  uv'[openupval[M][j]].v.level > uv'[openupval[M][k]].v.level
      <4>1. /\ openupval[M][j] \in Uv /\ IsOpen(openupval[M][j])
            /\ openupval[M][k] \in Uv /\ IsOpen(openupval[M][k])
            /\ Level(openupval[M][j]) > Level(openupval[M][k])
        BY <3>1, Listed DEF IInv
      <4> QED BY <1>7, <4>1
    <3>2. \A M \in Thread : DOMAIN openupval[M] = 1 .. Len(openupval[M])
      BY Types DEF IInv
    <3> QED BY <1>1, <3>1, <3>2 DEF Ordered, Level
  <2>3. ASSUME NEW u \in Uv, IsOpen(u)
        PROVE  /\ uv'[u].v.thread \in alive /\ uv'[u].v.block = block'[uv'[u].v.thread]
               /\ uv'[u].v.level <= Len(stack[uv'[u].v.thread])
    <3>1. PICK M \in Thread : /\ M = uv[u].v.thread /\ M \in alive /\ uv[u].v.block = block[M]
                              /\ Level(u) \in 1 .. Len(stack[M])
      BY <2>3, OpenFacts
    <3>2. uv'[u].v.thread = M /\ uv'[u].v.level = Level(u) /\ Len(stack[M]) \in Nat
      BY <1>7, <2>3, <3>1, Types DEF IInv
    <3>3. uv'[u].v.block = block'[M]
      <4>1. CASE M = L
        BY <1>3, <1>6, <2>3, <3>1, <4>1
      <4>2. CASE M # L
        BY <1>3, <1>5, <2>3, <3>1, <4>2
      <4> QED BY <4>1, <4>2
    <3> QED BY <3>1, <3>2, <3>3
  <2>4. Pointing'
    BY <1>1, <1>7, <2>3 DEF Pointing, Valid
  <2> QED BY <2>1, <2>2, <2>4 DEF OpenLists, Ordered, Listing, Pointing
<1>10. Undead' = Undead /\ \A c \in Undead : upval[c] \in Uv
  BY <1>1 DEF Undead, IInv, TypeOK
<1>11. Kept'
  <2>1. \A u \in Uv : uv'[u] = None <=> uv[u] = None
    BY <1>7
  <2>2. \A c \in Undead : uv'[upval[c]] # None /\ upval[c] \notin dead
    BY <1>10, <2>1 DEF IInv, Kept
  <2>3. /\ held \cap Thread \subseteq alive /\ held \cap dead = {}
        /\ \A c \in Clo : c \in held \cup dead => upval[c] # None
        /\ \A u \in Uv : u \in dead => uv'[u] # None
    BY <2>1 DEF IInv, Kept
  <2> QED BY <1>1, <1>10, <2>2, <2>3 DEF Kept
<1>12. HistoryOK' /\ Scopes'
  BY <1>1 DEF IInv, HistoryOK, Scopes
<1>13. Captured'
  <2>1. \A c \in Undead : IsOpen(upval[c])' <=> IsOpen(upval[c])
    BY <1>1, <1>7, <1>10 DEF IsOpen
  <2>2. \A c \in Undead : IsOpen(upval[c]) =>
          cap[c][1] = scope[uv'[upval[c]].v.thread][uv'[upval[c]].v.level]
    BY <1>7, <1>10 DEF IInv, Captured
  <2>3. \A c \in Undead : ~IsOpen(upval[c]) =>
          /\ uv'[upval[c]].v = val[cap[c][1]]
          /\ \A M \in Thread : \A i \in 1 .. Len(stack[M]) : scope[M][i] # cap[c][1]
    BY <1>7, <1>10 DEF IInv, Captured
  <2>4. /\ \A c \in Undead : Len(cap[c]) = 1 /\ cap[c][1] \in 1 .. Len(val)
        /\ \A c, d \in Undead : upval[c] = upval[d] <=> cap[c][1] = cap[d][1]
    BY DEF IInv, Captured
  <2>5. \A c \in Undead' : IsOpen(upval[c])' =>
          cap'[c][1] = scope'[uv'[upval'[c]].v.thread][uv'[upval'[c]].v.level]
    BY <1>1, <1>10, <2>1, <2>2
  <2>6. \A c \in Undead' : ~IsOpen(upval[c])' =>
          /\ uv'[upval'[c]].v = val'[cap'[c][1]]
          /\ \A M \in Thread : \A i \in 1 .. Len(stack'[M]) : scope'[M][i] # cap'[c][1]
    BY <1>1, <1>10, <2>1, <2>3
  <2>7. /\ \A c \in Undead' : Len(cap'[c]) = 1 /\ cap'[c][1] \in 1 .. Len(val')
        /\ \A c, d \in Undead' : upval'[c] = upval'[d] <=> cap'[c][1] = cap'[d][1]
    BY <1>1, <1>10, <2>4
  <2> QED BY <2>5, <2>6, <2>7 DEF Captured, Level
<1> QED BY <1>8, <1>9, <1>11, <1>12, <1>13 DEF IInv

----------------------------------------------------------------------------
(* The collector.                                                          *)

\* A step of the collector: the closures that are not dead afterwards were not
\* before, and keep what they have; upvalues are only freed if dead.
Collects ==
    /\ TypeOK' /\ OpenLists' /\ Kept' /\ HistoryOK'
    /\ UNCHANGED <<stack, val, scope, held>>
    /\ \A c \in Clo : c \in Undead' => /\ c \in Undead /\ upval'[c] = upval[c] /\ cap'[c] = cap[c]
                                       /\ uv'[upval[c]] = uv[upval[c]]

LEMMA CollectsStep ==
    ASSUME IInv, Collects
    PROVE  IInv'
<1>1. \A c \in Undead' : /\ c \in Undead /\ upval'[c] = upval[c] /\ cap'[c] = cap[c]
                         /\ uv'[upval[c]] = uv[upval[c]]
  BY DEF Collects, Undead
<1>2. UNCHANGED <<stack, val, scope>>
  BY DEF Collects
<1>3. Scopes'
  BY <1>2 DEF IInv, Scopes
<1>4. Captured'
  <2>1. \A c \in Undead' : IsOpen(upval[c])' <=> IsOpen(upval[c])
    BY <1>1 DEF IsOpen
  <2>2. \A c \in Undead' : IsOpen(upval[c]) =>
          cap'[c][1] = scope[uv'[upval'[c]].v.thread][uv'[upval'[c]].v.level]
    BY <1>1 DEF IInv, Captured, Level
  <2>3. \A c \in Undead' : ~IsOpen(upval[c]) =>
          /\ uv'[upval'[c]].v = val[cap'[c][1]]
          /\ \A M \in Thread : \A i \in 1 .. Len(stack[M]) : scope[M][i] # cap'[c][1]
    BY <1>1 DEF IInv, Captured
  <2>4. /\ \A c \in Undead' : Len(cap'[c]) = 1 /\ cap'[c][1] \in 1 .. Len(val)
        /\ \A c, d \in Undead' : upval'[c] = upval'[d] <=> cap'[c][1] = cap'[d][1]
    BY <1>1 DEF IInv, Captured
  <2>5. \A c \in Undead' : IsOpen(upval[c])' =>
          cap'[c][1] = scope'[uv'[upval'[c]].v.thread][uv'[upval'[c]].v.level]
    BY <1>2, <2>1, <2>2
  <2>6. \A c \in Undead' : ~IsOpen(upval[c])' =>
          /\ uv'[upval'[c]].v = val'[cap'[c][1]]
          /\ \A M \in Thread : \A i \in 1 .. Len(stack'[M]) : scope'[M][i] # cap'[c][1]
    BY <1>2, <2>1, <2>3
  <2>7. /\ \A c \in Undead' : Len(cap'[c]) = 1 /\ cap'[c][1] \in 1 .. Len(val')
        /\ \A c, d \in Undead' : upval'[c] = upval'[d] <=> cap'[c][1] = cap'[d][1]
    BY <1>2, <2>4
  <2> QED BY <2>5, <2>6, <2>7 DEF Captured, Level
<1> QED BY <1>3, <1>4 DEF Collects, IInv

LEMMA AtomicStep ==
    ASSUME IInv, atomic
    PROVE  IInv'
<1>1. /\ dead = {}
      /\ dead' = {x \in alive \cup {c \in Clo : upval[c] # None} : x \notin held}
                   \cup {u \in Uv : uv[u] # None /\ \A c \in held \cap Clo : upval[c] # u}
      /\ unswept' = alive
      /\ UNCHANGED <<stack, block, uv, openupval, upval, held, alive, val, scope, cap>>
  BY DEF atomic
<1>2. TypeOK'
  <2>1. dead' \in SUBSET (Clo \cup Thread \cup Uv)
    BY <1>1 DEF IInv, TypeOK
  <2> QED BY <1>1, <2>1 DEF IInv, TypeOK
<1>3. OpenLists'
  BY <1>1 DEF IInv, OpenLists, IsOpen, Level, Valid
<1>4. \A c \in Clo : c \in Undead' => c \in held /\ upval[c] # None
  BY <1>1 DEF Undead
<1>5. Kept'
  <2>1. held \subseteq Clo \cup Thread /\ alive \subseteq Thread
    BY DEF IInv, TypeOK
  <2>2. held' \cap dead' = {}
    BY <1>1, <2>1, UpValAssumption
  <2>3. \A c \in Clo : c \in held' \cup dead' => upval'[c] # None
    BY <1>1, <2>1, UpValAssumption DEF IInv, Kept
  <2>4. \A u \in Uv : u \in dead' => uv'[u] # None
    BY <1>1, <2>1, UpValAssumption
  <2>5. \A c \in Undead' : uv'[upval'[c]] # None /\ upval'[c] \notin dead'
    <3>1. ASSUME NEW c \in Clo, c \in Undead'
          PROVE  uv'[upval'[c]] # None /\ upval'[c] \notin dead'
      <4>1. c \in held \cap Clo /\ upval'[c] = upval[c]
        BY <1>1, <1>4, <3>1
      <4>2. upval[c] \in Uv /\ uv[upval[c]] # None
        BY <4>1, HeldFacts
      <4>3. upval[c] \notin Clo /\ upval[c] \notin Thread
        BY <4>2, UpValAssumption
      <4> QED BY <1>1, <2>1, <4>1, <4>2, <4>3
    <3> QED BY <3>1 DEF Undead
  <2>6. held' \cap Thread \subseteq alive'
    BY <1>1 DEF IInv, Kept
  <2> QED BY <2>2, <2>3, <2>4, <2>5, <2>6 DEF Kept
<1>6. HistoryOK'
  BY <1>1 DEF IInv, HistoryOK
<1>7. \A c \in Clo : c \in Undead' => c \in Undead
  BY <1>1, <1>4 DEF Undead
<1>8. Collects
  BY <1>1, <1>2, <1>3, <1>5, <1>6, <1>7 DEF Collects
<1> QED BY <1>8, CollectsStep

LEMMA SweepThreadStep ==
    ASSUME IInv, NEW L \in Thread, SweepThread(L)
    PROVE  IInv'
<1>1. /\ L \notin dead
      /\ uv' = [u \in Uv |-> IF u \in ToSet(openupval[L]) \cap dead THEN None ELSE uv[u]]
      /\ openupval' = [openupval EXCEPT ![L] = Swept(L)]
      /\ dead' = dead \ ToSet(openupval[L]) /\ unswept' = unswept \ {L}
      /\ UNCHANGED <<stack, block, upval, held, alive, val, scope, cap>>
  BY DEF SweepThread
<1>2. /\ uv' \in [Uv -> UpVal] /\ openupval' \in [Thread -> BoundedSeq(Uv, MaxTop)]
      /\ \A u \in Uv : u \notin dead => uv'[u] = uv[u]
      /\ \A u \in Uv : uv'[u] = uv[u] \/ (uv'[u] = None /\ u \in ToSet(openupval[L]))
      /\ Ordered' /\ Listing'
  BY <1>1, SweepFacts DEF IInv
<1>3. TypeOK'
  BY <1>1, <1>2 DEF IInv, TypeOK
<1>4. OpenLists'
  <2>1. ASSUME NEW u \in Uv, IsOpen(u)'
        PROVE  /\ uv'[u].v.thread \in alive /\ uv'[u].v.block = block[uv'[u].v.thread]
               /\ uv'[u].v.level <= Len(stack[uv'[u].v.thread])
    <3>1. uv'[u] = uv[u] /\ IsOpen(u)
      BY <1>2, <2>1 DEF IsOpen
    <3> QED BY <3>1 DEF IInv, OpenLists, Valid
  <2>2. Pointing'
    BY <1>1, <2>1 DEF Pointing, Valid
  <2> QED BY <1>2, <2>2 DEF OpenLists, Ordered, Listing, Pointing
<1>5. ToSet(openupval[L]) \subseteq Uv
  BY DEF IInv, OpenLists
<1>6. \A c \in Clo : c \in Undead' <=> c \in Undead
  <2>1. \A c \in Clo : c \notin ToSet(openupval[L])
    BY <1>5, UpValAssumption
  <2> QED BY <1>1, <2>1 DEF Undead
<1>7. \A c \in Undead : upval[c] \in Uv /\ upval[c] \notin dead /\ uv[upval[c]] # None
  BY DEF Undead, IInv, Kept, TypeOK
<1>8. Kept'
  <2>1. /\ held' \cap Thread \subseteq alive' /\ held' \cap dead' = {}
        /\ \A c \in Clo : c \in held' \cup dead' => upval'[c] # None
    BY <1>1 DEF IInv, Kept
  <2>2. \A u \in Uv : u \in dead' => uv'[u] # None
    BY <1>1, <1>2 DEF IInv, Kept
  <2>3. \A c \in Undead' : uv'[upval'[c]] # None /\ upval'[c] \notin dead'
    <3>1. \A c \in Undead' : c \in Undead
      BY <1>6 DEF Undead
    <3> QED BY <1>1, <1>2, <1>7, <3>1
  <2> QED BY <2>1, <2>2, <2>3 DEF Kept
<1>9. HistoryOK'
  BY <1>1 DEF IInv, HistoryOK
<1>10. Collects
  BY <1>1, <1>2, <1>3, <1>4, <1>6, <1>7, <1>8, <1>9 DEF Collects
<1> QED BY <1>10, CollectsStep

LEMMA FreeThreadStep ==
    ASSUME IInv, NEW L \in Thread, FreeThread(L)
    PROVE  IInv'
<1>1. /\ L \in dead /\ luaF_close(L, 0, dead)
      /\ stack' = [stack EXCEPT ![L] = <<>>] /\ scope' = [scope EXCEPT ![L] = <<>>]
      /\ alive' = alive \ {L} /\ unswept' = unswept \ {L}
      /\ dead' = {x \in dead \ {L} : x \in Uv => uv'[x] # None}
      /\ UNCHANGED <<block, upval, held, val, cap>>
  BY DEF FreeThread
<1>2. 0 \in 0 .. Len(stack[L])
  BY Types DEF IInv
<1>3. ASSUME NEW S, NEW s \in Seq(S) PROVE SubSeq(s, 1, 0) = <<>>
  <2>1. 0 \in 0 .. Len(s)
    BY LenProperties
  <2>2. SubSeq(s, 1, 0) \in Seq(S) /\ Len(SubSeq(s, 1, 0)) = 0
    BY <2>1, SubSeqFacts
  <2> QED BY <2>2, EmptySeq
<1>4. stack[L] \in Seq(Data) /\ scope[L] \in Seq(Nat)
  BY Types, HistoryFacts DEF IInv
<1>5. /\ stack' = [stack EXCEPT ![L] = SubSeq(@, 1, 0)]
      /\ scope' = [scope EXCEPT ![L] = SubSeq(@, 1, 0)]
  BY <1>1, <1>3, <1>4
<1>6. \A c \in Clo : c \in dead => c \in dead'
  BY <1>1, UpValAssumption
<1>7. L \notin held
  BY <1>1 DEF IInv, Kept
<1>8. Ends(L, 0)
  BY <1>1, <1>5, <1>6, <1>7 DEF Ends
<1> QED BY <1>2, <1>8, EndsStep

LEMMA FreeClosureStep ==
    ASSUME IInv, NEW c \in Clo, FreeClosure(c)
    PROVE  IInv'
<1>1. /\ c \in dead /\ dead' = dead \ {c}
      /\ upval' = [upval EXCEPT ![c] = None] /\ cap' = [cap EXCEPT ![c] = <<>>]
      /\ UNCHANGED <<stack, block, uv, openupval, held, alive, unswept, val, scope>>
  BY DEF FreeClosure
<1>2. /\ upval' \in [Clo -> Uv \cup {None}] /\ upval'[c] = None
      /\ \A d \in Clo : d # c => upval'[d] = upval[d]
  BY <1>1, UpdateType DEF IInv, TypeOK
<1>3. /\ cap' \in [Clo -> Seq(Nat)]
      /\ \A d \in Clo : d # c => cap'[d] = cap[d]
  BY <1>1, UpdateType, EmptySeq DEF IInv, HistoryOK
<1>4. TypeOK'
  BY <1>1, <1>2 DEF IInv, TypeOK
<1>5. OpenLists'
  BY <1>1 DEF IInv, OpenLists, IsOpen, Level, Valid
<1>6. \A d \in Clo : d \in Undead' => d \in Undead /\ d # c
  BY <1>1, <1>2 DEF Undead
<1>7. Kept'
  <2>1. /\ held' \cap Thread \subseteq alive' /\ held' \cap dead' = {} /\ c \notin held'
    BY <1>1 DEF IInv, Kept
  <2>2. \A d \in Clo : d \in held' \cup dead' => upval'[d] # None
    BY <1>1, <1>2, <2>1 DEF IInv, Kept
  <2>3. \A u \in Uv : u \in dead' => uv'[u] # None
    BY <1>1 DEF IInv, Kept
  <2>4. ASSUME NEW d \in Clo, d \in Undead'
        PROVE  uv'[upval'[d]] # None /\ upval'[d] \notin dead'
    <3>1. d \in Undead /\ upval'[d] = upval[d]
      BY <1>2, <1>6, <2>4
    <3> QED BY <1>1, <3>1 DEF IInv, Kept
  <2>5. \A d \in Undead' : uv'[upval'[d]] # None /\ upval'[d] \notin dead'
    BY <2>4 DEF Undead
  <2> QED BY <2>1, <2>2, <2>3, <2>5 DEF Kept
<1>8. HistoryOK'
  BY <1>1, <1>3 DEF IInv, HistoryOK
<1>9. Collects
  BY <1>1, <1>2, <1>3, <1>4, <1>5, <1>6, <1>7, <1>8 DEF Collects
<1> QED BY <1>9, CollectsStep

LEMMA FreeUpvalStep ==
    ASSUME IInv, NEW u \in Uv, FreeUpval(u)
    PROVE  IInv'
<1>1. /\ u \in dead /\ ~IsOpen(u) /\ dead' = dead \ {u}
      /\ uv' = [uv EXCEPT ![u] = None]
      /\ UNCHANGED <<stack, block, openupval, upval, held, alive, unswept, val, scope, cap>>
  BY DEF FreeUpval
<1>2. /\ uv' \in [Uv -> UpVal] /\ uv'[u] = None
      /\ \A w \in Uv : w # u => uv'[w] = uv[w]
  BY <1>1, UpdateType, UpValIntro DEF IInv, TypeOK
<1>3. TypeOK'
  BY <1>1, <1>2 DEF IInv, TypeOK
<1>4. \A w \in Uv : (IsOpen(w)' <=> IsOpen(w)) /\ (IsOpen(w) => uv'[w] = uv[w])
  BY <1>1, <1>2 DEF IsOpen
<1>5. OpenLists'
  <2>1. Listing'
    BY <1>1, <1>4 DEF IInv, OpenLists, Listing
  <2>2. Ordered'
    <3>1. ASSUME NEW M \in Thread, NEW j \in 1 .. Len(openupval[M]),
                 NEW k \in 1 .. Len(openupval[M]), j < k
          PROVE  uv'[openupval[M][j]].v.level > uv'[openupval[M][k]].v.level
      <4>1. /\ openupval[M][j] \in Uv /\ IsOpen(openupval[M][j])
            /\ openupval[M][k] \in Uv /\ IsOpen(openupval[M][k])
            /\ Level(openupval[M][j]) > Level(openupval[M][k])
        BY <3>1, Listed DEF IInv
      <4> QED BY <1>4, <4>1 DEF Level
    <3>2. \A M \in Thread : DOMAIN openupval[M] = 1 .. Len(openupval[M])
      BY Types DEF IInv
    <3> QED BY <1>1, <3>1, <3>2 DEF Ordered, Level
  <2>3. ASSUME NEW w \in Uv, IsOpen(w)
        PROVE  /\ uv'[w].v.thread \in alive /\ uv'[w].v.block = block[uv'[w].v.thread]
               /\ uv'[w].v.level <= Len(stack[uv'[w].v.thread])
    BY <1>4, <2>3 DEF IInv, OpenLists, Valid
  <2>4. Pointing'
    BY <1>1, <1>4, <2>3 DEF Pointing, Valid
  <2> QED BY <2>1, <2>2, <2>4 DEF OpenLists, Ordered, Listing, Pointing
<1>6. \A c \in Clo : c \in Undead' <=> c \in Undead
  <2>1. \A c \in Clo : c # u
    BY UpValAssumption
  <2> QED BY <1>1, <2>1 DEF Undead
<1>7. \A c \in Undead : /\ upval[c] \in Uv /\ upval[c] \notin dead /\ uv[upval[c]] # None
                        /\ upval[c] # u
  BY <1>1 DEF Undead, IInv, Kept, TypeOK
<1>8. Kept'
  <2>1. /\ held' \cap Thread \subseteq alive' /\ held' \cap dead' = {}
        /\ \A c \in Clo : c \in held' \cup dead' => upval'[c] # None
    BY <1>1 DEF IInv, Kept
  <2>2. \A w \in Uv : w \in dead' => uv'[w] # None
    BY <1>1, <1>2 DEF IInv, Kept
  <2>3. \A c \in Undead' : uv'[upval'[c]] # None /\ upval'[c] \notin dead'
    <3>1. \A c \in Undead' : c \in Undead
      BY <1>6 DEF Undead
    <3> QED BY <1>1, <1>2, <1>7, <3>1
  <2> QED BY <2>1, <2>2, <2>3 DEF Kept
<1>9. HistoryOK'
  BY <1>1 DEF IInv, HistoryOK
<1>10. Collects
  BY <1>1, <1>2, <1>3, <1>5, <1>6, <1>7, <1>8, <1>9 DEF Collects
<1> QED BY <1>10, CollectsStep

----------------------------------------------------------------------------
LEMMA InitIInv == Init => IInv
<1> SUFFICES ASSUME Init PROVE IInv
  OBVIOUS
<1>1. /\ stack = [L \in Thread |-> <<>>] /\ block = [L \in Thread |-> 0]
      /\ uv = [u \in Uv |-> None] /\ openupval = [L \in Thread |-> <<>>]
      /\ upval = [c \in Clo |-> None] /\ held = Thread /\ alive = Thread
      /\ dead = {} /\ unswept = {} /\ val = <<>>
      /\ scope = [L \in Thread |-> <<>>] /\ cap = [c \in Clo |-> <<>>]
  BY DEF Init, Cells!Init
<1>2. \A S : <<>> \in Seq(S) /\ Len(<<>>) = 0
  BY EmptySeq
<1>3. MaxTop \in Nat /\ \A S : <<>> \in BoundedSeq(S, MaxTop)
  <2>1. MaxTop \in Nat
    BY UpValAssumption
  <2>2. ASSUME NEW S PROVE <<>> \in BoundedSeq(S, MaxTop)
    <3>1. PICK e \in Seq(S) : e = <<>> /\ Len(e) = 0
      BY <1>2
    <3>2. e \in SeqOf(S, MaxTop)
      <4>1. SeqOf(S, MaxTop) = {s \in Seq(S) : Len(s) <= MaxTop}
        BY <2>1, SeqOfIs
      <4>2. Len(e) <= MaxTop
        BY <2>1, <3>1
      <4> QED BY <3>1, <4>1, <4>2
    <3> QED BY <3>1, <3>2 DEF BoundedSeq
  <2> QED BY <2>1, <2>2
<1>4. TypeOK
  BY <1>1, <1>3, UpValIntro DEF TypeOK, Block
<1>5. \A u \in Uv : ~IsOpen(u)
  BY <1>1 DEF IsOpen
<1>6. OpenLists
  <2>1. \A L \in Thread : openupval[L] = <<>> /\ DOMAIN openupval[L] = {}
    BY <1>1
  <2>2. \A L \in Thread : ToSet(openupval[L]) = {}
    BY <2>1 DEF ToSet
  <2> QED BY <1>5, <2>1, <2>2 DEF OpenLists
<1>7. Undead = {}
  BY <1>1 DEF Undead
<1>8. Kept
  BY <1>1, <1>7, UpValAssumption DEF Kept
<1>9. HistoryOK
  BY <1>1, <1>2 DEF HistoryOK
<1>10. Scopes
  <2>1. \A L \in Thread : Len(stack[L]) = 0 /\ Len(scope[L]) = 0
    BY <1>1, <1>2
  <2> QED BY <2>1 DEF Scopes
<1>11. Captured
  BY <1>7 DEF Captured
<1> QED BY <1>4, <1>6, <1>8, <1>9, <1>10, <1>11 DEF IInv

LEMMA NextIInv == IInv /\ [Next]_vars => IInv'
<1> SUFFICES ASSUME IInv, [Next]_vars PROVE IInv'
  OBVIOUS
<1>1. CASE UNCHANGED vars
  BY <1>1, QuietStep
<1>2. ASSUME NEW L \in Thread, NEW v \in Data, Declare(L, v) PROVE IInv'
  BY <1>2, DeclareStep
<1>3. ASSUME NEW L \in Thread, NEW n \in 0 .. MaxTop, Leave(L, n) PROVE IInv'
  BY <1>3, LeaveStep
<1>4. ASSUME NEW L \in Thread, luaD_reallocstack(L) PROVE IInv'
  BY <1>4, ReallocStep
<1>5. ASSUME NEW L \in Thread, NEW i \in DOMAIN stack[L], GetLocal(L, i) PROVE IInv'
  BY <1>5, QuietStep DEF GetLocal
<1>6. ASSUME NEW L \in Thread, NEW i \in DOMAIN stack[L], NEW v \in Data, SetLocal(L, i, v)
      PROVE  IInv'
  BY <1>6, SetLocalStep
<1>7. ASSUME NEW L \in Thread, NEW i \in DOMAIN stack[L], NEW c \in Clo, NEW u \in Uv,
             ClosureOfLocal(L, c, i, u)
      PROVE  IInv'
  BY <1>7, ClosureOfLocalStep
<1>8. ASSUME NEW c \in Clo, GetUpval(c) PROVE IInv'
  BY <1>8, QuietStep DEF GetUpval
<1>9. ASSUME NEW c \in Clo, NEW v \in Data, SetUpval(c, v) PROVE IInv'
  BY <1>9, SetUpvalStep
<1>10. ASSUME NEW c \in Clo, NEW f \in Clo, ClosureOfUpvalue(f, c) PROVE IInv'
  BY <1>10, ClosureOfUpvalueStep
<1>11. ASSUME NEW x \in held \ {Main}, Forget(x) PROVE IInv'
  BY <1>11, QuietStep DEF Forget
<1>12. CASE Program
  BY <1>2, <1>3, <1>4, <1>5, <1>6, <1>7, <1>8, <1>9, <1>10, <1>11, <1>12 DEF Program
<1>13. CASE Collector
  <2>1. CASE atomic
    BY <2>1, AtomicStep
  <2>2. ASSUME NEW L \in Thread, SweepThread(L) \/ FreeThread(L) PROVE IInv'
    BY <2>2, SweepThreadStep, FreeThreadStep
  <2>3. ASSUME NEW c \in Clo, FreeClosure(c) PROVE IInv'
    BY <2>3, FreeClosureStep
  <2>4. ASSUME NEW u \in Uv, FreeUpval(u) PROVE IInv'
    BY <2>4, FreeUpvalStep
  <2> QED BY <1>13, <2>1, <2>2, <2>3, <2>4 DEF Collector
<1> QED BY <1>1, <1>12, <1>13 DEF Next

THEOREM IInvThm == Spec => []IInv
BY InitIInv, NextIInv, PTL DEF Spec

\* Stacks, upvalues and closures keep their types: among others, the list of
\* a thread is never longer than its stack may be.
THEOREM TypeCorrect == Spec => []TypeOK
<1>1. IInv => TypeOK
  BY DEF IInv
<1> QED BY <1>1, IInvThm, PTL

\* luaF_findupval, luaF_close, the sweep and a moving stack keep every list in
\* the order of its stack, one upvalue for a slot, with no stale pointer.
THEOREM OpenListsThm == Spec => []OpenLists
<1>1. IInv => OpenLists
  BY DEF IInv
<1> QED BY <1>1, IInvThm, PTL

\* No closure the program holds loses its upvalue to the collector: the one
\* that luaF_findupval brings back from the dead is in time.
THEOREM UpvalsLiveThm == Spec => []UpvalsLive
<1>1. IInv => UpvalsLive
  BY HeldFacts DEF UpvalsLive
<1> QED BY <1>1, IInvThm, PTL

----------------------------------------------------------------------------
(* UpVals implements module Variables.                                     *)

LEMMA DerefIs ==
    ASSUME IInv, NEW c \in Clo, c \in held
    PROVE  Deref(upval[c]) = val[cap[c][1]] /\ 1 \in DOMAIN cap[c]
<1>1. PICK u \in Uv : u = upval[c] /\ uv[u] # None /\ c \in Undead /\ Len(cap[c]) = 1
  BY HeldFacts
<1>2. 1 \in DOMAIN cap[c]
  <2>1. cap[c] \in Seq(Nat)
    BY DEF IInv, HistoryOK
  <2> QED BY <1>1, <2>1, LenProperties
<1>3. CASE IsOpen(u)
  <2>1. PICK L \in Thread, i \in Nat : /\ L = uv[u].v.thread /\ i = Level(u)
                                       /\ i \in 1 .. Len(stack[L])
    BY <1>3, OpenFacts
  <2>2. cap[c][1] = scope[L][i]
    BY <1>1, <1>3, <2>1 DEF IInv, Captured
  <2>3. stack[L][i] = val[cap[c][1]]
    BY <2>1, <2>2 DEF IInv, Scopes
  <2>4. Valid(uv[u].v)
    BY <1>3 DEF IInv, OpenLists
  <2>5. Deref(u) = stack[L][i]
    BY <1>1, <1>3, <2>1, <2>4 DEF Deref, Level, IsOpen
  <2> QED BY <1>1, <1>2, <2>3, <2>5
<1>4. CASE ~IsOpen(u)
  <2>1. uv[u].st = "closed"
    BY <1>1, <1>4, Types DEF IInv
  <2>2. Deref(u) = uv[u].v
    BY <1>1, <2>1 DEF Deref
  <2>3. uv[u].v = val[cap[c][1]]
    BY <1>1, <1>4 DEF IInv, Captured
  <2> QED BY <1>1, <1>2, <2>2, <2>3
<1> QED BY <1>3, <1>4

LEMMA NewCap ==
    ASSUME IInv, NEW c \in Clo, NEW n \in Nat, NEW u, NewClosure(c, u, n)
    PROVE  /\ cap' = [cap EXCEPT ![c] = cap'[c]] /\ DOMAIN cap'[c] = {1} /\ cap'[c][1] = n
           /\ UNCHANGED <<val, scope, out>>
<1>1. cap \in [Clo -> Seq(Nat)] /\ cap' = [cap EXCEPT ![c] = <<n>>]
  BY DEF IInv, HistoryOK, NewClosure
<1>2. cap'[c] = <<n>>
  BY <1>1
<1>3. DOMAIN <<n>> = {1} /\ <<n>>[1] = n
  <2>1. PICK q \in Seq(Nat) : q = <<n>> /\ Len(q) = 1 /\ q[1] = n
    <3>1. <<n>> \in Seq(Nat) /\ Len(<<n>>) = 1 /\ <<n>>[1] = n
      OBVIOUS
    <3> QED BY <3>1, Zenon
  <2>2. DOMAIN q = 1 .. 1
    BY <2>1, LenProperties
  <2> QED BY <2>1, <2>2
<1> QED BY <1>1, <1>2, <1>3 DEF NewClosure

LEMMA StepImplements == IInv /\ [Next]_vars => [Cells!Next]_(Cells!vars)
<1> SUFFICES ASSUME IInv, [Next]_vars PROVE Cells!Next \/ UNCHANGED Cells!vars
  OBVIOUS
<1>1. CASE UNCHANGED vars
  BY <1>1 DEF Cells!vars
<1>2. \A L \in Thread : Len(scope[L]) = Len(stack[L]) /\ DOMAIN stack[L] = 1 .. Len(stack[L])
                        /\ DOMAIN scope[L] = 1 .. Len(scope[L]) /\ Len(scope[L]) \in Nat
  <2>1. \A L \in Thread : scope[L] \in Seq(Nat)
    BY HistoryFacts DEF IInv
  <2> QED BY <2>1, Types, LenProperties DEF IInv, Scopes
<1>3. ASSUME NEW L \in Thread, NEW v \in Data, Declare(L, v) PROVE Cells!Next
  BY <1>3 DEF Declare, Cells!Next
<1>4. ASSUME NEW L \in Thread, NEW n \in 0 .. MaxTop, Leave(L, n) PROVE Cells!Next
  <2>1. n \in 0 .. Len(scope[L]) /\ Cells!Leave(L, n)
    BY <1>2, <1>4 DEF Leave
  <2> QED BY <2>1 DEF Cells!Next
<1>5. ASSUME NEW L \in Thread, luaD_reallocstack(L) PROVE UNCHANGED Cells!vars
  BY <1>5 DEF luaD_reallocstack, Cells!vars
<1>6. ASSUME NEW L \in Thread, NEW i \in DOMAIN stack[L], GetLocal(L, i) PROVE Cells!Next
  <2>1. i \in DOMAIN scope[L] /\ stack[L][i] = val[scope[L][i]]
    BY <1>2 DEF IInv, Scopes
  <2>2. Cells!Read(L, i, scope[L][i])
    BY <1>6, <2>1 DEF GetLocal, Cells!Read
  <2> QED BY <2>1, <2>2 DEF Cells!Next
<1>7. ASSUME NEW L \in Thread, NEW i \in DOMAIN stack[L], NEW v \in Data, SetLocal(L, i, v)
      PROVE  Cells!Next
  <2>1. i \in DOMAIN scope[L] /\ Cells!Assign(scope[L][i], v)
    BY <1>2, <1>7 DEF SetLocal
  <2> QED BY <2>1 DEF Cells!Next
<1>8. ASSUME NEW L \in Thread, NEW i \in DOMAIN stack[L], NEW c \in Clo, NEW u \in Uv,
             ClosureOfLocal(L, c, i, u)
      PROVE  Cells!Next
  <2>1. i \in DOMAIN scope[L] /\ scope[L][i] \in Nat /\ NewClosure(c, u, scope[L][i])
    BY <1>2, <1>8, HistoryFacts DEF IInv, ClosureOfLocal
  <2>2. /\ cap' = [cap EXCEPT ![c] = cap'[c]]
        /\ \A j \in DOMAIN cap'[c] : \E k \in DOMAIN scope[L] : cap'[c][j] = scope[L][k]
        /\ UNCHANGED <<val, scope, out>>
    BY <2>1, NewCap
  <2>3. Cells!Capture(L, c)
    BY <2>2 DEF Cells!Capture
  <2> QED BY <2>3 DEF Cells!Next
<1>9. ASSUME NEW c \in Clo, GetUpval(c) PROVE Cells!Next
  <2>1. Deref(upval[c]) = val[cap[c][1]] /\ 1 \in DOMAIN cap[c]
    BY <1>9, DerefIs DEF GetUpval
  <2>2. Cells!Read(c, 1, cap[c][1])
    BY <1>9, <2>1 DEF GetUpval, Cells!Read
  <2> QED BY <2>1, <2>2 DEF Cells!Next
<1>10. ASSUME NEW c \in Clo, NEW v \in Data, SetUpval(c, v) PROVE Cells!Next
  <2>1. 1 \in DOMAIN cap[c] /\ Cells!Assign(cap[c][1], v)
    BY <1>10, DerefIs DEF SetUpval
  <2> QED BY <2>1 DEF Cells!Next
<1>11. ASSUME NEW c \in Clo, NEW f \in Clo, ClosureOfUpvalue(f, c) PROVE Cells!Next
  <2>1. 1 \in DOMAIN cap[f] /\ cap[f][1] \in Nat /\ NewClosure(c, upval[f], cap[f][1])
    <3>1. f \in held /\ NewClosure(c, upval[f], cap[f][1])
      BY <1>11 DEF ClosureOfUpvalue
    <3>2. cap[f][1] \in 1 .. Len(val) /\ Len(val) \in Nat
      BY <3>1, HeldFacts, HistoryFacts DEF IInv
    <3> QED BY <3>1, <3>2, DerefIs
  <2>2. /\ cap' = [cap EXCEPT ![c] = cap'[c]] /\ UNCHANGED <<val, scope, out>>
        /\ \A j \in DOMAIN cap'[c] :
              \E d \in Clo : \E k \in DOMAIN cap[d] : cap'[c][j] = cap[d][k]
    BY <2>1, NewCap
  <2>3. Cells!Capture(Main, c)
    BY <2>2 DEF Cells!Capture
  <2>4. Main \in Thread
    BY UpValAssumption
  <2> QED BY <2>3, <2>4 DEF Cells!Next
<1>12. ASSUME NEW x \in held \ {Main}, Forget(x) PROVE UNCHANGED Cells!vars
  BY <1>12 DEF Forget, Cells!vars
<1>13. CASE Program
  BY <1>3, <1>4, <1>5, <1>6, <1>7, <1>8, <1>9, <1>10, <1>11, <1>12, <1>13 DEF Program
<1>14. CASE atomic
  BY <1>14 DEF atomic, Cells!vars
<1>15. ASSUME NEW L \in Thread, SweepThread(L) PROVE UNCHANGED Cells!vars
  BY <1>15 DEF SweepThread, Cells!vars
<1>16. ASSUME NEW L \in Thread, FreeThread(L) PROVE Cells!Next
  <2>1. scope' = [scope EXCEPT ![L] = <<>>] /\ UNCHANGED <<val, cap, out>>
    BY <1>16 DEF FreeThread
  <2>2. SubSeq(scope[L], 1, 0) = <<>>
    <3>1. scope[L] \in Seq(Nat) /\ 0 \in 0 .. Len(scope[L])
      BY <1>2, HistoryFacts DEF IInv
    <3>2. SubSeq(scope[L], 1, 0) \in Seq(Nat) /\ Len(SubSeq(scope[L], 1, 0)) = 0
      BY <3>1, SubSeqFacts
    <3> QED BY <3>2, EmptySeq
  <2>3. Cells!Leave(L, 0)
    BY <2>1, <2>2 DEF Cells!Leave
  <2>4. 0 \in 0 .. Len(scope[L])
    BY <1>2
  <2> QED BY <2>3, <2>4 DEF Cells!Next
<1>17. ASSUME NEW c \in Clo, FreeClosure(c) PROVE Cells!Next
  <2>1. cap \in [Clo -> Seq(Nat)] /\ cap' = [cap EXCEPT ![c] = <<>>] /\ UNCHANGED <<val, scope, out>>
    BY <1>17 DEF FreeClosure, IInv, HistoryOK
  <2>2. cap'[c] = <<>> /\ cap' = [cap EXCEPT ![c] = cap'[c]]
    BY <2>1
  <2>3. DOMAIN <<>> = {}
    OBVIOUS
  <2>4. Cells!Capture(Main, c)
    BY <2>1, <2>2, <2>3 DEF Cells!Capture
  <2>5. Main \in Thread
    BY UpValAssumption
  <2> QED BY <2>4, <2>5 DEF Cells!Next
<1>18. ASSUME NEW u \in Uv, FreeUpval(u) PROVE UNCHANGED Cells!vars
  BY <1>18 DEF FreeUpval, Cells!vars
<1>19. CASE Collector
  BY <1>14, <1>15, <1>16, <1>17, <1>18, <1>19 DEF Collector
<1> QED BY <1>1, <1>13, <1>19 DEF Next

\* Closures read what lexical scoping says, as module Variables states it:
\* through moving stacks, ended blocks, freed coroutines and every order of
\* the sweep.
THEOREM LexicalScopingThm == Spec => LexicalScoping
<1>1. Init => Cells!Init
  BY DEF Init
<1> QED BY <1>1, IInvThm, StepImplements, PTL DEF Spec, LexicalScoping, Cells!Spec
=============================================================================
