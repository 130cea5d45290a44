---------------------------- MODULE Table_proofs ----------------------------
(***************************************************************************)
(* Proofs about Table.                                                     *)
(***************************************************************************)
EXTENDS Table, NatLemmas, FiniteSetTheorems, SequenceTheorems, TLAPS

\* The lists that next makes: without a cycle, in one list each, and of nodes
\* that have had a key.
Linked(T) ==
    /\ \A i \in DOMAIN T.node : T.node[i].next \in DOMAIN T.node \cup {0}
    /\ \A i \in DOMAIN T.node : T.node[i].next # 0 => T.node[T.node[i].next].key # nil
    /\ \A i \in DOMAIN T.node : T.node[i].key = nil => T.node[i] = Virgin
    /\ \A i, j \in DOMAIN T.node : T.node[i].next = T.node[j].next => i = j \/ T.node[i].next = 0
    /\ \A S \in SUBSET DOMAIN T.node : S # {} => \E a \in S : T.node[a].next \notin S

\* If a key has the main position m, dead as it may be, so has the key of node
\* m, and the main chain leads from there to the node of the key: a key that
\* is out of its main position is no head of a chain, and can be moved.
Homes(T) ==
    \A i \in DOMAIN T.node : T.node[i].key # nil =>
        LET m == mainposition(T, T.node[i].key) IN
        /\ T.node[m].key # nil
        /\ mainposition(T, T.node[m].key) = m
        /\ Reaches(T, m, i)

\* A key is live in one node, which comes before those where it is dead; it
\* is in no node if the array part has a place for it.
Keys(T) ==
    /\ \A i \in DOMAIN T.node :
          /\ T.node[i].val # nil => T.node[i].key # nil /\ ~T.node[i].dead
          /\ T.node[i].dead => T.node[i].key \in collectable
          /\ ~InArray(T, T.node[i].key)
    /\ \A i, j \in DOMAIN T.node :
          T.node[i].key = T.node[j].key /\ T.node[i].key # nil /\ ~T.node[i].dead =>
              /\ ~T.node[j].dead => i = j
              /\ Reaches(T, i, j)

\* The nodes without a key are below lastfree, and the array part has values
\* only for indices.
Room(T) ==
    /\ T.lastfree \in 1 .. Len(T.node) + 1
    /\ \A i \in DOMAIN T.node : T.lastfree <= i => T.node[i].key # nil
    /\ \A j \in DOMAIN T.array : j \notin Index => T.array[j] = nil

TableType == [array : Seq(Val \cup {nil}), node : Seq(Node), lastfree : Nat, nested : BOOLEAN]

WellFormed(T) == T \in TableType /\ Linked(T) /\ Homes(T) /\ Keys(T) /\ Room(T)

\* What a traversal gave is behind it, and what stayed is behind it only if
\* it was given.
Traversing(T, k, V, S) ==
    LET p == findindex(T, k) IN
    /\ p \in Nat
    /\ \A q \in V : findindex(T, q) \in 1 .. p
    /\ \A q \in S : luaH_get(T, q) # nil /\ (findindex(T, q) <= p => q \in V)

\* The table T, and a traversal, or none, that is at key k, gave the keys V
\* and had the keys S all the time.
Consistent(T, k, V, S) ==
    /\ WellFormed(T) /\ ~T.nested
    /\ k \in Key \cup {nil, None} /\ V \subseteq Key /\ S \subseteq Key
    /\ k # None => Traversing(T, k, V, S)
    /\ k = None => V = {} /\ S = {}

IInv == Consistent(t, iter, visited, stay)

----------------------------------------------------------------------------
(* Numbers.                                                                *)

LEMMA Mod ==
    ASSUME NEW a \in Nat, NEW b \in Nat \ {0}
    PROVE  a % b \in 0 .. b - 1
OBVIOUS

(* The powers of two are the numbers of subsets.                           *)
LEMMA TwoTo ==
    /\ 2 ^ 0 = 1
    /\ \A e \in Nat : 2 ^ e \in Nat /\ 2 ^ e = Cardinality(SUBSET (1 .. e))
<1>1. \A e \in Nat : IsFiniteSet(1 .. e) /\ Cardinality(1 .. e) = e
    BY FS_Interval
<1>2. \A e \in Nat : IsFiniteSet(SUBSET (1 .. e)) /\ 2 ^ e = Cardinality(SUBSET (1 .. e))
    BY <1>1, FS_SUBSET
<1>3. Cardinality(SUBSET (1 .. 0)) = 1
  <2>1. SUBSET (1 .. 0) = {{}}
      OBVIOUS
  <2>. QED
      BY <2>1, FS_Singleton
<1>. QED
    BY <1>2, <1>3, FS_CardinalityType

LEMMA TwoToNext ==
    ASSUME NEW e \in Nat
    PROVE  2 ^ (e + 1) = 2 * 2 ^ e
<1> DEFINE A == SUBSET (1 .. e)
           B == {S \cup {e + 1} : S \in A}
           f == [S \in A |-> S \cup {e + 1}]
<1>1. IsFiniteSet(A) /\ Cardinality(A) = 2 ^ e /\ 2 ^ e \in Nat
  <2>1. IsFiniteSet(1 .. e)
      BY FS_Interval
  <2>2. IsFiniteSet(A)
      BY <2>1, FS_SUBSET
  <2>. QED
      BY <2>2, TwoTo
<1>2. f \in Bijection(A, B)
  <2>1. f \in [A -> B]
      OBVIOUS
  <2>2. ASSUME NEW S \in A, NEW T \in A, f[S] = f[T] PROVE S = T
    <3>1. S = (S \cup {e + 1}) \ {e + 1} /\ T = (T \cup {e + 1}) \ {e + 1}
        OBVIOUS
    <3>. QED
        BY <2>2, <3>1
  <2>3. \A b \in B : \E a \in A : f[a] = b
      OBVIOUS
  <2>. HIDE DEF f, A, B
  <2>. QED
      BY <2>1, <2>2, <2>3 DEF Bijection, Injection, Surjection, IsInjective
<1>3. IsFiniteSet(B) /\ Cardinality(B) = 2 ^ e
  <2>. HIDE DEF A, B, f
  <2>. QED
      BY <1>1, <1>2, FS_Bijection DEF ExistsBijection
<1>4. A \cap B = {}
    OBVIOUS
<1>5. SUBSET (1 .. e + 1) = A \cup B
  <2>1. ASSUME NEW S \in SUBSET (1 .. e + 1) PROVE S \in A \cup B
    <3>1. CASE e + 1 \in S
      <4>1. S \ {e + 1} \in A /\ S = (S \ {e + 1}) \cup {e + 1}
          BY <3>1
      <4>. QED
          BY <4>1
    <3>2. CASE e + 1 \notin S
      <4>1. S \in A
          BY <3>2
      <4>. QED
          BY <4>1
    <3>. QED
        BY <3>1, <3>2
  <2>2. A \cup B \subseteq SUBSET (1 .. e + 1)
    <3>1. 1 .. e \subseteq 1 .. e + 1 /\ e + 1 \in 1 .. e + 1
        OBVIOUS
    <3>2. ASSUME NEW S \in A PROVE S \cup {e + 1} \in SUBSET (1 .. e + 1)
        BY <3>1
    <3>3. A \subseteq SUBSET (1 .. e + 1)
        BY <3>1
    <3>4. B \subseteq SUBSET (1 .. e + 1)
        BY <3>2
    <3>. QED
        BY <3>3, <3>4
  <2>. QED
      BY <2>1, <2>2
<1>6. Cardinality(A \cup B) = 2 ^ e + 2 ^ e
  <2>. HIDE DEF A, B
  <2>. QED
      BY <1>1, <1>3, <1>4, FS_Union, FS_EmptySet
<1>7. Cardinality(SUBSET (1 .. e + 1)) = 2 * 2 ^ e
  <2>1. Cardinality(SUBSET (1 .. e + 1)) = Cardinality(A \cup B)
      BY <1>5
  <2>2. 2 ^ e \in Nat
      BY <1>1
  <2>. HIDE DEF A, B
  <2>. QED
      BY <2>1, <2>2, <1>6
<1>8. e + 1 \in Nat
    OBVIOUS
<1>. QED
  <2>. HIDE DEF A, B
  <2>. QED
      BY <1>7, <1>8, TwoTo

\* They grow, and faster than their exponents.
LEMMA TwoToGrows ==
    /\ \A e \in Nat : e < 2 ^ e
    /\ \A d, e \in Nat : d < e => 2 * 2 ^ d <= 2 ^ e
<1>1. \A e \in Nat : e < 2 ^ e
  <2> DEFINE S == {e \in Nat : e < 2 ^ e}
  <2>1. 0 \in S
      BY TwoTo
  <2>2. ASSUME NEW e \in Nat, e \in S PROVE e + 1 \in S
      BY <2>2, TwoTo, TwoToNext
  <2>3. \A e \in Nat : e \in S
    <3>. HIDE DEF S
    <3>. QED
        BY <2>1, <2>2, SetInduction
  <2>. QED
      BY <2>3
<1>2. ASSUME NEW d \in Nat PROVE \A e \in Nat : d < e => 2 * 2 ^ d <= 2 ^ e
  <2> DEFINE S == {e \in Nat : d < e => 2 * 2 ^ d <= 2 ^ e}
  <2>1. 0 \in S
      OBVIOUS
  <2>2. ASSUME NEW e \in Nat, e \in S PROVE e + 1 \in S
    <3>1. 2 ^ (e + 1) = 2 * 2 ^ e /\ 2 ^ e \in Nat /\ 2 ^ d \in Nat
        BY TwoTo, TwoToNext
    <3>. QED
        BY <2>2, <3>1
  <2>3. \A e \in Nat : e \in S
    <3>. HIDE DEF S
    <3>. QED
        BY <2>1, <2>2, SetInduction
  <2>. QED
      BY <2>3
<1>. QED
    BY <1>1, <1>2

----------------------------------------------------------------------------
(* Following the chains.                                                   *)

\* No step leads out of S.
Closed(T, S) == \A a \in S : T.node[a].next \in S \cup {0}

LEMMA ReachesIs ==
    ASSUME NEW T, NEW i \in DOMAIN T.node, NEW j \in DOMAIN T.node
    PROVE  Reaches(T, i, j) <=>
             \A S \in SUBSET DOMAIN T.node : Closed(T, S) /\ i \in S => j \in S
<1>1. ASSUME Reaches(T, i, j), NEW S \in SUBSET DOMAIN T.node, Closed(T, S), i \in S, j \notin S
      PROVE  FALSE
  <2>1. S \in SUBSET (DOMAIN T.node \ {j}) /\ i # j
      BY <1>1
  <2>. QED
      BY <1>1, <2>1 DEF Reaches, Closed
<1>2. ASSUME \A S \in SUBSET DOMAIN T.node : Closed(T, S) /\ i \in S => j \in S,
             i # j, NEW S \in SUBSET (DOMAIN T.node \ {j}), i \in S,
             \A a \in S : T.node[a].next \in S \cup {0}
      PROVE  FALSE
  <2>1. S \in SUBSET DOMAIN T.node /\ Closed(T, S) /\ j \notin S
      BY <1>2 DEF Closed
  <2>. QED
      BY <1>2, <2>1
<1>. QED
    BY <1>1, <1>2 DEF Reaches

LEMMA ReachesTransitive ==
    ASSUME NEW T, NEW i \in DOMAIN T.node, NEW j \in DOMAIN T.node, NEW k \in DOMAIN T.node,
           Reaches(T, i, j), Reaches(T, j, k)
    PROVE  Reaches(T, i, k)
<1>1. \A S \in SUBSET DOMAIN T.node : Closed(T, S) /\ i \in S => j \in S
    BY ReachesIs
<1>2. \A S \in SUBSET DOMAIN T.node : Closed(T, S) /\ j \in S => k \in S
    BY ReachesIs
<1>3. \A S \in SUBSET DOMAIN T.node : Closed(T, S) /\ i \in S => k \in S
    BY <1>1, <1>2
<1>. QED
    BY <1>3, ReachesIs

LEMMA ReachesNext ==
    ASSUME NEW T, 0 \notin DOMAIN T.node, NEW i \in DOMAIN T.node, T.node[i].next \in DOMAIN T.node
    PROVE  Reaches(T, i, T.node[i].next)
<1>1. ASSUME NEW S \in SUBSET DOMAIN T.node, Closed(T, S), i \in S PROVE T.node[i].next \in S
    BY <1>1 DEF Closed
<1>. QED
    BY <1>1, ReachesIs

LEMMA ReachesStep ==
    ASSUME NEW T, 0 \notin DOMAIN T.node, \A a \in DOMAIN T.node : T.node[a].next \in DOMAIN T.node \cup {0},
           NEW i \in DOMAIN T.node, NEW j \in DOMAIN T.node, i # j, Reaches(T, i, j)
    PROVE  T.node[i].next \in DOMAIN T.node /\ Reaches(T, T.node[i].next, j)
<1>1. \A S \in SUBSET DOMAIN T.node : Closed(T, S) /\ i \in S => j \in S
    BY ReachesIs
<1>2. T.node[i].next \in DOMAIN T.node
  <2>1. SUFFICES ASSUME T.node[i].next = 0 PROVE FALSE
      OBVIOUS
  <2>2. Closed(T, {i})
      BY <2>1 DEF Closed
  <2>. QED
      BY <1>1, <2>2
<1>3. ASSUME NEW S \in SUBSET DOMAIN T.node, Closed(T, S), T.node[i].next \in S PROVE j \in S
  <2>1. Closed(T, S \cup {i})
      BY <1>3 DEF Closed
  <2>. QED
      BY <1>1, <1>3, <2>1
<1>. QED
    BY <1>2, <1>3, ReachesIs

LEMMA Predecessor ==
    ASSUME NEW T, 0 \notin DOMAIN T.node, \A a \in DOMAIN T.node : T.node[a].next \in DOMAIN T.node \cup {0},
           NEW m \in DOMAIN T.node, NEW i \in DOMAIN T.node, m # i, Reaches(T, m, i)
    PROVE  \E p \in DOMAIN T.node : Reaches(T, m, p) /\ T.node[p].next = i
<1> DEFINE S == {x \in DOMAIN T.node : Reaches(T, m, x)} \ {i}
<1>1. m \in S
    BY DEF Reaches
<1>2. ~Closed(T, S)
    BY <1>1, ReachesIs
<1>3. PICK p \in S : T.node[p].next \notin S \cup {0}
    BY <1>2 DEF Closed
<1>4. T.node[p].next \in DOMAIN T.node
    BY <1>3
<1>5. Reaches(T, m, T.node[p].next)
    BY <1>4, ReachesNext, ReachesTransitive
<1>. QED
    BY <1>3, <1>4, <1>5

LEMMA ReachesAntisymmetric ==
    ASSUME NEW T, 0 \notin DOMAIN T.node, Linked(T),
           NEW i \in DOMAIN T.node, NEW j \in DOMAIN T.node, Reaches(T, i, j), Reaches(T, j, i)
    PROVE  i = j
<1> SUFFICES ASSUME i # j PROVE FALSE
    OBVIOUS
<1>0. \A a \in DOMAIN T.node : T.node[a].next \in DOMAIN T.node \cup {0}
    BY DEF Linked
<1> DEFINE S == {x \in DOMAIN T.node : Reaches(T, i, x) /\ Reaches(T, x, i)}
<1>1. i \in S
    BY DEF Reaches
<1>2. ASSUME NEW x \in S PROVE T.node[x].next \in S
  <2>1. T.node[x].next \in DOMAIN T.node /\ Reaches(T, T.node[x].next, i)
    <3>1. CASE x # i
        BY <1>0, <3>1, ReachesStep
    <3>2. CASE x = i
      <4>1. T.node[i].next \in DOMAIN T.node /\ Reaches(T, T.node[i].next, j)
          BY <1>0, ReachesStep
      <4>. QED
          BY <3>2, <4>1, ReachesTransitive
    <3>. QED
        BY <3>1, <3>2
  <2>2. Reaches(T, i, T.node[x].next)
      BY <2>1, ReachesNext, ReachesTransitive
  <2>. QED
      BY <2>1, <2>2
<1>3. S \in SUBSET DOMAIN T.node /\ S # {}
    BY <1>1
<1>4. PICK a \in S : T.node[a].next \notin S
  <2>. HIDE DEF S
  <2>. QED
      BY <1>3 DEF Linked
<1>. QED
    BY <1>2, <1>4

----------------------------------------------------------------------------
(* Finding keys in a well-formed table.                                    *)

LEMMA TableFacts ==
    ASSUME NEW T \in TableType
    PROVE  /\ Len(T.node) \in Nat /\ DOMAIN T.node = 1 .. Len(T.node) /\ 0 \notin DOMAIN T.node
           /\ Len(T.array) \in Nat /\ DOMAIN T.array = 1 .. Len(T.array)
           /\ \A i \in DOMAIN T.node : T.node[i] \in Node
           /\ \A j \in DOMAIN T.array : T.array[j] \in Val \cup {nil}
           /\ (T.node = <<>>) <=> (Len(T.node) = 0)
<1>1. T.node \in Seq(Node) /\ T.array \in Seq(Val \cup {nil})
    BY DEF TableType
<1>2. \A i \in 1 .. Len(T.node) : T.node[i] \in Node
    BY <1>1
<1>3. \A j \in 1 .. Len(T.array) : T.array[j] \in Val \cup {nil}
    BY <1>1
<1>4. DOMAIN T.node = 1 .. Len(T.node) /\ DOMAIN T.array = 1 .. Len(T.array)
    BY <1>1
<1>5. Len(T.node) \in Nat /\ Len(T.array) \in Nat
    BY <1>1
<1>6. (T.node = <<>>) <=> (Len(T.node) = 0)
    BY <1>1, EmptySeq
<1>. QED
    BY <1>2, <1>3, <1>4, <1>5, <1>6

LEMMA KeyFacts ==
    /\ nil \notin Key /\ None \notin Key /\ nil # None /\ nil \notin Val /\ None \notin Val
    /\ Index \subseteq Nat \ {0}
    /\ \A k \in Key : Hash[k] \in Nat
    /\ collectable \subseteq Key /\ collectable \cap Index = {}
<1>1. Cardinality(Index) \in Nat
    BY TableAssumption, FS_CardinalityType
<1>2. 1 .. Cardinality(Index) \subseteq Nat \ {0}
    BY <1>1
<1>3. Index \subseteq Nat \ {0}
    BY <1>2, TableAssumption
<1>. QED
    BY <1>3, TableAssumption DEF Key, collectable

LEMMA MainPositionType ==
    ASSUME NEW T \in TableType, T.node # <<>>, NEW k \in Key
    PROVE  mainposition(T, k) \in DOMAIN T.node
<1> DEFINE size == Len(T.node)
           b == IF k \in Str \/ size = 1 THEN size ELSE size - 1
<1>1. size \in Nat \ {0} /\ DOMAIN T.node = 1 .. size
    BY TableFacts
<1>2. b \in Nat \ {0} /\ b <= size
    BY <1>1
<1>3. Hash[k] % b \in 0 .. b - 1
    BY <1>2, KeyFacts, Mod
<1>4. mainposition(T, k) = 1 + (Hash[k] % b)
    BY DEF mainposition
<1>. HIDE DEF b, size
<1>. QED
    BY <1>1, <1>2, <1>3, <1>4

Leads(T, i, F) == i \in F /\ \A j \in F : Reaches(T, i, j)

LEMMA FirstIs ==
    ASSUME NEW T, WellFormed(T), NEW k, NEW F \in SUBSET DOMAIN T.node, NEW i,
           Reaches(T, mainposition(T, k), i), Leads(T, i, F)
    PROVE  FirstOf(T, k, F) = i
<1> DEFINE C == {j \in F : Reaches(T, mainposition(T, k), j)}
           x == CHOOSE x \in C : \A j \in C : Reaches(T, x, j)
<1>1. i \in C /\ \A j \in C : Reaches(T, i, j)
    BY DEF Leads
<1>2. x \in C /\ \A j \in C : Reaches(T, x, j)
    BY <1>1
<1>3. Reaches(T, x, i) /\ Reaches(T, i, x)
    BY <1>1, <1>2
<1>4. x = i
  <2>1. x \in DOMAIN T.node /\ i \in DOMAIN T.node
      BY <1>1, <1>2
  <2>. HIDE DEF C, x
  <2>. QED
      BY <1>3, <2>1, ReachesAntisymmetric, TableFacts DEF WellFormed
<1>5. FirstOf(T, k, F) = x
    BY <1>1 DEF FirstOf
<1>. QED
    BY <1>4, <1>5

LEMMA FindIs ==
    ASSUME NEW T, WellFormed(T), NEW i \in DOMAIN T.node, T.node[i].key # nil, ~T.node[i].dead
    PROVE  /\ Find(T, T.node[i].key) = i
           /\ findindex(T, T.node[i].key) = Len(T.array) + i
<1> DEFINE k == T.node[i].key
<1>1. Reaches(T, mainposition(T, k), i)
    BY DEF WellFormed, Homes
<1>2. \A j \in DOMAIN T.node : T.node[j].key = k => Reaches(T, i, j)
    BY DEF WellFormed, Keys
<1>3. ~InArray(T, k)
    BY DEF WellFormed, Keys
<1>4. FirstOf(T, k, {j \in DOMAIN T.node : Live(k, T.node[j])}) = i
  <2> DEFINE F == {j \in DOMAIN T.node : Live(k, T.node[j])}
  <2>1. F \in SUBSET DOMAIN T.node /\ Leads(T, i, F)
      BY <1>2 DEF Live, Leads
  <2>2. FirstOf(T, k, F) = i
    <3>. HIDE DEF F, k
    <3>. QED
        BY <1>1, <2>1, FirstIs
  <2>. QED
      BY <2>2
<1>5. FirstOf(T, k, {j \in DOMAIN T.node : T.node[j].key = k}) = i
  <2> DEFINE F == {j \in DOMAIN T.node : T.node[j].key = k}
  <2>1. F \in SUBSET DOMAIN T.node /\ Leads(T, i, F)
      BY <1>2 DEF Leads
  <2>2. FirstOf(T, k, F) = i
    <3>. HIDE DEF F, k
    <3>. QED
        BY <1>1, <2>1, FirstIs
  <2>. QED
      BY <2>2
<1>6. i # 0
    BY TableFacts DEF WellFormed
<1>7. findindex(T, k) = Position(T, i)
    BY <1>3, <1>5 DEF findindex
<1>8. Position(T, i) = Len(T.array) + i
    BY <1>6 DEF Position
<1>9. Find(T, k) = i
    BY <1>4 DEF Find
<1>. QED
    BY <1>7, <1>8, <1>9

LEMMA FindFacts ==
    ASSUME NEW T, WellFormed(T), NEW k \in Key, Find(T, k) # 0
    PROVE  Find(T, k) \in DOMAIN T.node /\ Live(k, T.node[Find(T, k)])
<1> DEFINE F == {i \in DOMAIN T.node : Live(k, T.node[i])}
<1>1. F # {}
    BY DEF Find, FirstOf
<1>2. PICK i \in F : TRUE
    BY <1>1
<1>3. T.node[i].key = k /\ ~T.node[i].dead /\ k # nil
    BY <1>2, KeyFacts DEF Live
<1>4. Find(T, k) = i
    BY <1>2, <1>3, FindIs
<1>. QED
    BY <1>2, <1>4

LEMMA FindNone ==
    ASSUME NEW T, WellFormed(T), NEW k \in Key, Find(T, k) = 0
    PROVE  \A i \in DOMAIN T.node : ~Live(k, T.node[i])
BY FindIs, TableFacts, KeyFacts DEF WellFormed, Live

\* What luaH_get gives.
LEMMA GetIs ==
    ASSUME NEW T, WellFormed(T), NEW k \in Key
    PROVE  /\ InArray(T, k) => luaH_get(T, k) = T.array[k]
           /\ ~InArray(T, k) => \A i \in DOMAIN T.node :
                  Live(k, T.node[i]) => luaH_get(T, k) = T.node[i].val
           /\ ~InArray(T, k) /\ (\A i \in DOMAIN T.node : ~Live(k, T.node[i])) =>
                  luaH_get(T, k) = nil
<1>1. ASSUME ~InArray(T, k), NEW i \in DOMAIN T.node, Live(k, T.node[i])
      PROVE  luaH_get(T, k) = T.node[i].val
  <2>1. Find(T, k) = i /\ i # 0
      BY <1>1, FindIs, KeyFacts, TableFacts DEF Live, WellFormed
  <2>. QED
      BY <1>1, <2>1 DEF luaH_get
<1>2. ASSUME ~InArray(T, k), \A i \in DOMAIN T.node : ~Live(k, T.node[i])
      PROVE  luaH_get(T, k) = nil
  <2>1. Find(T, k) = 0
      BY <1>2, FindFacts
  <2>. QED
      BY <1>2, <2>1 DEF luaH_get
<1>3. InArray(T, k) => luaH_get(T, k) = T.array[k]
    BY DEF luaH_get
<1>. QED
    BY <1>1, <1>2, <1>3

----------------------------------------------------------------------------
(* Changes that leave keys and chains alone.                               *)

Keeps(T, U) ==
    /\ U \in TableType /\ U.lastfree = T.lastfree
    /\ Len(U.node) = Len(T.node) /\ Len(U.array) = Len(T.array)
    /\ \A i \in DOMAIN T.node :
          /\ U.node[i].key = T.node[i].key /\ U.node[i].next = T.node[i].next
          /\ T.node[i].key = nil => U.node[i] = T.node[i]
          /\ T.node[i].dead => U.node[i].dead
          /\ U.node[i].val # nil => U.node[i].key # nil /\ ~U.node[i].dead
          /\ U.node[i].dead => U.node[i].key \in collectable
    /\ \A j \in DOMAIN T.array : j \notin Index => U.array[j] = nil

LEMMA KeepsChains ==
    ASSUME NEW T, NEW U, WellFormed(T), Keeps(T, U)
    PROVE  /\ DOMAIN U.node = DOMAIN T.node /\ DOMAIN U.array = DOMAIN T.array
           /\ \A i, j \in DOMAIN T.node : Reaches(U, i, j) <=> Reaches(T, i, j)
           /\ \A k : mainposition(U, k) = mainposition(T, k)
           /\ \A k : InArray(U, k) <=> InArray(T, k)
           /\ (U.node = <<>>) <=> (T.node = <<>>)
<1>1. DOMAIN U.node = DOMAIN T.node /\ DOMAIN U.array = DOMAIN T.array
    BY TableFacts DEF Keeps, WellFormed
<1>2. ASSUME NEW i \in DOMAIN T.node, NEW j \in DOMAIN T.node
      PROVE  Reaches(U, i, j) <=> Reaches(T, i, j)
  <2>1. \A S \in SUBSET DOMAIN T.node : Closed(U, S) <=> Closed(T, S)
      BY DEF Closed, Keeps
  <2>2. \A S \in SUBSET DOMAIN U.node : Closed(U, S) <=> Closed(T, S)
      BY <1>1, <2>1
  <2>. QED
      BY <1>1, <2>2, ReachesIs
<1>3. Len(U.node) = Len(T.node) /\ Len(U.array) = Len(T.array)
    BY DEF Keeps
<1>4. \A k : mainposition(U, k) = mainposition(T, k)
    BY <1>3 DEF mainposition
<1>5. \A k : InArray(U, k) <=> InArray(T, k)
    BY <1>3 DEF InArray
<1>6. (U.node = <<>>) <=> (T.node = <<>>)
    BY <1>3, TableFacts DEF Keeps, WellFormed
<1>. QED
    BY <1>1, <1>2, <1>4, <1>5, <1>6

LEMMA KeepsForm ==
    ASSUME NEW T, NEW U, WellFormed(T), Keeps(T, U)
    PROVE  WellFormed(U)
<1>1. DOMAIN U.node = DOMAIN T.node /\ DOMAIN U.array = DOMAIN T.array
    BY KeepsChains
<1>2. Linked(U)
  <2>1. \A i \in DOMAIN T.node :
            U.node[i].key = T.node[i].key /\ U.node[i].next = T.node[i].next
      BY DEF Keeps
  <2>2. \A i \in DOMAIN T.node : T.node[i].key = nil => U.node[i] = T.node[i]
      BY DEF Keeps
  <2>3. Linked(T)
      BY DEF WellFormed
  <2>4. \A i \in DOMAIN U.node : U.node[i].next \in DOMAIN U.node \cup {0}
      BY <1>1, <2>1, <2>3 DEF Linked
  <2>5. \A i \in DOMAIN U.node : U.node[i].next # 0 => U.node[U.node[i].next].key # nil
      BY <1>1, <2>1, <2>3 DEF Linked
  <2>6. \A i \in DOMAIN U.node : U.node[i].key = nil => U.node[i] = Virgin
      BY <1>1, <2>1, <2>2, <2>3 DEF Linked
  <2>7. \A i, j \in DOMAIN U.node : U.node[i].next = U.node[j].next => i = j \/ U.node[i].next = 0
      BY <1>1, <2>1, <2>3 DEF Linked
  <2>8. \A S \in SUBSET DOMAIN U.node : S # {} => \E a \in S : U.node[a].next \notin S
      BY <1>1, <2>1, <2>3 DEF Linked
  <2>. QED
      BY <2>4, <2>5, <2>6, <2>7, <2>8 DEF Linked
<1>3. Homes(U)
  <2> SUFFICES ASSUME NEW i \in DOMAIN T.node, T.node[i].key # nil
               PROVE  LET m == mainposition(T, T.node[i].key) IN
                      /\ U.node[m].key # nil
                      /\ mainposition(T, U.node[m].key) = m
                      /\ Reaches(U, m, i)
      BY <1>1, KeepsChains DEF Homes, Keeps
  <2> DEFINE m == mainposition(T, T.node[i].key)
  <2>1. T.node[m].key # nil /\ mainposition(T, T.node[m].key) = m /\ Reaches(T, m, i)
      BY DEF WellFormed, Homes
  <2>2. m \in DOMAIN T.node
      BY MainPositionType, TableFacts DEF WellFormed, Node
  <2>3. U.node[m].key = T.node[m].key
      BY <2>2 DEF Keeps
  <2>4. Reaches(U, m, i)
      BY <2>1, <2>2, KeepsChains
  <2>. QED
      BY <2>1, <2>3, <2>4
<1>4. Keys(U)
  <2>1. ASSUME NEW i \in DOMAIN T.node
        PROVE  /\ U.node[i].val # nil => U.node[i].key # nil /\ ~U.node[i].dead
               /\ U.node[i].dead => U.node[i].key \in collectable
               /\ ~InArray(U, U.node[i].key)
      BY KeepsChains DEF Keeps, WellFormed, Keys
  <2>2. ASSUME NEW i \in DOMAIN T.node, NEW j \in DOMAIN T.node,
               U.node[i].key = U.node[j].key, U.node[i].key # nil, ~U.node[i].dead
        PROVE  (~U.node[j].dead => i = j) /\ Reaches(U, i, j)
    <3>1. T.node[i].key = T.node[j].key /\ T.node[i].key # nil /\ ~T.node[i].dead
        BY <2>2 DEF Keeps
    <3>2. (~T.node[j].dead => i = j) /\ Reaches(T, i, j)
        BY <3>1 DEF WellFormed, Keys
    <3>3. T.node[j].dead => U.node[j].dead
        BY DEF Keeps
    <3>. QED
        BY <3>2, <3>3, KeepsChains
  <2>. QED
      BY <1>1, <2>1, <2>2 DEF Keys
<1>5. Room(U)
    BY <1>1 DEF Keeps, WellFormed, Room
<1>. QED
    BY <1>2, <1>3, <1>4, <1>5 DEF WellFormed, Keeps

\* The positions stay the same.
LEMMA KeepsPositions ==
    ASSUME NEW T, NEW U, WellFormed(T), Keeps(T, U), NEW k \in Key
    PROVE  findindex(U, k) = findindex(T, k)
<1> DEFINE F == {i \in DOMAIN T.node : T.node[i].key = k}
           C == {i \in F : Reaches(T, mainposition(T, k), i)}
           D == {i \in F : Reaches(U, mainposition(U, k), i)}
<1>1. {i \in DOMAIN U.node : U.node[i].key = k} = F
    BY KeepsChains DEF Keeps
<1>2. \A i \in F : Reaches(U, mainposition(U, k), i) <=> Reaches(T, mainposition(T, k), i)
  <2>1. ASSUME NEW i \in F PROVE mainposition(T, k) \in DOMAIN T.node
      BY MainPositionType, TableFacts DEF WellFormed
  <2>. QED
      BY <2>1, KeepsChains
<1>3. D = C
    BY <1>2
<1>4. (CHOOSE i \in D : \A j \in D : Reaches(U, i, j))
        = (CHOOSE i \in C : \A j \in C : Reaches(T, i, j))
  <2>1. \A i \in C : (\A j \in C : Reaches(U, i, j)) <=> (\A j \in C : Reaches(T, i, j))
      BY KeepsChains
  <2>. HIDE DEF C, D
  <2>2. \A i : (i \in D /\ \A j \in D : Reaches(U, i, j)) <=> (i \in C /\ \A j \in C : Reaches(T, i, j))
      BY <1>3, <2>1
  <2>. QED
      BY <2>2
<1>5. FirstOf(U, k, F) = FirstOf(T, k, F)
  <2>1. FirstOf(U, k, F) = IF D = {} THEN 0 ELSE CHOOSE i \in D : \A j \in D : Reaches(U, i, j)
      BY DEF FirstOf
  <2>2. FirstOf(T, k, F) = IF C = {} THEN 0 ELSE CHOOSE i \in C : \A j \in C : Reaches(T, i, j)
      BY DEF FirstOf
  <2> DEFINE x == CHOOSE i \in D : \A j \in D : Reaches(U, i, j)
             y == CHOOSE i \in C : \A j \in C : Reaches(T, i, j)
  <2>3. FirstOf(U, k, F) = IF D = {} THEN 0 ELSE x
      BY <2>1
  <2>4. FirstOf(T, k, F) = IF C = {} THEN 0 ELSE y
      BY <2>2
  <2>5. x = y
      BY <1>4
  <2>. HIDE DEF C, D, F, x, y
  <2>. QED
      BY <1>3, <2>3, <2>4, <2>5
<1>6. Len(U.array) = Len(T.array)
    BY DEF Keeps
<1>. QED
    BY <1>1, <1>5, <1>6, KeepsChains DEF findindex, Position

----------------------------------------------------------------------------
(* Assignments to places that are there.                                   *)

\* The table U is T with v for k.
Stores(T, U, k, v) ==
    /\ WellFormed(U) /\ U.nested = T.nested
    /\ Len(U.node) = Len(T.node) /\ Len(U.array) = Len(T.array)
    /\ luaH_get(U, k) = v
    /\ \A q \in Key \ {k} : luaH_get(U, q) = luaH_get(T, q)

LEMMA SeqIs ==
    ASSUME NEW S, NEW n \in Nat, NEW s \in [1 .. n -> S]
    PROVE  s \in Seq(S) /\ Len(s) = n /\ DOMAIN s = 1 .. n
BY IsASeq, LenProperties

\* A sequence changed at one place.
LEMMA SeqUpdate ==
    ASSUME NEW S, NEW s \in Seq(S), NEW i \in 1 .. Len(s), NEW x \in S
    PROVE  /\ [s EXCEPT ![i] = x] \in Seq(S) /\ Len([s EXCEPT ![i] = x]) = Len(s)
           /\ DOMAIN [s EXCEPT ![i] = x] = 1 .. Len(s)
           /\ [s EXCEPT ![i] = x][i] = x
           /\ \A j \in 1 .. Len(s) : j # i => [s EXCEPT ![i] = x][j] = s[j]
<1>1. Len(s) \in Nat /\ s \in [1 .. Len(s) -> S]
    BY LenProperties
<1>2. [s EXCEPT ![i] = x] \in [1 .. Len(s) -> S]
    BY <1>1
<1>3. /\ [s EXCEPT ![i] = x][i] = x
      /\ \A j \in 1 .. Len(s) : j # i => [s EXCEPT ![i] = x][j] = s[j]
    BY <1>1
<1>. QED
    BY <1>1, <1>2, <1>3, SeqIs

Entry(k, v, p) == [key |-> k, dead |-> FALSE, val |-> v, next |-> p]

LEMMA EntryType ==
    ASSUME NEW k \in Key, NEW v \in Val \cup {nil}, NEW p \in Nat
    PROVE  /\ Entry(k, v, p) \in Node
           /\ Entry(k, v, p).key = k /\ ~Entry(k, v, p).dead /\ Entry(k, v, p).val = v
           /\ Entry(k, v, p).next = p
BY DEF Entry, Node

LEMMA FilledIs ==
    ASSUME NEW N \in Seq(Node), NEW i \in 1 .. Len(N), NEW k \in Key, NEW v \in Val \cup {nil}
    PROVE  Filled(N, i, k, v) = [N EXCEPT ![i] = Entry(k, v, N[i].next)]
BY DEF Filled, Entry

\* The assignment to a slot of the array part.
LEMMA PutArray ==
    ASSUME NEW T, WellFormed(T), NEW k \in Key, NEW v \in Val \cup {nil}, InArray(T, k)
    PROVE  /\ Stores(T, Put(T, k, v), k, v) /\ Keeps(T, Put(T, k, v))
           /\ Put(T, k, v).node = T.node
<1> DEFINE U == Put(T, k, v)
           A == [T.array EXCEPT ![k] = v]
<1>0. T \in TableType /\ T.array \in Seq(Val \cup {nil})
    BY DEF WellFormed, TableType
<1>1. k \in 1 .. Len(T.array) /\ k \in Index
    BY <1>0, KeyFacts, TableFacts DEF InArray
<1>2. /\ A \in Seq(Val \cup {nil}) /\ Len(A) = Len(T.array) /\ A[k] = v
      /\ \A j \in 1 .. Len(T.array) : j # k => A[j] = T.array[j]
    BY <1>0, <1>1, SeqUpdate
<1>3. /\ U \in TableType /\ U.array = A /\ U.node = T.node
      /\ U.lastfree = T.lastfree /\ U.nested = T.nested
  <2>1. U = [T EXCEPT !.array = A]
      BY DEF Put
  <2>. HIDE DEF U, A
  <2>. QED
      BY <1>0, <1>2, <2>1 DEF TableType
<1>. HIDE DEF U, A
<1>4. DOMAIN T.array = 1 .. Len(T.array)
    BY <1>0, TableFacts
<1>5. Keeps(T, U)
  <2>1. \A i \in DOMAIN T.node :
          /\ T.node[i].val # nil => T.node[i].key # nil /\ ~T.node[i].dead
          /\ T.node[i].dead => T.node[i].key \in collectable
      BY DEF WellFormed, Keys
  <2>2. \A j \in DOMAIN T.array : j \notin Index => A[j] = nil
      BY <1>1, <1>2, <1>4 DEF WellFormed, Room
  <2>. QED
      BY <1>2, <1>3, <2>1, <2>2 DEF Keeps
<1>6. WellFormed(U)
    BY <1>5, KeepsForm
<1>7. \A q \in Key : InArray(U, q) <=> InArray(T, q)
    BY <1>5, KeepsChains
<1>8. luaH_get(U, k) = v
    BY <1>2, <1>3, <1>6, <1>7, GetIs
<1>9. ASSUME NEW q \in Key, q # k PROVE luaH_get(U, q) = luaH_get(T, q)
  <2>1. CASE InArray(T, q)
    <3>1. q \in 1 .. Len(T.array)
        BY <2>1, <1>0, KeyFacts, TableFacts DEF InArray
    <3>. QED
        BY <2>1, <3>1, <1>2, <1>3, <1>6, <1>7, <1>9, GetIs
  <2>2. CASE ~InArray(T, q)
    <3>1. CASE \E i \in DOMAIN T.node : Live(q, T.node[i])
        BY <2>2, <3>1, <1>3, <1>6, <1>7, GetIs
    <3>2. CASE \A i \in DOMAIN T.node : ~Live(q, T.node[i])
        BY <2>2, <3>2, <1>3, <1>6, <1>7, GetIs
    <3>. QED
        BY <3>1, <3>2
  <2>. QED
      BY <2>1, <2>2
<1>10. Len(U.node) = Len(T.node) /\ Len(U.array) = Len(T.array)
    BY <1>2, <1>3
<1>. QED
    BY <1>3, <1>5, <1>6, <1>8, <1>9, <1>10 DEF Stores, U

\* The assignment to the node of the key.
LEMMA PutNode ==
    ASSUME NEW T, WellFormed(T), NEW k \in Key, NEW v \in Val \cup {nil},
           ~InArray(T, k), Find(T, k) # 0
    PROVE  Stores(T, Put(T, k, v), k, v) /\ Keeps(T, Put(T, k, v))
<1> DEFINE U == Put(T, k, v)
           f == Find(T, k)
           e == [T.node[f] EXCEPT !.val = v]
           N == [T.node EXCEPT ![f] = e]
<1>0. T \in TableType /\ T.node \in Seq(Node)
    BY DEF WellFormed, TableType
<1>1. f \in 1 .. Len(T.node) /\ T.node[f].key = k /\ ~T.node[f].dead /\ T.node[f] \in Node
    BY <1>0, FindFacts, TableFacts DEF Live
<1>2. /\ e \in Node /\ e.key = k /\ ~e.dead /\ e.val = v /\ e.next = T.node[f].next
    BY <1>1 DEF Node
<1>3. /\ N \in Seq(Node) /\ Len(N) = Len(T.node) /\ N[f] = e
      /\ \A j \in 1 .. Len(T.node) : j # f => N[j] = T.node[j]
  <2>. HIDE DEF e, f
  <2>. QED
      BY <1>0, <1>1, <1>2, SeqUpdate
<1>4. /\ U \in TableType /\ U.array = T.array /\ U.node = N
      /\ U.lastfree = T.lastfree /\ U.nested = T.nested
  <2>1. U = [T EXCEPT !.node = N]
      BY DEF Put
  <2>. HIDE DEF U, N
  <2>. QED
      BY <1>0, <1>3, <2>1 DEF TableType
<1>. HIDE DEF U, N, e, f
<1>5. DOMAIN T.node = 1 .. Len(T.node) /\ DOMAIN T.array = 1 .. Len(T.array)
    BY <1>0, TableFacts
<1>6. Keeps(T, U)
  <2>1. \A i \in DOMAIN T.node :
          /\ T.node[i].val # nil => T.node[i].key # nil /\ ~T.node[i].dead
          /\ T.node[i].dead => T.node[i].key \in collectable
      BY DEF WellFormed, Keys
  <2>2. k # nil
      BY KeyFacts
  <2>3. \A j \in DOMAIN T.array : j \notin Index => T.array[j] = nil
      BY DEF WellFormed, Room
  <2>. QED
      BY <1>1, <1>2, <1>3, <1>4, <1>5, <2>1, <2>2, <2>3 DEF Keeps
<1>7. WellFormed(U)
    BY <1>6, KeepsForm
<1>8. \A q \in Key : InArray(U, q) <=> InArray(T, q)
    BY <1>6, KeepsChains
<1>9. DOMAIN U.node = DOMAIN T.node
    BY <1>6, KeepsChains
<1>10. \A q : \A i \in DOMAIN T.node : Live(q, U.node[i]) <=> Live(q, T.node[i])
    BY <1>1, <1>2, <1>3, <1>4, <1>5 DEF Live
<1>11. luaH_get(U, k) = v
  <2>1. Live(k, U.node[f]) /\ U.node[f].val = v
      BY <1>2, <1>3, <1>4 DEF Live
  <2>. QED
      BY <2>1, <1>1, <1>5, <1>7, <1>8, <1>9, GetIs
<1>12. ASSUME NEW q \in Key, q # k PROVE luaH_get(U, q) = luaH_get(T, q)
  <2>1. CASE InArray(T, q)
      BY <2>1, <1>4, <1>7, <1>8, GetIs
  <2>2. CASE ~InArray(T, q)
    <3>1. ASSUME NEW i \in DOMAIN T.node, Live(q, T.node[i]) PROVE luaH_get(U, q) = luaH_get(T, q)
      <4>1. i # f
          BY <3>1, <1>1, <1>12 DEF Live
      <4>2. U.node[i].val = T.node[i].val
          BY <4>1, <1>3, <1>4, <1>5
      <4>3. Live(q, U.node[i])
          BY <3>1, <1>10
      <4>. QED
          BY <2>2, <3>1, <4>2, <4>3, <1>7, <1>8, <1>9, GetIs
    <3>2. CASE \A i \in DOMAIN T.node : ~Live(q, T.node[i])
        BY <2>2, <3>2, <1>7, <1>8, <1>9, <1>10, GetIs
    <3>. QED
        BY <3>1, <3>2
  <2>. QED
      BY <2>1, <2>2
<1>13. Len(U.node) = Len(T.node) /\ Len(U.array) = Len(T.array)
    BY <1>3, <1>4
<1>. QED
    BY <1>4, <1>6, <1>7, <1>11, <1>12, <1>13 DEF Stores, U

----------------------------------------------------------------------------
(* The insertion of a key.                                                 *)

LEMMA FreePos ==
    ASSUME NEW T, WellFormed(T)
    PROVE  /\ getfreepos(T) = 0 => \A i \in DOMAIN T.node : T.node[i].key # nil
           /\ getfreepos(T) # 0 =>
                /\ getfreepos(T) \in DOMAIN T.node
                /\ T.node[getfreepos(T)].key = nil
                /\ \A i \in DOMAIN T.node : getfreepos(T) < i => T.node[i].key # nil
<1> DEFINE S == {i \in 1 .. T.lastfree - 1 : T.node[i].key = nil}
           n == CHOOSE i \in S : \A j \in S : j <= i
<1>0. T.lastfree \in 1 .. Len(T.node) + 1 /\ Len(T.node) \in Nat /\ DOMAIN T.node = 1 .. Len(T.node)
    BY TableFacts DEF WellFormed, Room
<1>1. \A i \in DOMAIN T.node : T.lastfree <= i => T.node[i].key # nil
    BY DEF WellFormed, Room
<1>2. getfreepos(T) = IF S = {} THEN 0 ELSE n
    BY DEF getfreepos
<1>3. ASSUME S = {}, NEW i \in DOMAIN T.node PROVE T.node[i].key # nil
    BY <1>0, <1>1, <1>3
<1>4. ASSUME S # {}
      PROVE  n \in DOMAIN T.node /\ T.node[n].key = nil
             /\ \A i \in DOMAIN T.node : n < i => T.node[i].key # nil
  <2>1. \E m \in S : \A j \in S : j <= m
    <3>1. S \in SUBSET Nat /\ \A j \in S : j <= Len(T.node)
        BY <1>0
    <3>. HIDE DEF S
    <3>. QED
        BY <1>0, <1>4, <3>1, Largest
  <2>2. n \in S /\ \A j \in S : j <= n
    <3>. HIDE DEF S
    <3>. QED
        BY <2>1
  <2>3. n \in DOMAIN T.node /\ T.node[n].key = nil
      BY <1>0, <2>2
  <2>4. ASSUME NEW i \in DOMAIN T.node, n < i, T.node[i].key = nil PROVE FALSE
    <3>1. i < T.lastfree
        BY <1>0, <1>1, <2>4
    <3>2. i \in S
        BY <1>0, <2>4, <3>1
    <3>. HIDE DEF n, S
    <3>. QED
        BY <1>0, <2>2, <2>3, <2>4, <3>2
  <2>. QED
      BY <2>3, <2>4
<1>5. 0 \notin DOMAIN T.node
    BY <1>0
<1>. HIDE DEF S, n
<1>. QED
    BY <1>2, <1>3, <1>4, <1>5

\* A node has the value x for q.
Gives(T, q, x) == \E i \in DOMAIN T.node : T.node[i].key = q /\ T.node[i].val = x

LEMMA GetGives ==
    ASSUME NEW T, WellFormed(T), NEW q \in Key, ~InArray(T, q), NEW x, x # nil
    PROVE  luaH_get(T, q) = x <=> Gives(T, q, x)
<1>1. ASSUME Gives(T, q, x) PROVE luaH_get(T, q) = x
  <2>1. PICK i \in DOMAIN T.node : T.node[i].key = q /\ T.node[i].val = x
      BY <1>1 DEF Gives
  <2>2. Live(q, T.node[i])
      BY <2>1 DEF Live, WellFormed, Keys
  <2>. QED
      BY <2>1, <2>2, GetIs
<1>2. ASSUME luaH_get(T, q) = x PROVE Gives(T, q, x)
  <2>1. PICK i \in DOMAIN T.node : Live(q, T.node[i])
      BY <1>2, GetIs
  <2>2. T.node[i].val = x
      BY <1>2, <2>1, GetIs
  <2>. QED
      BY <2>1, <2>2 DEF Gives, Live
<1>. QED
    BY <1>1, <1>2

\* There is room for the new key k.
IsNew(T, k, v) ==
    /\ WellFormed(T) /\ k \in Key /\ v \in Val \cup {nil}
    /\ ~InArray(T, k) /\ Find(T, k) = 0 /\ ~IsFull(T, k)

\* The nodes of U are those of T, maybe in other places, and one for k, which
\* may have taken the place of an empty one.
Inserts(T, U, k, v) ==
    /\ WellFormed(U) /\ U.nested = T.nested /\ U.array = T.array /\ Len(U.node) = Len(T.node)
    /\ \E j \in DOMAIN U.node : Live(k, U.node[j]) /\ U.node[j].val = v
    /\ \A i \in DOMAIN T.node : T.node[i].val # nil => Gives(U, T.node[i].key, T.node[i].val)
    /\ \A j \in DOMAIN U.node : U.node[j].key # nil =>
          \/ U.node[j].key = k /\ U.node[j].val = v
          \/ Gives(T, U.node[j].key, U.node[j].val)

LEMMA InsertsStores ==
    ASSUME NEW T, NEW U, NEW k, NEW v, IsNew(T, k, v), Inserts(T, U, k, v)
    PROVE  Stores(T, U, k, v)
<1>1. \A q \in Key : InArray(U, q) <=> InArray(T, q)
    BY DEF InArray, Inserts
<1>2. WellFormed(T) /\ WellFormed(U) /\ k \in Key /\ ~InArray(T, k)
    BY DEF IsNew, Inserts
<1>3. luaH_get(U, k) = v
    BY <1>1, <1>2, GetIs DEF Inserts
<1>4. ASSUME NEW q \in Key, q # k PROVE luaH_get(U, q) = luaH_get(T, q)
  <2>1. CASE InArray(T, q)
      BY <2>1, <1>1, <1>2, GetIs DEF Inserts
  <2>2. CASE ~InArray(T, q)
    <3>1. ASSUME NEW x, x # nil PROVE Gives(U, q, x) <=> Gives(T, q, x)
      <4>1. ASSUME Gives(U, q, x) PROVE Gives(T, q, x)
        <5>1. PICK j \in DOMAIN U.node : U.node[j].key = q /\ U.node[j].val = x
            BY <4>1 DEF Gives
        <5>. QED
            BY <5>1, <1>4, KeyFacts DEF Inserts
      <4>2. ASSUME Gives(T, q, x) PROVE Gives(U, q, x)
        <5>1. PICK i \in DOMAIN T.node : T.node[i].key = q /\ T.node[i].val = x
            BY <4>2 DEF Gives
        <5>. QED
            BY <5>1, <3>1 DEF Inserts
      <4>. QED
          BY <4>1, <4>2
    <3>2. ASSUME NEW x, x # nil PROVE luaH_get(U, q) = x <=> luaH_get(T, q) = x
      <4>1. luaH_get(U, q) = x <=> Gives(U, q, x)
          BY <2>2, <1>1, <1>2, <3>2, GetGives
      <4>2. luaH_get(T, q) = x <=> Gives(T, q, x)
          BY <2>2, <1>2, <3>2, GetGives
      <4>. QED
          BY <3>1, <3>2, <4>1, <4>2
    <3>. QED
        BY <3>2
  <2>. QED
      BY <2>1, <2>2
<1>. QED
    BY <1>2, <1>3, <1>4 DEF Stores, Inserts

LEMMA NewFacts ==
    ASSUME NEW T, NEW k, NEW v, IsNew(T, k, v)
    PROVE  /\ T \in TableType /\ T.node \in Seq(Node) /\ T.node # <<>>
           /\ DOMAIN T.node = 1 .. Len(T.node) /\ Len(T.node) \in Nat
           /\ mainposition(T, k) \in DOMAIN T.node
           /\ \A i \in DOMAIN T.node : ~Live(k, T.node[i])
           /\ T.node[mainposition(T, k)].val # nil =>
                /\ getfreepos(T) \in DOMAIN T.node
                /\ T.node[getfreepos(T)] = Virgin
                /\ \A i \in DOMAIN T.node : getfreepos(T) < i => T.node[i].key # nil
<1>1. T \in TableType /\ T.node \in Seq(Node)
    BY DEF IsNew, WellFormed, TableType
<1>2. T.node # <<>>
    BY DEF IsNew, IsFull
<1>3. mainposition(T, k) \in DOMAIN T.node
    BY <1>1, <1>2, MainPositionType DEF IsNew
<1>4. \A i \in DOMAIN T.node : ~Live(k, T.node[i])
    BY FindNone DEF IsNew
<1>5. ASSUME T.node[mainposition(T, k)].val # nil
      PROVE  /\ getfreepos(T) \in DOMAIN T.node
             /\ T.node[getfreepos(T)] = Virgin
             /\ \A i \in DOMAIN T.node : getfreepos(T) < i => T.node[i].key # nil
  <2>1. getfreepos(T) # 0 /\ WellFormed(T)
      BY <1>5 DEF IsNew, IsFull
  <2>2. /\ getfreepos(T) \in DOMAIN T.node
        /\ T.node[getfreepos(T)].key = nil
        /\ \A i \in DOMAIN T.node : getfreepos(T) < i => T.node[i].key # nil
      BY <2>1, FreePos
  <2>. QED
      BY <2>1, <2>2 DEF WellFormed, Linked
<1>. QED
    BY <1>1, <1>2, <1>3, <1>4, <1>5, TableFacts

LEMMA SamePositions ==
    ASSUME NEW T, NEW U, Len(U.node) = Len(T.node)
    PROVE  \A q : mainposition(U, q) = mainposition(T, q)
BY DEF mainposition

\* The main position of the key has no value.
LEMMA NewAtHome ==
    ASSUME NEW T, NEW k, NEW v, IsNew(T, k, v), T.node[mainposition(T, k)].val = nil
    PROVE  Inserts(T, NewNode(T, k, v), k, v)
<1> DEFINE D == DOMAIN T.node
           mp == mainposition(T, k)
           e == Entry(k, v, T.node[mp].next)
           N == [T.node EXCEPT ![mp] = e]
           U == NewNode(T, k, v)
<1>0. /\ T \in TableType /\ T.node \in Seq(Node) /\ D = 1 .. Len(T.node) /\ mp \in D
      /\ k \in Key /\ k # nil /\ v \in Val \cup {nil} /\ WellFormed(T) /\ ~InArray(T, k)
      /\ 0 \notin D
    BY NewFacts, KeyFacts, TableFacts DEF IsNew
<1>1. \A i \in D : T.node[i].key = k => T.node[i].dead
    BY NewFacts DEF Live
<1>2. /\ e \in Node /\ e.key = k /\ ~e.dead /\ e.val = v /\ e.next = T.node[mp].next
  <2>1. T.node[mp].next \in Nat
      BY <1>0, TableFacts DEF Node
  <2>2. k \in Key /\ v \in Val \cup {nil}
      BY <1>0
  <2>. HIDE DEF mp, D
  <2>. QED
      BY <2>1, <2>2, EntryType
<1>3. /\ N \in Seq(Node) /\ Len(N) = Len(T.node) /\ DOMAIN N = D /\ N[mp] = e
      /\ \A i \in D : i # mp => N[i] = T.node[i]
  <2>. HIDE DEF e, mp
  <2>. QED
      BY <1>0, <1>2, SeqUpdate
<1>4. /\ U \in TableType /\ U.array = T.array /\ U.node = N
      /\ U.lastfree = T.lastfree /\ U.nested = T.nested
  <2>1. Filled(T.node, mp, k, v) = N
      BY <1>0, FilledIs
  <2>2. U = [T EXCEPT !.node = Filled(@, mp, k, v)]
      BY DEF NewNode
  <2>. HIDE DEF U, N, mp
  <2>. QED
      BY <1>0, <1>3, <2>1, <2>2 DEF TableType
<1>5. \A q : mainposition(U, q) = mainposition(T, q)
    BY <1>3, <1>4, SamePositions
<1>6. mainposition(T, k) = mp
    OBVIOUS
<1>. HIDE DEF U, N, e, mp, D
<1>7. \A i \in D : U.node[i].next = T.node[i].next
    BY <1>2, <1>3, <1>4
<1>8. \A i \in D : i # mp => U.node[i] = T.node[i]
    BY <1>3, <1>4
<1>9. U.node[mp].key = k /\ ~U.node[mp].dead /\ U.node[mp].val = v /\ DOMAIN U.node = D
    BY <1>2, <1>3, <1>4
<1>10. \A i, j \in D : Reaches(U, i, j) <=> Reaches(T, i, j)
  <2>1. \A S \in SUBSET D : Closed(U, S) <=> Closed(T, S)
      BY <1>7 DEF Closed
  <2>. QED
      BY <1>9, <2>1, ReachesIs DEF D
<1>11. Linked(U)
  <2>1. Linked(T)
      BY <1>0 DEF WellFormed
  <2>2. ASSUME NEW i \in D, U.node[i].next # 0 PROVE U.node[U.node[i].next].key # nil
    <3>1. /\ U.node[i].next = T.node[i].next /\ T.node[i].next \in D
          /\ T.node[T.node[i].next].key # nil
        BY <1>7, <2>1, <2>2 DEF Linked, D
    <3>. QED
        BY <1>0, <1>8, <1>9, <3>1
  <2>3. \A i \in D : U.node[i].key = nil => U.node[i] = Virgin
      BY <1>0, <1>8, <1>9, <2>1 DEF Linked, D
  <2>4. /\ \A i \in D : U.node[i].next \in D \cup {0}
        /\ \A i, j \in D : U.node[i].next = U.node[j].next => i = j \/ U.node[i].next = 0
        /\ \A S \in SUBSET D : S # {} => \E a \in S : U.node[a].next \notin S
      BY <1>7, <2>1 DEF Linked, D
  <2>. QED
      BY <1>9, <2>2, <2>3, <2>4 DEF Linked
<1>12. Homes(U)
  <2> SUFFICES ASSUME NEW i \in D, U.node[i].key # nil
               PROVE  LET m == mainposition(T, U.node[i].key) IN
                      /\ U.node[m].key # nil
                      /\ mainposition(T, U.node[m].key) = m
                      /\ Reaches(U, m, i)
      BY <1>5, <1>9 DEF Homes
  <2>1. CASE i = mp
      BY <2>1, <1>0, <1>6, <1>9 DEF Reaches
  <2>2. CASE i # mp
    <3> DEFINE m == mainposition(T, T.node[i].key)
    <3>1. U.node[i].key = T.node[i].key
        BY <2>2, <1>8
    <3>2. m \in D
      <4>1. T.node[i].key \in Key /\ T.node # <<>>
          BY <1>0, <3>1, TableFacts DEF D, Node
      <4>. QED
          BY <4>1, <1>0, MainPositionType DEF D
    <3>3. T.node[m].key # nil /\ mainposition(T, T.node[m].key) = m /\ Reaches(T, m, i)
        BY <1>0, <3>1 DEF WellFormed, Homes, D
    <3>4. Reaches(U, m, i)
        BY <3>2, <3>3, <1>10
    <3>5. U.node[m].key # nil /\ mainposition(T, U.node[m].key) = m
        BY <3>2, <3>3, <1>0, <1>6, <1>8, <1>9
    <3>. QED
        BY <3>1, <3>4, <3>5
  <2>. QED
      BY <2>1, <2>2
<1>13. Keys(U)
  <2>0. Keys(T) /\ \A q : InArray(U, q) <=> InArray(T, q)
      BY <1>0, <1>4 DEF WellFormed, InArray
  <2>1. \A i \in D :
          /\ U.node[i].val # nil => U.node[i].key # nil /\ ~U.node[i].dead
          /\ U.node[i].dead => U.node[i].key \in collectable
          /\ ~InArray(U, U.node[i].key)
      BY <1>0, <1>8, <1>9, <2>0 DEF Keys, D
  <2>2. ASSUME NEW i \in D, NEW j \in D, U.node[i].key = U.node[j].key, U.node[i].key # nil, ~U.node[i].dead
        PROVE  (~U.node[j].dead => i = j) /\ Reaches(U, i, j)
    <3>1. CASE i = mp /\ j = mp
        BY <3>1 DEF Reaches
    <3>2. CASE i = mp /\ j # mp
      <4>1. T.node[j].key = k /\ T.node[j].dead /\ U.node[j].dead
          BY <2>2, <3>2, <1>1, <1>8, <1>9
      <4>2. Reaches(T, mp, j)
          BY <4>1, <1>0, <1>6 DEF WellFormed, Homes, D
      <4>. QED
          BY <4>1, <4>2, <3>2, <1>0, <1>10
    <3>3. CASE i # mp /\ j = mp
        BY <3>3, <2>2, <1>1, <1>8, <1>9
    <3>4. CASE i # mp /\ j # mp
        BY <3>4, <2>2, <1>8, <1>10, <2>0 DEF Keys, D
    <3>. QED
        BY <3>1, <3>2, <3>3, <3>4
  <2>. QED
      BY <1>9, <2>1, <2>2 DEF Keys
<1>14. Room(U)
    BY <1>0, <1>3, <1>4, <1>8, <1>9 DEF WellFormed, Room, D
<1>15. \E j \in DOMAIN U.node : Live(k, U.node[j]) /\ U.node[j].val = v
    BY <1>0, <1>9 DEF Live
<1>16. ASSUME NEW i \in D, T.node[i].val # nil PROVE Gives(U, T.node[i].key, T.node[i].val)
  <2>1. i # mp
      BY <1>16, <1>6
  <2>. QED
      BY <2>1, <1>8, <1>9 DEF Gives
<1>17. ASSUME NEW j \in D, U.node[j].key # nil
       PROVE  \/ U.node[j].key = k /\ U.node[j].val = v
              \/ Gives(T, U.node[j].key, U.node[j].val)
    BY <1>8, <1>9 DEF Gives, D
<1>18. WellFormed(U)
    BY <1>4, <1>11, <1>12, <1>13, <1>14 DEF WellFormed
<1>19. Inserts(T, U, k, v)
    BY <1>3, <1>4, <1>9, <1>15, <1>16, <1>17, <1>18 DEF Inserts, D
<1>. QED
    BY <1>19 DEF U

\* A node with another next.
LEMMA NextIs ==
    ASSUME NEW e \in Node, NEW p \in Nat
    PROVE  /\ [e EXCEPT !.next = p] \in Node
           /\ [e EXCEPT !.next = p].key = e.key /\ [e EXCEPT !.next = p].dead = e.dead
           /\ [e EXCEPT !.next = p].val = e.val /\ [e EXCEPT !.next = p].next = p
BY DEF Node

\* The main position holds a key that belongs there: the new one goes behind it.
LEMMA NewBehind ==
    ASSUME NEW T, NEW k, NEW v, IsNew(T, k, v), T.node[mainposition(T, k)].val # nil,
           mainposition(T, T.node[mainposition(T, k)].key) = mainposition(T, k)
    PROVE  Inserts(T, NewNode(T, k, v), k, v)
<1> DEFINE D == DOMAIN T.node
           mp == mainposition(T, k)
           n == getfreepos(T)
           a == T.node[mp].next
           e1 == [T.node[n] EXCEPT !.next = a]
           N1 == [T.node EXCEPT ![n] = e1]
           e2 == [N1[mp] EXCEPT !.next = n]
           N2 == [N1 EXCEPT ![mp] = e2]
           e == Entry(k, v, N2[n].next)
           N == [N2 EXCEPT ![n] = e]
           U == NewNode(T, k, v)
<1>0. /\ T \in TableType /\ T.node \in Seq(Node) /\ D = 1 .. Len(T.node) /\ mp \in D
      /\ k \in Key /\ k # nil /\ v \in Val \cup {nil} /\ WellFormed(T) /\ ~InArray(T, k)
      /\ 0 \notin D /\ n \in D /\ T.node[n] = Virgin /\ T.node[mp].val # nil
      /\ T.node[n] \in Node /\ T.node[mp] \in Node /\ n \in Nat /\ a \in Nat
  <2>1. \A i \in D : T.node[i] \in Node /\ T.node[i].next \in Nat
      BY NewFacts, TableFacts DEF Node
  <2>. QED
      BY <2>1, NewFacts, KeyFacts, TableFacts DEF IsNew
<1>1. \A i \in D : T.node[i].key = k => T.node[i].dead
    BY NewFacts DEF Live
<1>2. n # mp /\ T.node[mp].key # nil /\ ~T.node[mp].dead /\ mainposition(T, T.node[mp].key) = mp
    BY <1>0 DEF Virgin, WellFormed, Keys
<1>3. /\ N \in Seq(Node) /\ Len(N) = Len(T.node) /\ DOMAIN N = D
      /\ N[n] = Entry(k, v, a) /\ N[mp] = [T.node[mp] EXCEPT !.next = n]
      /\ \A i \in D : i # mp /\ i # n => N[i] = T.node[i]
  <2>1. e1 \in Node /\ e1.next = a
    <3>. HIDE DEF a, n
    <3>. QED
        BY <1>0, NextIs
  <2>2. /\ N1 \in Seq(Node) /\ Len(N1) = Len(T.node) /\ N1[n] = e1
        /\ \A i \in D : i # n => N1[i] = T.node[i]
    <3>. HIDE DEF e1, n
    <3>. QED
        BY <1>0, <2>1, SeqUpdate
  <2>3. N1[mp] = T.node[mp] /\ e2 \in Node
    <3>1. N1[mp] = T.node[mp]
      <4>. HIDE DEF N1, mp, n
      <4>. QED
          BY <1>0, <1>2, <2>2
    <3>. HIDE DEF N1, n, mp
    <3>. QED
        BY <1>0, <3>1, NextIs
  <2>4. /\ N2 \in Seq(Node) /\ Len(N2) = Len(T.node) /\ N2[mp] = e2 /\ N2[n] = e1
        /\ \A i \in D : i # mp /\ i # n => N2[i] = T.node[i]
    <3>. HIDE DEF e2, mp, N1, n, e1
    <3>. QED
        BY <1>0, <1>2, <2>2, <2>3, SeqUpdate
  <2>5. e = Entry(k, v, a) /\ e \in Node
    <3>1. N2[n].next = a
      <4>. HIDE DEF N2, n, e1, a
      <4>. QED
          BY <2>1, <2>4
    <3>2. e = Entry(k, v, a)
      <4>. HIDE DEF N2, n, a
      <4>. QED
          BY <3>1
    <3>. HIDE DEF a, e
    <3>. QED
        BY <1>0, <3>2, EntryType
  <2>6. /\ N \in Seq(Node) /\ Len(N) = Len(T.node) /\ DOMAIN N = D /\ N[n] = e /\ N[mp] = e2
        /\ \A i \in D : i # mp /\ i # n => N[i] = T.node[i]
    <3>. HIDE DEF e, N2, n, mp, e2
    <3>. QED
        BY <1>0, <1>2, <2>4, <2>5, SeqUpdate
  <2>7. e2 = [T.node[mp] EXCEPT !.next = n]
    <3>. HIDE DEF N1, mp, n
    <3>. QED
        BY <2>3
  <2>. HIDE DEF N, e, e2, n, mp, a
  <2>. QED
      BY <2>5, <2>6, <2>7
<1>4. /\ U \in TableType /\ U.array = T.array /\ U.node = N
      /\ U.lastfree = n /\ U.nested = T.nested
  <2>1. [T.node EXCEPT ![n].next = T.node[mp].next, ![mp].next = n] = N2
      OBVIOUS
  <2>2. Filled(N2, n, k, v) = N
      BY DEF Filled, Entry
  <2>3. U = [[T EXCEPT !.lastfree = n] EXCEPT !.node =
              Filled([@ EXCEPT ![n].next = T.node[mp].next, ![mp].next = n], n, k, v)]
    <3>. HIDE DEF n
    <3>. QED
        BY <1>0, <1>2 DEF NewNode, n
  <2>4. [T EXCEPT !.lastfree = n].node = T.node
      BY <1>0 DEF TableType
  <2>5. U = [[T EXCEPT !.lastfree = n] EXCEPT !.node = N]
      BY <2>1, <2>2, <2>3, <2>4
  <2>. HIDE DEF U, N, mp, n
  <2>6. /\ U = [array |-> T.array, node |-> N, lastfree |-> n, nested |-> T.nested]
        /\ T.array \in Seq(Val \cup {nil}) /\ T.nested \in BOOLEAN
      BY <1>0, <2>5 DEF TableType
  <2>7. N \in Seq(Node) /\ n \in Nat
      BY <1>0, <1>3
  <2>. QED
      BY <2>6, <2>7 DEF TableType

<1>5. \A q : mainposition(U, q) = mainposition(T, q)
    BY <1>3, <1>4, SamePositions
<1>6. mainposition(T, k) = mp
    OBVIOUS
<1>7. /\ U.node[n].key = k /\ ~U.node[n].dead /\ U.node[n].val = v /\ U.node[n].next = a
      /\ U.node[mp].key = T.node[mp].key /\ U.node[mp].dead = T.node[mp].dead
      /\ U.node[mp].val = T.node[mp].val /\ U.node[mp].next = n
      /\ DOMAIN U.node = D
  <2>1. U.node[n] = Entry(k, v, a) /\ U.node[mp] = [T.node[mp] EXCEPT !.next = n] /\ DOMAIN U.node = D
    <3>. HIDE DEF U, N, a, n, mp
    <3>. QED
        BY <1>3, <1>4
  <2>2. k \in Key /\ v \in Val \cup {nil} /\ a \in Nat /\ T.node[mp] \in Node /\ n \in Nat
      BY <1>0
  <2>. HIDE DEF U, a, n, mp, D
  <2>. QED
      BY <2>1, <2>2, EntryType, NextIs
<1>8. \A i \in D : i # mp /\ i # n => U.node[i] = T.node[i]
    BY <1>3, <1>4
<1>9. T.node[n].key = nil /\ T.node[n].next = 0 /\ T.node[n].val = nil /\ T.node[mp].next = a
    BY <1>0 DEF Virgin
<1>. HIDE DEF U, N, N1, N2, e1, e2, e, mp, D, n, a
<1>10. \A i \in D : T.node[i].key # nil =>
          /\ i # n /\ U.node[i].key = T.node[i].key
          /\ U.node[i].dead = T.node[i].dead /\ U.node[i].val = T.node[i].val
    BY <1>7, <1>8, <1>9
<1>11. \A i \in D : T.node[i].next # n /\ T.node[i].next \in D \cup {0}
    BY <1>0, <1>9 DEF WellFormed, Linked, D
<1>12. ASSUME NEW i \in D, NEW j \in D, Reaches(T, i, j) PROVE Reaches(U, i, j)
  <2>1. ASSUME NEW S \in SUBSET D, Closed(U, S) PROVE Closed(T, S)
    <3>1. \A x \in S : U.node[x].next \in S \cup {0}
        BY <2>1 DEF Closed
    <3>2. ASSUME NEW x \in S PROVE T.node[x].next \in S \cup {0}
      <4>1. CASE x = n
          BY <4>1, <1>9
      <4>2. CASE x = mp
        <5>1. n \in S
            BY <4>2, <3>1, <1>0, <1>7
        <5>. QED
            BY <4>2, <5>1, <3>1, <1>7, <1>9
      <4>3. CASE x # n /\ x # mp
          BY <4>3, <3>1, <1>8
      <4>. QED
          BY <4>1, <4>2, <4>3
    <3>. QED
        BY <3>2 DEF Closed
  <2>2. \A S \in SUBSET D : Closed(T, S) /\ i \in S => j \in S
      BY <1>12, ReachesIs DEF D
  <2>3. \A S \in SUBSET D : Closed(U, S) /\ i \in S => j \in S
      BY <2>1, <2>2
  <2>. QED
      BY <1>7, <2>3, ReachesIs
<1>13. Reaches(U, mp, n)
    BY <1>0, <1>7, ReachesNext
<1>14. Linked(U)
  <2>1. Linked(T)
      BY <1>0 DEF WellFormed
  <2>2. \A i \in D : U.node[i].next \in D \cup {0}
      BY <1>0, <1>7, <1>8, <1>9, <1>11
  <2>3. ASSUME NEW i \in D, U.node[i].next # 0 PROVE U.node[U.node[i].next].key # nil
    <3>1. CASE i = mp
        BY <3>1, <1>0, <1>7
    <3>2. CASE i = n
      <4>1. T.node[a].key # nil /\ a \in D
          BY <3>2, <2>1, <2>3, <1>0, <1>7, <1>9, <1>11 DEF Linked, D
      <4>. QED
          BY <3>2, <4>1, <1>7, <1>10
    <3>3. CASE i # mp /\ i # n
      <4>1. T.node[T.node[i].next].key # nil /\ T.node[i].next \in D
          BY <3>3, <2>1, <2>3, <1>8, <1>11 DEF Linked, D
      <4>. QED
          BY <3>3, <4>1, <1>8, <1>10
    <3>. QED
        BY <3>1, <3>2, <3>3
  <2>4. ASSUME NEW i \in D, U.node[i].key = nil PROVE U.node[i] = Virgin
    <3>1. i # n /\ i # mp
        BY <2>4, <1>0, <1>2, <1>7
    <3>. QED
        BY <2>4, <3>1, <1>8, <2>1 DEF Linked, D
  <2>5. ASSUME NEW i \in D, NEW j \in D, U.node[i].next = U.node[j].next
        PROVE  i = j \/ U.node[i].next = 0
    <3>1. \A x, y \in D : T.node[x].next = T.node[y].next => x = y \/ T.node[x].next = 0
        BY <2>1 DEF Linked, D
    <3>2. \A x \in D : x # mp => U.node[x].next # n
        BY <1>0, <1>7, <1>8, <1>9, <1>11
    <3>3. CASE i = mp \/ j = mp
        BY <2>5, <3>2, <3>3, <1>7
    <3>4. CASE i # mp /\ j # mp /\ (i = n \/ j = n)
        BY <2>5, <3>1, <3>4, <1>0, <1>7, <1>8, <1>9
    <3>5. CASE i # mp /\ j # mp /\ i # n /\ j # n
        BY <2>5, <3>1, <3>5, <1>8
    <3>. QED
        BY <3>3, <3>4, <3>5
  <2>6. ASSUME NEW S \in SUBSET D, S # {}, \A x \in S : U.node[x].next \in S PROVE FALSE
    <3>1. \A x \in S : x # n /\ x # mp => T.node[x].next \in S \ {n}
        BY <2>6, <1>8, <1>11
    <3>2. mp \in S => n \in S
        BY <2>6, <1>7
    <3>3. n \in S => a \in S \ {n}
        BY <2>6, <1>0, <1>7, <1>9, <1>11
    <3>4. \A x \in S \ {n} : T.node[x].next \in S \ {n}
        BY <3>1, <3>2, <3>3, <1>9
    <3>5. S \ {n} # {} /\ S \ {n} \in SUBSET D
        BY <2>6, <3>3
    <3>. QED
        BY <2>1, <3>4, <3>5 DEF Linked, D
  <2>. QED
      BY <1>7, <2>2, <2>3, <2>4, <2>5, <2>6 DEF Linked
<1>15. Homes(U)
  <2> SUFFICES ASSUME NEW i \in D, U.node[i].key # nil
               PROVE  LET m == mainposition(T, U.node[i].key) IN
                      /\ U.node[m].key # nil
                      /\ mainposition(T, U.node[m].key) = m
                      /\ Reaches(U, m, i)
      BY <1>5, <1>7 DEF Homes
  <2>1. CASE i = n
      BY <2>1, <1>2, <1>6, <1>7, <1>13
  <2>2. CASE i # n
    <3> DEFINE m == mainposition(T, T.node[i].key)
    <3>1. U.node[i].key = T.node[i].key
        BY <2>2, <1>7, <1>8
    <3>2. m \in D
      <4>1. T.node[i].key \in Key /\ T.node # <<>>
          BY <1>0, <3>1, TableFacts DEF D, Node
      <4>. QED
          BY <4>1, <1>0, MainPositionType DEF D
    <3>3. T.node[m].key # nil /\ mainposition(T, T.node[m].key) = m /\ Reaches(T, m, i)
        BY <1>0, <3>1 DEF WellFormed, Homes, D
    <3>4. Reaches(U, m, i)
        BY <3>2, <3>3, <1>12
    <3>5. U.node[m].key = T.node[m].key
        BY <3>2, <3>3, <1>10
    <3>. QED
        BY <3>1, <3>3, <3>4, <3>5
  <2>. QED
      BY <2>1, <2>2
<1>16. Keys(U)
  <2>0. Keys(T) /\ \A q : InArray(U, q) <=> InArray(T, q)
      BY <1>0, <1>4 DEF WellFormed, InArray
  <2>1. ASSUME NEW i \in D
        PROVE  /\ U.node[i].val # nil => U.node[i].key # nil /\ ~U.node[i].dead
               /\ U.node[i].dead => U.node[i].key \in collectable
               /\ ~InArray(U, U.node[i].key)
    <3>1. CASE i = n
        BY <3>1, <1>0, <1>7, <2>0
    <3>2. CASE i # n
      <4>1. U.node[i].key = T.node[i].key /\ U.node[i].dead = T.node[i].dead /\ U.node[i].val = T.node[i].val
          BY <3>2, <1>7, <1>8
      <4>. QED
          BY <4>1, <2>0 DEF Keys, D
    <3>. QED
        BY <3>1, <3>2
  <2>2. ASSUME NEW i \in D, NEW j \in D, U.node[i].key = U.node[j].key, U.node[i].key # nil, ~U.node[i].dead
        PROVE  (~U.node[j].dead => i = j) /\ Reaches(U, i, j)
    <3>1. CASE i = n /\ j = n
        BY <3>1 DEF Reaches
    <3>2. CASE i = n /\ j # n
      <4>1. T.node[j].key = k /\ T.node[j].dead /\ U.node[j].dead /\ j # mp
          BY <2>2, <3>2, <1>1, <1>2, <1>7, <1>8
      <4>2. Reaches(T, mp, j)
          BY <4>1, <1>0, <1>6 DEF WellFormed, Homes, D
      <4>3. a \in D /\ Reaches(T, a, j)
        <5>1. T.node[mp].next \in D /\ Reaches(T, T.node[mp].next, j)
            BY <4>1, <4>2, <1>0, <1>11, ReachesStep DEF D
        <5>. QED
            BY <5>1, <1>9
      <4>4. Reaches(U, a, j) /\ Reaches(U, n, a)
          BY <4>3, <1>0, <1>7, <1>12, ReachesNext
      <4>5. Reaches(U, n, j)
          BY <4>3, <4>4, <1>0, <1>7, ReachesTransitive
      <4>. QED
          BY <4>1, <4>5, <3>2
    <3>3. CASE i # n /\ j = n
        BY <3>3, <2>2, <1>1, <1>7, <1>8
    <3>4. CASE i # n /\ j # n
      <4>1. T.node[i].key = T.node[j].key /\ T.node[i].key # nil /\ ~T.node[i].dead
            /\ T.node[j].dead = U.node[j].dead
          BY <3>4, <2>2, <1>7, <1>8
      <4>2. (~T.node[j].dead => i = j) /\ Reaches(T, i, j)
          BY <4>1, <2>0 DEF Keys, D
      <4>. QED
          BY <4>1, <4>2, <1>12
    <3>. QED
        BY <3>1, <3>2, <3>3, <3>4
  <2>. QED
      BY <1>7, <2>1, <2>2 DEF Keys
<1>17. Room(U)
  <2>1. U.lastfree \in 1 .. Len(U.node) + 1
      BY <1>0, <1>3, <1>4
  <2>2. ASSUME NEW i \in D, n <= i PROVE U.node[i].key # nil
    <3>1. CASE i = n
        BY <3>1, <1>0, <1>7
    <3>2. CASE i # n
      <4>1. n < i
          BY <2>2, <3>2, <1>0
      <4>2. T.node[i].key # nil
          BY <4>1, NewFacts DEF n, D, mp
      <4>. QED
          BY <4>2, <1>10
    <3>. QED
        BY <3>1, <3>2
  <2>3. \A j \in DOMAIN U.array : j \notin Index => U.array[j] = nil
      BY <1>0, <1>4 DEF WellFormed, Room
  <2>. QED
      BY <1>4, <1>7, <2>1, <2>2, <2>3 DEF Room
<1>18. \E j \in DOMAIN U.node : Live(k, U.node[j]) /\ U.node[j].val = v
    BY <1>0, <1>7 DEF Live
<1>19. ASSUME NEW i \in D, T.node[i].val # nil PROVE Gives(U, T.node[i].key, T.node[i].val)
  <2>1. i # n
      BY <1>19, <1>9
  <2>2. U.node[i].key = T.node[i].key /\ U.node[i].val = T.node[i].val
      BY <2>1, <1>7, <1>8
  <2>. QED
      BY <2>2, <1>7 DEF Gives
<1>20. ASSUME NEW j \in D, U.node[j].key # nil
       PROVE  \/ U.node[j].key = k /\ U.node[j].val = v
              \/ Gives(T, U.node[j].key, U.node[j].val)
  <2>1. CASE j = n
      BY <2>1, <1>7
  <2>2. CASE j # n
    <3>1. U.node[j].key = T.node[j].key /\ U.node[j].val = T.node[j].val
        BY <2>2, <1>7, <1>8
    <3>. QED
        BY <3>1 DEF Gives, D
  <2>. QED
      BY <2>1, <2>2
<1>21. WellFormed(U)
    BY <1>4, <1>14, <1>15, <1>16, <1>17 DEF WellFormed
<1>22. Inserts(T, U, k, v)
    BY <1>3, <1>4, <1>7, <1>18, <1>19, <1>20, <1>21 DEF Inserts, D
<1>. QED
    BY <1>22 DEF U

\* The main position holds a key that belongs elsewhere, which moves away.
LEMMA NewMoved ==
    ASSUME NEW T, NEW k, NEW v, IsNew(T, k, v), T.node[mainposition(T, k)].val # nil,
           mainposition(T, T.node[mainposition(T, k)].key) # mainposition(T, k)
    PROVE  Inserts(T, NewNode(T, k, v), k, v)
<1> DEFINE D == DOMAIN T.node
           mp == mainposition(T, k)
           n == getfreepos(T)
           m0 == mainposition(T, T.node[mp].key)
           prev == CHOOSE p \in DOMAIN T.node : Reaches(T, m0, p) /\ T.node[p].next = mp
           e1 == [T.node[prev] EXCEPT !.next = n]
           N1 == [T.node EXCEPT ![prev] = e1]
           N2 == [N1 EXCEPT ![n] = T.node[mp]]
           N3 == [N2 EXCEPT ![mp] = Virgin]
           e == Entry(k, v, N3[mp].next)
           N == [N3 EXCEPT ![mp] = e]
           U == NewNode(T, k, v)
<1>0. /\ T \in TableType /\ T.node \in Seq(Node) /\ D = 1 .. Len(T.node) /\ mp \in D
      /\ k \in Key /\ k # nil /\ v \in Val \cup {nil} /\ WellFormed(T) /\ ~InArray(T, k)
      /\ 0 \notin D /\ n \in D /\ T.node[n] = Virgin /\ T.node[mp].val # nil
      /\ \A i \in D : T.node[i] \in Node
      /\ n \in Nat /\ Virgin \in Node /\ Virgin.next = 0
  <2>1. Virgin \in Node /\ Virgin.next = 0
      BY DEF Virgin, Node
  <2>. QED
      BY <2>1, NewFacts, KeyFacts, TableFacts DEF IsNew
<1>1. \A i \in D : T.node[i].key = k => T.node[i].dead
    BY NewFacts DEF Live
<1>2. n # mp /\ T.node[mp].key # nil /\ ~T.node[mp].dead /\ m0 # mp
    BY <1>0 DEF Virgin, WellFormed, Keys
<1>3. /\ T.node[n].key = nil /\ T.node[n].next = 0 /\ T.node[n].val = nil
    BY <1>0 DEF Virgin
<1>4. /\ \A i \in D : T.node[i].next # n /\ T.node[i].next \in D \cup {0}
      /\ Linked(T)
    BY <1>0, <1>3 DEF WellFormed, Linked
<1>5. /\ m0 \in D /\ T.node[m0].key # nil /\ mainposition(T, T.node[m0].key) = m0
      /\ Reaches(T, m0, mp)
  <2>1. T.node[mp].key \in Key /\ T.node # <<>>
      BY <1>0, <1>2, TableFacts DEF Node
  <2>2. m0 \in D
      BY <2>1, <1>0, MainPositionType
  <2>. QED
      BY <2>2, <1>0, <1>2 DEF WellFormed, Homes
<1>6. prev \in D /\ T.node[prev].next = mp /\ prev # mp /\ prev # n
  <2>1. \E p \in D : Reaches(T, m0, p) /\ T.node[p].next = mp
    <3>1. 0 \notin DOMAIN T.node /\ m0 \in DOMAIN T.node /\ mp \in DOMAIN T.node /\ m0 # mp
        BY <1>0, <1>2, <1>5
    <3>2. \A a \in DOMAIN T.node : T.node[a].next \in DOMAIN T.node \cup {0}
        BY <1>4
    <3>3. Reaches(T, m0, mp)
        BY <1>5
    <3>. HIDE DEF m0, mp, n
    <3>. QED
        BY <3>1, <3>2, <3>3, Predecessor
  <2>2. prev \in D /\ T.node[prev].next = mp
    <3>. HIDE DEF m0, mp
    <3>. QED
        BY <2>1
  <2>3. prev # mp
    <3>1. SUFFICES ASSUME prev = mp PROVE FALSE
        OBVIOUS
    <3>2. {mp} \in SUBSET DOMAIN T.node /\ {mp} # {} /\ \A a \in {mp} : T.node[a].next \in {mp}
        BY <2>2, <3>1
    <3>. QED
        BY <1>4, <3>2 DEF Linked
  <2>. QED
      BY <2>2, <2>3, <1>0, <1>3
<1>. HIDE DEF prev, m0
<1>7. /\ N \in Seq(Node) /\ Len(N) = Len(T.node) /\ DOMAIN N = D
      /\ N[mp] = Entry(k, v, 0) /\ N[n] = T.node[mp] /\ N[prev] = [T.node[prev] EXCEPT !.next = n]
      /\ \A i \in D : i # mp /\ i # n /\ i # prev => N[i] = T.node[i]
  <2>1. e1 \in Node
    <3>. HIDE DEF n
    <3>. QED
        BY <1>0, <1>6, NextIs
  <2>2. /\ N1 \in Seq(Node) /\ Len(N1) = Len(T.node) /\ N1[prev] = e1
        /\ \A i \in D : i # prev => N1[i] = T.node[i]
    <3>. HIDE DEF e1, n
    <3>. QED
        BY <1>0, <1>6, <2>1, SeqUpdate
  <2>3. /\ N2 \in Seq(Node) /\ Len(N2) = Len(T.node) /\ N2[n] = T.node[mp] /\ N2[prev] = e1
        /\ \A i \in D : i # prev /\ i # n => N2[i] = T.node[i]
    <3>. HIDE DEF e1, n, N1, mp
    <3>. QED
        BY <1>0, <1>6, <2>2, SeqUpdate
  <2>4. /\ N3 \in Seq(Node) /\ Len(N3) = Len(T.node) /\ N3[n] = T.node[mp] /\ N3[prev] = e1
        /\ N3[mp] = Virgin
        /\ \A i \in D : i # prev /\ i # n /\ i # mp => N3[i] = T.node[i]
    <3>. HIDE DEF e1, n, N2, mp
    <3>. QED
        BY <1>0, <1>2, <1>6, <2>3, SeqUpdate
  <2>5. e = Entry(k, v, 0) /\ e \in Node
    <3>1. e = Entry(k, v, 0)
      <4>. HIDE DEF N3, mp
      <4>. QED
          BY <1>0, <2>4
    <3>2. k \in Key /\ v \in Val \cup {nil}
        BY <1>0
    <3>3. Entry(k, v, 0) \in Node
        BY <3>2, EntryType
    <3>. HIDE DEF e
    <3>. QED
        BY <3>1, <3>3
  <2>6. /\ N \in Seq(Node) /\ Len(N) = Len(T.node) /\ DOMAIN N = D
        /\ N[mp] = e /\ N[n] = T.node[mp] /\ N[prev] = e1
        /\ \A i \in D : i # mp /\ i # n /\ i # prev => N[i] = T.node[i]
    <3>. HIDE DEF e, e1, n, N3, mp
    <3>. QED
        BY <1>0, <1>2, <1>6, <2>4, <2>5, SeqUpdate
  <2>. HIDE DEF N, e, n, mp
  <2>. QED
      BY <2>5, <2>6
<1>8. /\ U \in TableType /\ U.array = T.array /\ U.node = N
      /\ U.lastfree = n /\ U.nested = T.nested
  <2>1. Moved(T, mp, n) = N3
      BY DEF Moved, prev, m0
  <2>2. Filled(N3, mp, k, v) = N
      BY DEF Filled, Entry
  <2>3. U = [[T EXCEPT !.lastfree = n] EXCEPT !.node = Filled(Moved(T, mp, n), mp, k, v)]
    <3>. HIDE DEF n
    <3>. QED
        BY <1>0, <1>2 DEF NewNode, n, m0
  <2>4. U = [[T EXCEPT !.lastfree = n] EXCEPT !.node = N]
      BY <2>1, <2>2, <2>3
  <2>. HIDE DEF U, N, mp, n
  <2>. QED
      BY <1>0, <1>7, <2>4 DEF TableType
<1>9. \A q : mainposition(U, q) = mainposition(T, q)
    BY <1>7, <1>8, SamePositions
<1>10. mainposition(T, k) = mp
    OBVIOUS
<1>11. /\ U.node[mp].key = k /\ ~U.node[mp].dead /\ U.node[mp].val = v /\ U.node[mp].next = 0
       /\ U.node[n] = T.node[mp]
       /\ U.node[prev].key = T.node[prev].key /\ U.node[prev].dead = T.node[prev].dead
       /\ U.node[prev].val = T.node[prev].val /\ U.node[prev].next = n
       /\ DOMAIN U.node = D
  <2>1. /\ U.node[mp] = Entry(k, v, 0) /\ U.node[prev] = [T.node[prev] EXCEPT !.next = n]
        /\ U.node[n] = T.node[mp] /\ DOMAIN U.node = D
    <3>. HIDE DEF U, N, n, mp
    <3>. QED
        BY <1>7, <1>8
  <2>2. k \in Key /\ v \in Val \cup {nil} /\ T.node[prev] \in Node /\ n \in Nat
      BY <1>0, <1>6
  <2>. HIDE DEF U, n, mp, D
  <2>. QED
      BY <2>1, <2>2, EntryType, NextIs
<1>12. \A i \in D : i # mp /\ i # n /\ i # prev => U.node[i] = T.node[i]
    BY <1>7, <1>8
<1>. HIDE DEF U, N, N1, N2, N3, e1, e, mp, D, n

\* node i of T, in U
<1> DEFINE r(i) == IF i = mp THEN n ELSE i
<1>13. ASSUME NEW i \in D, NEW j \in D, Reaches(T, i, j) PROVE Reaches(U, r(i), r(j))
  <2>1. ASSUME NEW S \in SUBSET D, Closed(U, S), r(i) \in S PROVE r(j) \in S
    <3> DEFINE W == {x \in D : (x = mp /\ n \in S) \/ (x # mp /\ x \in S)}
    <3>1. \A x \in S : U.node[x].next \in S \cup {0}
        BY <2>1 DEF Closed
    <3>2. ASSUME NEW x \in W PROVE T.node[x].next \in W \cup {0}
      <4>1. CASE x = mp
        <5>1. T.node[mp].next \in S \cup {0} /\ T.node[mp].next # mp
          <6>1. n \in S
              BY <4>1
          <6>2. T.node[mp].next # mp
              BY <1>0, <1>4, <1>6 DEF Linked, D
          <6>. QED
              BY <6>1, <6>2, <3>1, <1>11
        <5>. QED
            BY <4>1, <5>1
      <4>2. CASE x = prev
        <5>1. n \in S
            BY <4>2, <3>1, <1>0, <1>6, <1>11
        <5>. QED
            BY <4>2, <5>1, <1>0, <1>6
      <4>3. CASE x = n
          BY <4>3, <1>3
      <4>4. CASE x # mp /\ x # n /\ x # prev
        <5>1. T.node[x].next # mp
            BY <4>4, <1>0, <1>4, <1>6 DEF Linked, D
        <5>. QED
            BY <4>4, <5>1, <3>1, <1>12
      <4>. QED
          BY <4>1, <4>2, <4>3, <4>4
    <3>3. Closed(T, W) /\ W \in SUBSET D
        BY <3>2 DEF Closed
    <3>4. i \in W
        BY <2>1
    <3>5. j \in W
      <4>. HIDE DEF W
      <4>. QED
          BY <1>13, <3>3, <3>4, ReachesIs DEF D
    <3>. QED
        BY <3>5
  <2>2. r(i) \in D /\ r(j) \in D
      BY <1>0
  <2>. HIDE DEF r
  <2>. QED
      BY <2>1, <2>2, <1>11, ReachesIs
<1>14. /\ \A i, j \in D : Reaches(T, i, j) /\ i # mp /\ j # mp => Reaches(U, i, j)
       /\ \A i \in D : Reaches(T, i, mp) /\ i # mp => Reaches(U, i, n)
       /\ \A j \in D : Reaches(T, mp, j) /\ j # mp => Reaches(U, n, j)
    BY <1>0, <1>13
<1>. HIDE DEF r
\* node i of U, but mp, in T
<1> DEFINE o(i) == IF i = n THEN mp ELSE i
<1>15. \A i \in D : i # mp =>
          /\ o(i) \in D
          /\ U.node[i].key = T.node[o(i)].key /\ U.node[i].dead = T.node[o(i)].dead
          /\ U.node[i].val = T.node[o(i)].val
    BY <1>0, <1>11, <1>12
<1>16. \A i \in D : T.node[i].key # nil => U.node[i].key # nil
    BY <1>0, <1>2, <1>11, <1>12
<1>17. Linked(U)
  <2>1. \A i \in D : U.node[i].next \in D \cup {0}
      BY <1>0, <1>4, <1>11, <1>12
  <2>2. ASSUME NEW i \in D, U.node[i].next # 0 PROVE U.node[U.node[i].next].key # nil
    <3>1. \A x \in D : T.node[x].next # 0 => T.node[T.node[x].next].key # nil
        BY <1>4 DEF Linked, D
    <3>2. CASE i = mp
        BY <2>2, <3>2, <1>11
    <3>3. CASE i = prev
        BY <3>3, <1>2, <1>11
    <3>4. CASE i = n
        BY <2>2, <3>1, <3>4, <1>0, <1>4, <1>11, <1>16
    <3>5. CASE i # mp /\ i # n /\ i # prev
        BY <2>2, <3>1, <3>5, <1>0, <1>4, <1>12, <1>16
    <3>. QED
        BY <3>2, <3>3, <3>4, <3>5
  <2>3. ASSUME NEW i \in D, U.node[i].key = nil PROVE U.node[i] = Virgin
    <3>1. T.node[prev].key # nil
        BY <1>0, <1>4, <1>6 DEF Linked, D, Virgin
    <3>2. i # n /\ i # mp /\ i # prev
        BY <2>3, <3>1, <1>0, <1>2, <1>11
    <3>. QED
        BY <2>3, <3>2, <1>4, <1>12 DEF Linked, D
  <2>4. ASSUME NEW i \in D, NEW j \in D, U.node[i].next = U.node[j].next
        PROVE  i = j \/ U.node[i].next = 0
    <3>1. \A x, y \in D : T.node[x].next = T.node[y].next => x = y \/ T.node[x].next = 0
        BY <1>4 DEF Linked, D
    <3>2. \A x \in D : x # prev => U.node[x].next # n
        BY <1>0, <1>4, <1>11, <1>12
    <3>3. CASE i = prev \/ j = prev
        BY <2>4, <3>2, <3>3, <1>11
    <3>4. CASE i = mp \/ j = mp
        BY <2>4, <3>4, <1>11
    <3>5. CASE i # prev /\ j # prev /\ i # mp /\ j # mp /\ (i = n \/ j = n)
        BY <2>4, <3>1, <3>5, <1>0, <1>11, <1>12
    <3>6. CASE i # prev /\ j # prev /\ i # mp /\ j # mp /\ i # n /\ j # n
        BY <2>4, <3>1, <3>6, <1>12
    <3>. QED
        BY <3>3, <3>4, <3>5, <3>6
  <2>5. ASSUME NEW S \in SUBSET D, S # {}, \A x \in S : U.node[x].next \in S PROVE FALSE
    <3> DEFINE W == {x \in D : (x = mp /\ n \in S) \/ (x # n /\ x \in S)}
    <3>0. mp \notin S
        BY <2>5, <1>0, <1>11
    <3>1. ASSUME NEW x \in W PROVE T.node[x].next \in W
      <4>1. CASE x = mp
          BY <4>1, <3>0, <2>5, <1>0, <1>4, <1>11
      <4>2. CASE x = prev
          BY <4>2, <2>5, <1>0, <1>6, <1>11
      <4>3. CASE x # mp /\ x # prev
          BY <4>3, <2>5, <1>0, <1>4, <1>12
      <4>. QED
          BY <4>1, <4>2, <4>3
    <3>2. W # {} /\ W \in SUBSET D
      <4>1. PICK x \in S : TRUE
          BY <2>5
      <4>2. x = n => mp \in W
          BY <4>1, <1>0
      <4>3. x # n => x \in W
          BY <4>1, <2>5
      <4>. QED
          BY <4>2, <4>3
    <3>. HIDE DEF W
    <3>. QED
        BY <3>1, <3>2, <1>4 DEF Linked, D
  <2>. QED
      BY <1>11, <2>1, <2>2, <2>3, <2>4, <2>5 DEF Linked
<1>18. Homes(U)
  <2> SUFFICES ASSUME NEW i \in D, U.node[i].key # nil
               PROVE  LET m == mainposition(T, U.node[i].key) IN
                      /\ U.node[m].key # nil
                      /\ mainposition(T, U.node[m].key) = m
                      /\ Reaches(U, m, i)
      BY <1>9, <1>11 DEF Homes
  <2>1. CASE i = mp
      BY <2>1, <1>0, <1>10, <1>11 DEF Reaches
  <2>2. CASE i # mp
    <3> DEFINE m == mainposition(T, T.node[o(i)].key)
    <3>1. U.node[i].key = T.node[o(i)].key /\ o(i) \in D
        BY <2>2, <1>15
    <3>2. m \in D
      <4>1. T.node[o(i)].key \in Key /\ T.node # <<>>
        <5>. HIDE DEF o
        <5>. QED
            BY <1>0, <3>1, TableFacts DEF D, Node
      <4>. HIDE DEF o
      <4>. QED
          BY <4>1, <1>0, MainPositionType DEF D
    <3>3. T.node[m].key # nil /\ mainposition(T, T.node[m].key) = m /\ Reaches(T, m, o(i))
      <4>. HIDE DEF o
      <4>. QED
          BY <1>0, <3>1 DEF WellFormed, Homes, D
    <3>4. m # mp /\ m # n
      <4>. HIDE DEF m
      <4>. QED
          BY <3>3, <1>2, <1>3 DEF m0
    <3>5. U.node[m].key = T.node[m].key
      <4>. HIDE DEF m, o
      <4>. QED
          BY <3>2, <3>4, <1>11, <1>12
    <3>6. Reaches(U, m, i)
      <4>. HIDE DEF m
      <4>. QED
          BY <2>2, <3>2, <3>3, <3>4, <1>0, <1>14
    <3>. HIDE DEF m, o
    <3>. QED
        BY <3>1, <3>3, <3>5, <3>6 DEF m
  <2>. QED
      BY <2>1, <2>2
<1>19. Keys(U)
  <2>0. Keys(T) /\ \A q : InArray(U, q) <=> InArray(T, q)
      BY <1>0, <1>8 DEF WellFormed, InArray
  <2>1. ASSUME NEW i \in D
        PROVE  /\ U.node[i].val # nil => U.node[i].key # nil /\ ~U.node[i].dead
               /\ U.node[i].dead => U.node[i].key \in collectable
               /\ ~InArray(U, U.node[i].key)
    <3>1. CASE i = mp
        BY <3>1, <1>0, <1>11, <2>0
    <3>2. CASE i # mp
      <4>. HIDE DEF o
      <4>. QED
          BY <3>2, <1>15, <2>0 DEF Keys, D
    <3>. QED
        BY <3>1, <3>2
  <2>2. ASSUME NEW j \in D PROVE T.node[j].key # k
    <3>1. SUFFICES ASSUME T.node[j].key = k PROVE FALSE
        OBVIOUS
    <3>2. mainposition(T, T.node[mp].key) = mp
        BY <3>1, <1>0, <1>10 DEF WellFormed, Homes, D
    <3>. QED
        BY <3>2, <1>2 DEF m0
  <2>3. ASSUME NEW i \in D, NEW j \in D, U.node[i].key = U.node[j].key, U.node[i].key # nil, ~U.node[i].dead
        PROVE  (~U.node[j].dead => i = j) /\ Reaches(U, i, j)
    <3>1. CASE i = mp /\ j = mp
        BY <3>1 DEF Reaches
    <3>2. CASE (i = mp) # (j = mp)
      <4>. HIDE DEF o
      <4>. QED
          BY <3>2, <2>2, <2>3, <1>11, <1>15
    <3>3. CASE i # mp /\ j # mp
      <4>1. /\ T.node[o(i)].key = T.node[o(j)].key /\ T.node[o(i)].key # nil /\ ~T.node[o(i)].dead
            /\ T.node[o(j)].dead = U.node[j].dead /\ o(i) \in D /\ o(j) \in D
        <5>. HIDE DEF o
        <5>. QED
            BY <3>3, <2>3, <1>15
      <4>2. (~T.node[o(j)].dead => o(i) = o(j)) /\ Reaches(T, o(i), o(j))
        <5>. HIDE DEF o
        <5>. QED
            BY <4>1, <2>0 DEF Keys, D
      <4>3. ~U.node[j].dead => i = j
          BY <4>1, <4>2, <3>3
      <4>4. Reaches(U, i, j)
        <5>1. CASE i = n /\ j = n
            BY <5>1 DEF Reaches
        <5>2. CASE i = n /\ j # n
            BY <5>2, <4>2, <3>3, <1>14
        <5>3. CASE i # n /\ j = n
            BY <5>3, <4>2, <3>3, <1>14
        <5>4. CASE i # n /\ j # n
            BY <5>4, <4>2, <3>3, <1>14
        <5>. QED
            BY <5>1, <5>2, <5>3, <5>4
      <4>. QED
          BY <4>3, <4>4
    <3>. QED
        BY <3>1, <3>2, <3>3
  <2>. QED
      BY <1>11, <2>1, <2>3 DEF Keys
<1>20. Room(U)
  <2>1. U.lastfree \in 1 .. Len(U.node) + 1
      BY <1>0, <1>7, <1>8
  <2>2. ASSUME NEW i \in D, n <= i PROVE U.node[i].key # nil
    <3>1. CASE i = n
        BY <3>1, <1>2, <1>11
    <3>2. CASE i # n
      <4>1. n < i
          BY <2>2, <3>2, <1>0
      <4>2. T.node[i].key # nil
          BY <4>1, <1>0, NewFacts DEF n, D, mp
      <4>. QED
          BY <4>2, <1>16
    <3>. QED
        BY <3>1, <3>2
  <2>3. \A j \in DOMAIN U.array : j \notin Index => U.array[j] = nil
      BY <1>0, <1>8 DEF WellFormed, Room
  <2>. QED
      BY <1>8, <1>11, <2>1, <2>2, <2>3 DEF Room
<1>21. \E j \in DOMAIN U.node : Live(k, U.node[j]) /\ U.node[j].val = v
    BY <1>0, <1>11 DEF Live
<1>22. ASSUME NEW i \in D, T.node[i].val # nil PROVE Gives(U, T.node[i].key, T.node[i].val)
  <2>1. CASE i = mp
      BY <2>1, <1>0, <1>11 DEF Gives
  <2>2. CASE i # mp
    <3>1. i # n
        BY <1>3, <1>22
    <3>2. U.node[i].key = T.node[i].key /\ U.node[i].val = T.node[i].val
        BY <2>2, <3>1, <1>11, <1>12
    <3>. QED
        BY <3>2, <1>11 DEF Gives
  <2>. QED
      BY <2>1, <2>2
<1>23. ASSUME NEW j \in D, U.node[j].key # nil
       PROVE  \/ U.node[j].key = k /\ U.node[j].val = v
              \/ Gives(T, U.node[j].key, U.node[j].val)
  <2>1. CASE j = mp
      BY <2>1, <1>11
  <2>2. CASE j # mp
    <3>. HIDE DEF o
    <3>. QED
        BY <2>2, <1>15 DEF Gives, D
  <2>. QED
      BY <2>1, <2>2
<1>24. WellFormed(U)
    BY <1>8, <1>17, <1>18, <1>19, <1>20 DEF WellFormed
<1>25. Inserts(T, U, k, v)
    BY <1>7, <1>8, <1>11, <1>21, <1>22, <1>23, <1>24 DEF Inserts, D
<1>. QED
    BY <1>25 DEF U

LEMMA NewNodeInserts ==
    ASSUME NEW T, NEW k, NEW v, IsNew(T, k, v)
    PROVE  Inserts(T, NewNode(T, k, v), k, v)
BY NewAtHome, NewBehind, NewMoved

\* luaH_set without a rehash.
LEMMA PutStores ==
    ASSUME NEW T, WellFormed(T), NEW k \in Key, NEW v \in Val \cup {nil},
           InArray(T, k) \/ Find(T, k) # 0 \/ ~IsFull(T, k)
    PROVE  Stores(T, Put(T, k, v), k, v)
<1>1. CASE InArray(T, k)
    BY <1>1, PutArray
<1>2. CASE ~InArray(T, k) /\ Find(T, k) # 0
    BY <1>2, PutNode
<1>3. CASE ~InArray(T, k) /\ Find(T, k) = 0
  <2>1. IsNew(T, k, v)
      BY <1>3 DEF IsNew
  <2>2. Put(T, k, v) = NewNode(T, k, v)
      BY <1>3 DEF Put
  <2>. QED
      BY <2>1, <2>2, NewNodeInserts, InsertsStores
<1>. QED
    BY <1>1, <1>2, <1>3

----------------------------------------------------------------------------
(* The loops of resize.                                                    *)

Stepped(X, e) == IF e[2] = nil THEN X ELSE Put(X, e[1], e[2])

\* f[n] is the table after the first n elements.
Runs(f, U, es) ==
    f = [n \in 0 .. Len(es) |-> IF n = 0 THEN U ELSE Stepped(f[n - 1], es[n])]

LEMMA ReinsertingRuns ==
    ASSUME NEW U, NEW es, Len(es) \in Nat
    PROVE  \E f : Runs(f, U, es) /\ Reinserting(U, es) = f[Len(es)]
<1> DEFINE Good(g, N) == \A n \in 0 .. N : g[n] = IF n = 0 THEN U ELSE Stepped(g[n - 1], es[n])
           P == {N \in Nat : \E g : Good(g, N)}
<1>1. 0 \in P
  <2>1. Good([n \in {0} |-> U], 0)
      OBVIOUS
  <2>. QED
      BY <2>1
<1>2. ASSUME NEW N \in Nat, N \in P PROVE N + 1 \in P
  <2>1. PICK g : Good(g, N)
      BY <1>2
  <2> DEFINE h == [n \in 0 .. N + 1 |-> IF n = N + 1 THEN Stepped(g[N], es[N + 1]) ELSE g[n]]
  <2>2. \A n \in 0 .. N : h[n] = g[n]
      OBVIOUS
  <2>3. h[N + 1] = Stepped(g[N], es[N + 1])
      OBVIOUS
  <2>4. ASSUME NEW n \in 0 .. N + 1
        PROVE  h[n] = IF n = 0 THEN U ELSE Stepped(h[n - 1], es[n])
    <3>. HIDE DEF h
    <3>1. CASE n = N + 1
        BY <2>2, <2>3, <3>1
    <3>2. CASE n \in 0 .. N
      <4>1. h[n] = g[n] /\ (n # 0 => h[n - 1] = g[n - 1])
          BY <3>2, <2>2
      <4>. QED
          BY <3>2, <4>1, <2>1
    <3>. QED
        BY <3>1, <3>2
  <2>. HIDE DEF h
  <2>5. Good(h, N + 1)
      BY <2>4
  <2>. QED
      BY <2>5
<1>3. Len(es) \in P
  <2>. HIDE DEF P
  <2>. QED
      BY <1>1, <1>2, SetInduction
<1>4. PICK g : Good(g, Len(es))
    BY <1>3
<1> DEFINE f == [n \in 0 .. Len(es) |-> g[n]]
<1>5. Runs(f, U, es)
  <2>1. ASSUME NEW n \in 0 .. Len(es)
        PROVE  f[n] = IF n = 0 THEN U ELSE Stepped(f[n - 1], es[n])
    <3>1. f[n] = g[n] /\ (n # 0 => f[n - 1] = g[n - 1])
        OBVIOUS
    <3>. HIDE DEF f
    <3>. QED
        BY <3>1, <1>4
  <2>2. f = [n \in 0 .. Len(es) |-> f[n]]
      OBVIOUS
  <2>. HIDE DEF f
  <2>. QED
      BY <2>1, <2>2 DEF Runs
<1> DEFINE c == CHOOSE x : Runs(x, U, es)
<1>6. Runs(c, U, es)
  <2>. HIDE DEF f
  <2>. QED
      BY <1>5
<1>7. Reinserting(U, es) = c[Len(es)]
    BY DEF Reinserting, Runs, Stepped
<1>. HIDE DEF c
<1>. QED
    BY <1>6, <1>7

----------------------------------------------------------------------------
(* There is room for what a rehash counted.                                *)

\* Every key in the nodes has a value.
Dense(A) == \A i \in DOMAIN A.node : A.node[i].key # nil => A.node[i].val # nil

\* The nodes have no keys but those in K.
KeysIn(A, K) == \A i \in DOMAIN A.node : A.node[i].key # nil => A.node[i].key \in K

LEMMA HasRoom ==
    ASSUME NEW A, WellFormed(A), Dense(A), NEW K, IsFiniteSet(K), Cardinality(K) <= Len(A.node),
           KeysIn(A, K), NEW q \in Key, q \in K, Find(A, q) = 0
    PROVE  ~IsFull(A, q)
<1> DEFINE f == [i \in DOMAIN A.node |-> A.node[i].key]
           R == K \ {q}
<1>0. A \in TableType /\ DOMAIN A.node = 1 .. Len(A.node) /\ Len(A.node) \in Nat
    BY TableFacts DEF WellFormed
<1>1. IsFiniteSet(R) /\ Cardinality(R) = Cardinality(K) - 1
    BY FS_RemoveElement
<1>2. Cardinality(R) \in Nat /\ Cardinality(K) \in Nat
    BY <1>1, FS_CardinalityType
<1>3. IsFiniteSet(DOMAIN A.node) /\ Cardinality(DOMAIN A.node) = Len(A.node)
    BY <1>0, FS_Interval
<1>4. A.node # <<>>
    BY <1>0, <1>1, <1>2, TableFacts
<1>5. ASSUME getfreepos(A) = 0 PROVE FALSE
  <2>1. \A i \in DOMAIN A.node : A.node[i].key # nil
      BY <1>5, FreePos
  <2>2. \A i \in DOMAIN A.node : ~A.node[i].dead
      BY <2>1 DEF Dense, WellFormed, Keys
  <2>3. \A i \in DOMAIN A.node : A.node[i].key \in R
      BY <2>1, <2>2, FindNone DEF KeysIn, Live
  <2>4. f \in [DOMAIN A.node -> R]
      BY <2>3
  <2>5. \A x, y \in DOMAIN A.node : A.node[x].key = A.node[y].key => x = y
      BY <2>1, <2>2 DEF WellFormed, Keys
  <2>6. Cardinality(R) < Cardinality(DOMAIN A.node)
      BY <1>1, <1>2, <1>3
  <2>7. \E x, y \in DOMAIN A.node : x # y /\ f[x] = f[y]
    <3>. HIDE DEF f, R
    <3>. QED
        BY <1>1, <1>3, <2>4, <2>6, FS_PigeonHole
  <2>. QED
      BY <2>5, <2>7
<1>. QED
    BY <1>4, <1>5 DEF IsFull

\* The assignment of a value leaves the nodes without empty fields.
LEMMA PutDense ==
    ASSUME NEW A, WellFormed(A), Dense(A), NEW K, KeysIn(A, K),
           NEW k \in Key, NEW v \in Val, InArray(A, k) \/ Find(A, k) # 0 \/ ~IsFull(A, k),
           InArray(A, k) \/ k \in K
    PROVE  Dense(Put(A, k, v)) /\ KeysIn(Put(A, k, v), K)
<1>0. v # nil /\ v \in Val \cup {nil}
    BY KeyFacts
<1>1. CASE InArray(A, k)
  <2>1. Put(A, k, v).node = A.node
      BY <1>0, <1>1, PutArray
  <2>. QED
      BY <2>1 DEF Dense, KeysIn
<1>2. CASE ~InArray(A, k) /\ Find(A, k) # 0
  <2>1. Find(A, k) \in DOMAIN A.node
      BY <1>2, FindFacts
  <2>2. A \in TableType /\ A.node \in Seq(Node)
      BY DEF WellFormed, TableType
  <2>3. Put(A, k, v).node = [A.node EXCEPT ![Find(A, k)].val = v]
      BY <1>2, <2>2 DEF Put, TableType
  <2>4. \A i \in DOMAIN A.node : A.node[i] \in Node
      BY <2>2, TableFacts
  <2>5. \A i \in DOMAIN A.node :
            /\ Put(A, k, v).node[i].key = A.node[i].key
            /\ Put(A, k, v).node[i].val = IF i = Find(A, k) THEN v ELSE A.node[i].val
      BY <2>1, <2>3, <2>4 DEF Node
  <2>6. DOMAIN Put(A, k, v).node = DOMAIN A.node
      BY <2>3
  <2>. QED
      BY <1>0, <2>5, <2>6 DEF Dense, KeysIn
<1>3. CASE ~InArray(A, k) /\ Find(A, k) = 0
  <2>1. IsNew(A, k, v)
      BY <1>0, <1>3 DEF IsNew
  <2>2. Put(A, k, v) = NewNode(A, k, v)
      BY <1>3 DEF Put
  <2>3. Inserts(A, Put(A, k, v), k, v)
      BY <2>1, <2>2, NewNodeInserts
  <2> DEFINE U == Put(A, k, v)
  <2>4. ASSUME NEW j \in DOMAIN U.node, U.node[j].key # nil
        PROVE  U.node[j].val # nil /\ U.node[j].key \in K
    <3>1. CASE U.node[j].key = k /\ U.node[j].val = v
        BY <1>0, <1>3, <3>1
    <3>2. CASE Gives(A, U.node[j].key, U.node[j].val)
        BY <2>4, <3>2 DEF Gives, Dense, KeysIn
    <3>. QED
        BY <2>3, <2>4, <3>1, <3>2 DEF Inserts
  <2>. QED
      BY <2>4 DEF Dense, KeysIn
<1>. QED
    BY <1>1, <1>2, <1>3

----------------------------------------------------------------------------
(* A resize moves the values, and all of them.                             *)

\* The slot of q is left where it is.
Kept(T, nasize, q) == InArray(T, q) /\ q <= nasize

\* U has the sizes asked for, the slots that are left where they are, and
\* empty nodes.
Empties(T, U, nasize, size) ==
    /\ WellFormed(U) /\ U.nested = T.nested
    /\ Len(U.node) = size /\ Len(U.array) = nasize
    /\ Dense(U) /\ \A K : KeysIn(U, K)
    /\ \A q \in Key : luaH_get(U, q) = IF Kept(T, nasize, q) THEN T.array[q] ELSE nil

LEMMA ResizedIs ==
    ASSUME NEW T, WellFormed(T), NEW nasize \in Nat, NEW size \in Nat
    PROVE  Empties(T, Resized(T, nasize, size), nasize, size)
<1> DEFINE U == Resized(T, nasize, size)
           a == [i \in 1 .. nasize |-> IF i <= Len(T.array) THEN T.array[i] ELSE nil]
           n == [i \in 1 .. size |-> Virgin]
<1>0. /\ T \in TableType /\ Len(T.array) \in Nat /\ DOMAIN T.array = 1 .. Len(T.array)
      /\ \A j \in DOMAIN T.array : T.array[j] \in Val \cup {nil}
    BY TableFacts DEF WellFormed
<1>1. U.array = a /\ U.node = n /\ U.lastfree = size + 1 /\ U.nested = T.nested
      /\ U = [array |-> a, node |-> n, lastfree |-> size + 1, nested |-> T.nested]
  <2>1. U = [T EXCEPT !.array = a, !.node = n, !.lastfree = size + 1]
    <3>1. T = [array |-> T.array, node |-> T.node, lastfree |-> T.lastfree, nested |-> T.nested]
        BY <1>0 DEF TableType
    <3>. QED
        BY <3>1 DEF Resized
  <2>. HIDE DEF a, n, U
  <2>. QED
      BY <1>0, <2>1 DEF TableType
<1>2. a \in [1 .. nasize -> Val \cup {nil}]
    BY <1>0
<1>3. Virgin \in Node /\ Virgin.key = nil /\ Virgin.val = nil /\ Virgin.next = 0 /\ ~Virgin.dead
    BY DEF Virgin, Node
<1>4. n \in [1 .. size -> Node]
    BY <1>3
<1>5. a \in Seq(Val \cup {nil}) /\ Len(a) = nasize /\ DOMAIN a = 1 .. nasize
  <2>. HIDE DEF a
  <2>. QED
      BY <1>2, SeqIs
<1>6. n \in Seq(Node) /\ Len(n) = size /\ DOMAIN n = 1 .. size
  <2>. HIDE DEF n
  <2>. QED
      BY <1>4, SeqIs
<1>7. \A i \in DOMAIN U.node : U.node[i] = Virgin
    BY <1>1
<1>8. U \in TableType
  <2>1. T.nested \in BOOLEAN /\ size + 1 \in Nat
      BY <1>0 DEF TableType
  <2>. HIDE DEF a, n, U
  <2>. QED
      BY <1>1, <1>5, <1>6, <2>1 DEF TableType
<1>. HIDE DEF a, n, U
<1>9. DOMAIN U.node = 1 .. size /\ 0 \notin DOMAIN U.node /\ DOMAIN U.array = 1 .. nasize
    BY <1>1, <1>5, <1>6
<1>10. Linked(U)
  <2>1. \A S \in SUBSET DOMAIN U.node : S # {} => \E i \in S : U.node[i].next \notin S
    <3>1. \A i \in DOMAIN U.node : U.node[i].next = 0
        BY <1>3, <1>7
    <3>. QED
        BY <3>1, <1>9
  <2>. QED
      BY <1>3, <1>7, <2>1 DEF Linked
<1>11. Homes(U)
    BY <1>3, <1>7 DEF Homes
<1>12. Keys(U)
    BY <1>3, <1>7, KeyFacts DEF Keys, InArray, Key
<1>13. Room(U)
  <2>1. U.lastfree \in 1 .. Len(U.node) + 1
      BY <1>1, <1>6
  <2>2. \A i \in DOMAIN U.node : ~(U.lastfree <= i)
      BY <1>1, <1>9
  <2>3. ASSUME NEW j \in DOMAIN U.array, j \notin Index PROVE U.array[j] = nil
    <3>1. U.array[j] = IF j <= Len(T.array) THEN T.array[j] ELSE nil
        BY <1>1, <1>9 DEF a
    <3>2. j <= Len(T.array) => j \in DOMAIN T.array
        BY <1>0, <1>9
    <3>. QED
        BY <2>3, <3>1, <3>2 DEF WellFormed, Room
  <2>. QED
      BY <2>1, <2>2, <2>3 DEF Room
<1>14. WellFormed(U)
    BY <1>8, <1>10, <1>11, <1>12, <1>13 DEF WellFormed
<1>15. Dense(U) /\ \A K : KeysIn(U, K)
    BY <1>3, <1>7 DEF Dense, KeysIn
<1>16. Len(U.node) = size /\ Len(U.array) = nasize
    BY <1>1, <1>5, <1>6
<1>17. ASSUME NEW q \in Key
       PROVE  luaH_get(U, q) = IF Kept(T, nasize, q) THEN T.array[q] ELSE nil
  <2>1. CASE InArray(U, q)
    <3>1. luaH_get(U, q) = U.array[q] /\ q \in DOMAIN U.array /\ q \in Index
        BY <1>9, <1>14, <1>16, <2>1, GetIs, KeyFacts DEF InArray
    <3>2. U.array[q] = IF q <= Len(T.array) THEN T.array[q] ELSE nil
        BY <1>1, <1>9, <3>1 DEF a
    <3>. QED
        BY <1>16, <2>1, <3>1, <3>2 DEF InArray, Kept
  <2>2. CASE ~InArray(U, q)
    <3>1. \A i \in DOMAIN U.node : ~Live(q, U.node[i])
        BY <1>3, <1>7, KeyFacts DEF Live
    <3>2. luaH_get(U, q) = nil
        BY <1>14, <2>2, <3>1, GetIs
    <3>3. ~Kept(T, nasize, q)
        BY <1>16, <2>2 DEF InArray, Kept
    <3>. QED
        BY <3>2, <3>3
  <2>. QED
      BY <2>1, <2>2
<1>. QED
    BY <1>1, <1>14, <1>15, <1>16, <1>17 DEF U, Empties

\* e is a key of T with its value.
IsField(T, e) == e[1] \in Key /\ e[2] \in Val /\ e[2] = luaH_get(T, e[1])

LEMMA FieldFacts ==
    ASSUME NEW T, WellFormed(T)
    PROVE  /\ \A i \in DOMAIN T.node : T.node[i].val # nil =>
                 IsField(T, <<T.node[i].key, T.node[i].val>>)
           /\ \A i \in DOMAIN T.array : T.array[i] # nil => IsField(T, <<i, T.array[i]>>)
           /\ \A q \in Key : luaH_get(T, q) # nil =>
                 \/ InArray(T, q) /\ q \in DOMAIN T.array /\ luaH_get(T, q) = T.array[q]
                 \/ \E i \in DOMAIN T.node : T.node[i].key = q /\ T.node[i].val = luaH_get(T, q)
<1>0. /\ T \in TableType /\ Len(T.array) \in Nat /\ DOMAIN T.array = 1 .. Len(T.array)
      /\ \A j \in DOMAIN T.array : T.array[j] \in Val \cup {nil}
      /\ \A i \in DOMAIN T.node : T.node[i] \in Node
    BY TableFacts DEF WellFormed
<1>1. ASSUME NEW i \in DOMAIN T.node, T.node[i].val # nil
      PROVE  IsField(T, <<T.node[i].key, T.node[i].val>>)
  <2>1. T.node[i].key # nil /\ ~T.node[i].dead /\ ~InArray(T, T.node[i].key)
      BY <1>1 DEF WellFormed, Keys
  <2>2. T.node[i].key \in Key /\ T.node[i].val \in Val
      BY <1>0, <1>1, <2>1 DEF Node
  <2>3. luaH_get(T, T.node[i].key) = T.node[i].val
      BY <2>1, <2>2, GetIs DEF Live
  <2>. QED
      BY <2>2, <2>3 DEF IsField
<1>2. ASSUME NEW i \in DOMAIN T.array, T.array[i] # nil PROVE IsField(T, <<i, T.array[i]>>)
  <2>1. i \in Index /\ i \in Key
      BY <1>2 DEF WellFormed, Room, Key
  <2>2. InArray(T, i)
      BY <1>0, <2>1 DEF InArray
  <2>3. luaH_get(T, i) = T.array[i]
      BY <2>1, <2>2, GetIs
  <2>. QED
      BY <1>0, <1>2, <2>1, <2>3 DEF IsField
<1>3. ASSUME NEW q \in Key, luaH_get(T, q) # nil
      PROVE  \/ InArray(T, q) /\ q \in DOMAIN T.array /\ luaH_get(T, q) = T.array[q]
             \/ \E i \in DOMAIN T.node : T.node[i].key = q /\ T.node[i].val = luaH_get(T, q)
  <2>1. CASE InArray(T, q)
      BY <1>0, <2>1, GetIs, KeyFacts DEF InArray
  <2>2. CASE ~InArray(T, q)
      BY <1>3, <2>2, GetGives DEF Gives
  <2>. QED
      BY <2>1, <2>2
<1>. QED
    BY <1>1, <1>2, <1>3

\* What a resize re-inserts: the fields that are not left where they are.
LEMMA ReinsertedIs ==
    ASSUME NEW T, WellFormed(T), NEW nasize \in Nat
    PROVE  LET es == Reinserted(T, nasize) IN
           /\ Len(es) \in Nat
           /\ \A m \in 1 .. Len(es) : es[m][2] # nil => IsField(T, es[m])
           /\ \A q \in Key : luaH_get(T, q) # nil /\ ~Kept(T, nasize, q) =>
                 \E m \in 1 .. Len(es) : es[m][1] = q /\ es[m][2] # nil
<1> DEFINE E == (Nat \cup Key \cup {nil}) \X (Val \cup {nil})
           a == [i \in DOMAIN T.array |-> <<i, T.array[i]>>]
           n == [i \in DOMAIN T.node |-> <<T.node[i].key, T.node[i].val>>]
           A == SubSeq(a, nasize + 1, Len(T.array))
           N == Reverse(n)
           la == IF nasize + 1 <= Len(T.array) THEN Len(T.array) - nasize ELSE 0
           ln == Len(T.node)
           es == Reinserted(T, nasize)
<1>0. /\ T \in TableType /\ Len(T.array) \in Nat /\ DOMAIN T.array = 1 .. Len(T.array)
      /\ Len(T.node) \in Nat /\ DOMAIN T.node = 1 .. Len(T.node)
      /\ \A j \in DOMAIN T.array : T.array[j] \in Val \cup {nil}
      /\ \A i \in DOMAIN T.node : T.node[i] \in Node
    BY TableFacts DEF WellFormed
<1>1. es = A \o N
    BY DEF Reinserted
<1>2. A \in Seq(E) /\ Len(A) = la /\ \A i \in 1 .. la : A[i] = <<nasize + i, T.array[nasize + i]>>
  <2>1. \A i \in nasize + 1 .. Len(T.array) : i \in DOMAIN T.array /\ i \in Nat
      BY <1>0
  <2>2. \A i \in nasize + 1 .. Len(T.array) : a[i] = <<i, T.array[i]>> /\ a[i] \in E
      BY <1>0, <2>1
  <2>3. nasize + 1 \in Int /\ Len(T.array) \in Int
      BY <1>0
  <2>4. /\ A \in Seq(E)
        /\ Len(A) = IF nasize + 1 <= Len(T.array) THEN Len(T.array) - (nasize + 1) + 1 ELSE 0
        /\ \A i \in 1 .. Len(T.array) - (nasize + 1) + 1 : A[i] = a[nasize + 1 + i - 1]
    <3>. HIDE DEF a, E
    <3>. QED
        BY <2>2, <2>3, SubSeqProperties
  <2>5. \A i \in 1 .. la : /\ i \in 1 .. Len(T.array) - (nasize + 1) + 1
                           /\ nasize + 1 + i - 1 = nasize + i
                           /\ nasize + i \in nasize + 1 .. Len(T.array)
      BY <1>0
  <2>6. Len(A) = la
      BY <1>0, <2>4
  <2>. HIDE DEF A, la, a, E
  <2>. QED
      BY <2>2, <2>4, <2>5, <2>6
<1>3. N \in Seq(E) /\ Len(N) = ln
      /\ \A i \in 1 .. ln : N[i] = <<T.node[ln - i + 1].key, T.node[ln - i + 1].val>>
  <2>1. n \in [1 .. ln -> E]
      BY <1>0 DEF Node
  <2>2. Len(n) = ln
    <3>. HIDE DEF n, E
    <3>. QED
        BY <1>0, <2>1, SeqIs
  <2>3. \A i \in 1 .. ln : ln - i + 1 \in 1 .. ln
      BY <1>0
  <2>4. N = [i \in 1 .. ln |-> n[ln - i + 1]]
    <3>. HIDE DEF n, ln
    <3>. QED
        BY <2>2 DEF Reverse, N
  <2>5. N \in [1 .. ln -> E]
    <3>. HIDE DEF n, E, ln, N
    <3>. QED
        BY <2>1, <2>3, <2>4
  <2>6. N \in Seq(E) /\ Len(N) = ln
    <3>. HIDE DEF N, E
    <3>. QED
        BY <1>0, <2>5, SeqIs
  <2>7. \A i \in 1 .. ln : N[i] = n[ln - i + 1]
    <3>. HIDE DEF n, N, ln
    <3>. QED
        BY <2>4
  <2>8. \A i \in 1 .. ln : n[ln - i + 1] = <<T.node[ln - i + 1].key, T.node[ln - i + 1].val>>
      BY <1>0, <2>3
  <2>. HIDE DEF n, N, ln, E
  <2>. QED
      BY <2>6, <2>7, <2>8
<1>4. la \in Nat /\ ln \in Nat
    BY <1>0
<1>5. /\ Len(es) = la + ln
      /\ \A i \in 1 .. la + ln : es[i] = IF i <= la THEN A[i] ELSE N[i - la]
  <2>. HIDE DEF A, N, la, ln, E, es
  <2>. QED
      BY <1>1, <1>2, <1>3, ConcatProperties
<1>6. \A i \in 1 .. la : nasize + i \in DOMAIN T.array
    BY <1>0
<1>7. \A i \in 1 .. ln : ln - i + 1 \in DOMAIN T.node
    BY <1>0
<1>. HIDE DEF A, N, la, ln, E, es
<1>8. ASSUME NEW m \in 1 .. Len(es), es[m][2] # nil PROVE IsField(T, es[m])
  <2>1. CASE m <= la
    <3>1. m \in 1 .. la
        BY <1>4, <1>5, <2>1
    <3>2. es[m] = <<nasize + m, T.array[nasize + m]>>
        BY <1>2, <1>4, <1>5, <2>1, <3>1
    <3>. QED
        BY <1>6, <1>8, <3>1, <3>2, FieldFacts
  <2>2. CASE ~(m <= la)
    <3>1. m - la \in 1 .. ln
        BY <1>4, <1>5, <2>2
    <3>2. PICK i \in 1 .. ln : i = m - la
        BY <3>1
    <3>3. es[m] = <<T.node[ln - i + 1].key, T.node[ln - i + 1].val>>
        BY <1>3, <1>4, <1>5, <2>2, <3>2
    <3>4. PICK j \in DOMAIN T.node : j = ln - i + 1
        BY <1>7
    <3>. QED
        BY <1>8, <3>3, <3>4, FieldFacts
  <2>. QED
      BY <2>1, <2>2
<1>9. ASSUME NEW q \in Key, luaH_get(T, q) # nil, ~Kept(T, nasize, q)
      PROVE  \E m \in 1 .. Len(es) : es[m][1] = q /\ es[m][2] # nil
  <2>1. CASE InArray(T, q) /\ q \in DOMAIN T.array /\ luaH_get(T, q) = T.array[q]
    <3>1. q \in 1 .. Len(T.array) /\ q > nasize
        BY <1>0, <1>9, <2>1 DEF Kept
    <3>2. PICK m \in 1 .. la : q = nasize + m
      <4>1. q - nasize \in 1 .. la /\ q = nasize + (q - nasize)
          BY <1>0, <3>1 DEF la
      <4>. QED
          BY <4>1
    <3>3. es[m] = <<q, T.array[q]>> /\ m \in 1 .. Len(es)
        BY <1>2, <1>4, <1>5, <3>2
    <3>. QED
        BY <1>9, <2>1, <3>3
  <2>2. CASE \E i \in DOMAIN T.node : T.node[i].key = q /\ T.node[i].val = luaH_get(T, q)
    <3>1. PICK i \in DOMAIN T.node : T.node[i].key = q /\ T.node[i].val = luaH_get(T, q)
        BY <2>2
    <3>2. PICK j \in 1 .. ln : i = ln - j + 1
      <4>1. ln - i + 1 \in 1 .. ln /\ i = ln - (ln - i + 1) + 1
          BY <1>0 DEF ln
      <4>. QED
          BY <4>1
    <3>3. PICK m \in 1 .. Len(es) : m = la + j
      <4>1. la + j \in 1 .. Len(es)
          BY <1>4, <1>5
      <4>. QED
          BY <4>1
    <3>4. ~(m <= la) /\ m - la = j
        BY <1>4, <3>3
    <3>5. es[m] = N[j]
        BY <1>5, <3>4
    <3>6. N[j] = <<T.node[i].key, T.node[i].val>>
        BY <1>3, <3>2
    <3>. QED
        BY <1>9, <3>1, <3>5, <3>6
  <2>. QED
      BY <1>9, <2>1, <2>2, FieldFacts
<1>. QED
    BY <1>4, <1>5, <1>8, <1>9 DEF es

\* A is U after the first n elements of es, which are fields of T.
Partway(A, T, U, es, n, K) ==
    /\ WellFormed(A) /\ Dense(A) /\ KeysIn(A, K) /\ A.nested = U.nested
    /\ Len(A.node) = Len(U.node) /\ Len(A.array) = Len(U.array)
    /\ \A q \in Key : luaH_get(A, q) =
          IF \E m \in 1 .. n : es[m][1] = q /\ es[m][2] # nil THEN luaH_get(T, q)
          ELSE luaH_get(U, q)

LEMMA PartwayStep ==
    ASSUME NEW T, NEW U, NEW es, NEW K, IsFiniteSet(K), Cardinality(K) <= Len(U.node),
           NEW m \in Nat \ {0}, NEW A, Partway(A, T, U, es, m - 1, K),
           es[m][2] # nil => IsField(T, es[m]) /\ (InArray(U, es[m][1]) \/ es[m][1] \in K)
    PROVE  Partway(Stepped(A, es[m]), T, U, es, m, K)
<1>1. CASE es[m][2] = nil
  <2>1. Stepped(A, es[m]) = A
      BY <1>1 DEF Stepped
  <2>2. ASSUME NEW q
        PROVE  (\E l \in 1 .. m : es[l][1] = q /\ es[l][2] # nil)
                 <=> \E l \in 1 .. m - 1 : es[l][1] = q /\ es[l][2] # nil
    <3>1. \A l \in 1 .. m : l = m \/ l \in 1 .. m - 1
        OBVIOUS
    <3>2. 1 .. m - 1 \subseteq 1 .. m
        OBVIOUS
    <3>. QED
        BY <1>1, <3>1, <3>2
  <2>. QED
      BY <2>1, <2>2 DEF Partway
<1>2. CASE es[m][2] # nil
  <2> DEFINE k == es[m][1]
             v == es[m][2]
             X == Put(A, k, v)
  <2>1. k \in Key /\ v \in Val /\ v \in Val \cup {nil} /\ v = luaH_get(T, k)
      BY <1>2 DEF IsField
  <2>2. WellFormed(A) /\ Dense(A) /\ KeysIn(A, K) /\ Cardinality(K) <= Len(A.node)
      BY DEF Partway
  <2>3. InArray(A, k) \/ k \in K
      BY <1>2 DEF Partway, InArray
  <2>4. InArray(A, k) \/ Find(A, k) # 0 \/ ~IsFull(A, k)
    <3>. HIDE DEF k
    <3>. QED
        BY <2>1, <2>2, <2>3, HasRoom
  <2>5. Stores(A, X, k, v) /\ Dense(X) /\ KeysIn(X, K)
    <3>. HIDE DEF k, v
    <3>. QED
        BY <2>1, <2>2, <2>3, <2>4, PutStores, PutDense
  <2>6. X = Stepped(A, es[m])
      BY <1>2 DEF Stepped
  <2>. HIDE DEF X
  <2>7. ASSUME NEW q \in Key
        PROVE  luaH_get(X, q) =
                 IF \E l \in 1 .. m : es[l][1] = q /\ es[l][2] # nil THEN luaH_get(T, q)
                 ELSE luaH_get(U, q)
    <3>1. CASE q = k
      <4>1. m \in 1 .. m
          OBVIOUS
      <4>. QED
          BY <1>2, <2>1, <2>5, <3>1, <4>1 DEF Stores
    <3>2. CASE q # k
      <4>1. luaH_get(X, q) = luaH_get(A, q)
          BY <2>5, <3>2 DEF Stores
      <4>2. \A l \in 1 .. m : l = m \/ l \in 1 .. m - 1
          OBVIOUS
      <4>3. 1 .. m - 1 \subseteq 1 .. m
          OBVIOUS
      <4>. QED
          BY <3>2, <4>1, <4>2, <4>3 DEF Partway
    <3>. QED
        BY <3>1, <3>2
  <2>. QED
      BY <2>5, <2>6, <2>7 DEF Partway, Stores
<1>. QED
    BY <1>1, <1>2

LEMMA ReinsertingIs ==
    ASSUME NEW T, NEW U, NEW es, NEW K, IsFiniteSet(K), Cardinality(K) <= Len(U.node),
           Len(es) \in Nat, WellFormed(U), Dense(U), KeysIn(U, K),
           \A m \in 1 .. Len(es) : es[m][2] # nil =>
               IsField(T, es[m]) /\ (InArray(U, es[m][1]) \/ es[m][1] \in K)
    PROVE  Partway(Reinserting(U, es), T, U, es, Len(es), K)
<1>1. PICK f : Runs(f, U, es) /\ Reinserting(U, es) = f[Len(es)]
    BY ReinsertingRuns
<1> DEFINE S == {n \in Nat : n <= Len(es) => Partway(f[n], T, U, es, n, K)}
<1>2. 0 \in S
  <2>1. f[0] = U
      BY <1>1 DEF Runs
  <2>2. Partway(U, T, U, es, 0, K)
      BY DEF Partway
  <2>. QED
      BY <2>1, <2>2
<1>3. ASSUME NEW n \in Nat, n \in S PROVE n + 1 \in S
  <2>1. SUFFICES ASSUME n + 1 <= Len(es) PROVE Partway(f[n + 1], T, U, es, n + 1, K)
      OBVIOUS
  <2>2. PICK m \in Nat \ {0} : m = n + 1
      OBVIOUS
  <2>3. m \in 0 .. Len(es) /\ m \in 1 .. Len(es) /\ m - 1 = n
      BY <2>1, <2>2
  <2>4. f[m] = Stepped(f[n], es[m])
      BY <1>1, <2>3 DEF Runs
  <2>5. Partway(f[n], T, U, es, m - 1, K)
      BY <1>3, <2>1, <2>3
  <2>6. Partway(Stepped(f[n], es[m]), T, U, es, m, K)
      BY <2>3, <2>5, PartwayStep
  <2>. QED
      BY <2>2, <2>4, <2>6
<1>4. Len(es) \in S
  <2>. HIDE DEF S
  <2>. QED
      BY <1>2, <1>3, SetInduction
<1>. QED
    BY <1>1, <1>4

\* 2^ceillog2(n) is at least n.
LEMMA CeilLog ==
    ASSUME NEW n \in Nat \ {0}
    PROVE  /\ ceillog2(n) \in 0 .. n /\ 2 ^ ceillog2(n) >= n
           /\ \A d \in 0 .. ceillog2(n) - 1 : 2 ^ d < n
<1> DEFINE S == {e \in Nat : 2 ^ e >= n}
           P(e) == 2 ^ e >= n /\ \A d \in 0 .. e - 1 : 2 ^ d < n
<1>0. \A e \in Nat : 2 ^ e \in Nat
    BY TwoTo
<1>1. n < 2 ^ n
    BY TwoToGrows
<1>2. n \in S
    BY <1>0, <1>1
<1>3. PICK m \in S : \A e \in S : m <= e
  <2>. HIDE DEF S
  <2>1. S \in SUBSET Nat
      BY DEF S
  <2>. QED
      BY <1>2, <2>1, Smallest
<1>4. m \in 0 .. n
    BY <1>2, <1>3
<1>5. P(m)
    BY <1>0, <1>3
<1>6. \E e \in 0 .. n : P(e)
    BY <1>4, <1>5
<1>7. ceillog2(n) = CHOOSE e \in 0 .. n : P(e)
    BY DEF ceillog2
<1>8. ceillog2(n) \in 0 .. n /\ P(ceillog2(n))
  <2>. HIDE DEF P
  <2>. QED
      BY <1>6, <1>7
<1>. QED
    BY <1>8

LEMMA NodeSizeIs ==
    ASSUME NEW n \in Nat
    PROVE  NodeSize(n) \in Nat /\ n <= NodeSize(n)
<1>1. CASE n = 0
    BY <1>1 DEF NodeSize
<1>2. CASE n # 0
  <2>1. ceillog2(n) \in Nat /\ 2 ^ ceillog2(n) >= n
      BY <1>2, CeilLog
  <2>2. 2 ^ ceillog2(n) \in Nat
      BY <2>1, TwoTo
  <2>. QED
      BY <1>2, <2>1, <2>2 DEF NodeSize
<1>. QED
    BY <1>1, <1>2

LEMMA ResizeIs ==
    ASSUME NEW T, WellFormed(T), NEW nasize \in Nat, NEW nhsize \in Nat,
           NEW K, IsFiniteSet(K), Cardinality(K) <= nhsize,
           \A q \in Key : luaH_get(T, q) # nil => q \in K \/ (q \in Index /\ q <= nasize)
    PROVE  LET R == resize(T, nasize, nhsize) IN
           /\ WellFormed(R) /\ R.nested = T.nested /\ Len(R.array) = nasize
           /\ Dense(R) /\ KeysIn(R, K) /\ Cardinality(K) <= Len(R.node)
           /\ \A q \in Key : luaH_get(R, q) = luaH_get(T, q)
<1> DEFINE size == NodeSize(nhsize)
           U == Resized(T, nasize, size)
           es == Reinserted(T, nasize)
           R == resize(T, nasize, nhsize)
<1>1. R = Reinserting(U, es)
    BY DEF resize
<1>2. size \in Nat /\ nhsize <= size
    BY NodeSizeIs
<1>3. Cardinality(K) <= size
  <2>1. Cardinality(K) \in Nat
      BY FS_CardinalityType
  <2>. HIDE DEF size
  <2>. QED
      BY <1>2, <2>1
<1>4. /\ WellFormed(U) /\ U.nested = T.nested
      /\ Len(U.node) = size /\ Len(U.array) = nasize /\ Dense(U) /\ KeysIn(U, K)
      /\ \A q \in Key : luaH_get(U, q) = IF Kept(T, nasize, q) THEN T.array[q] ELSE nil
  <2>. HIDE DEF size
  <2>1. Empties(T, U, nasize, size)
      BY <1>2, ResizedIs
  <2>. QED
      BY <2>1 DEF Empties
<1>5. /\ Len(es) \in Nat
      /\ \A m \in 1 .. Len(es) : es[m][2] # nil => IsField(T, es[m])
      /\ \A q \in Key : luaH_get(T, q) # nil /\ ~Kept(T, nasize, q) =>
            \E m \in 1 .. Len(es) : es[m][1] = q /\ es[m][2] # nil
    BY ReinsertedIs
<1>. HIDE DEF size, U, es, R
<1>6. ASSUME NEW m \in 1 .. Len(es), es[m][2] # nil
      PROVE  InArray(U, es[m][1]) \/ es[m][1] \in K
  <2>1. es[m][1] \in Key /\ luaH_get(T, es[m][1]) # nil
      BY <1>5, <1>6 DEF IsField
  <2>. QED
      BY <1>4, <2>1 DEF InArray
<1>7. Partway(R, T, U, es, Len(es), K)
    BY <1>1, <1>3, <1>4, <1>5, <1>6, ReinsertingIs
<1>8. ASSUME NEW q \in Key PROVE luaH_get(R, q) = luaH_get(T, q)
  <2>1. CASE \E m \in 1 .. Len(es) : es[m][1] = q /\ es[m][2] # nil
      BY <1>7, <2>1 DEF Partway
  <2>2. CASE ~\E m \in 1 .. Len(es) : es[m][1] = q /\ es[m][2] # nil
    <3>1. luaH_get(R, q) = IF Kept(T, nasize, q) THEN T.array[q] ELSE nil
        BY <1>4, <1>7, <2>2 DEF Partway
    <3>2. luaH_get(T, q) # nil => Kept(T, nasize, q)
        BY <1>5, <2>2
    <3>3. Kept(T, nasize, q) => luaH_get(T, q) = T.array[q]
        BY GetIs DEF Kept
    <3>. QED
        BY <3>1, <3>2, <3>3
  <2>. QED
      BY <2>1, <2>2
<1>. QED
    BY <1>3, <1>4, <1>7, <1>8 DEF Partway, R

----------------------------------------------------------------------------
(* Rehash.                                                                 *)

LEMMA UsedIs ==
    ASSUME NEW T, WellFormed(T)
    PROVE  /\ Used(T) = {k \in Key : luaH_get(T, k) # nil}
           /\ IsFiniteSet(Used(T))
<1> DEFINE A == {k \in Index : InArray(T, k) /\ T.array[k] # nil}
           D == {j \in DOMAIN T.node : T.node[j].val # nil}
           N == {T.node[i].key : i \in D}
           f == [i \in D |-> T.node[i].key]
<1>0. Used(T) = A \cup N
    BY DEF Used
<1>1. DOMAIN T.node = 1 .. Len(T.node) /\ Len(T.node) \in Nat
    BY TableFacts DEF WellFormed
<1>2. IsFiniteSet(DOMAIN T.node) /\ D \in SUBSET DOMAIN T.node
    BY <1>1, FS_Interval
<1>3. IsFiniteSet(D)
  <2>. HIDE DEF D
  <2>. QED
      BY <1>2, FS_Subset
<1>4. f \in Surjection(D, N)
    BY DEF Surjection
<1>5. IsFiniteSet(N)
  <2>. HIDE DEF D, N, f
  <2>. QED
      BY <1>3, <1>4, FS_Surjection
<1>6. IsFiniteSet(A)
  <2>1. IsFiniteSet(Index) /\ A \in SUBSET Index
      BY TableAssumption
  <2>. HIDE DEF A
  <2>. QED
      BY <2>1, FS_Subset
<1>7. IsFiniteSet(A \cup N)
  <2>. HIDE DEF A, N
  <2>. QED
      BY <1>5, <1>6, FS_Union
<1>8. ASSUME NEW k \in A PROVE k \in Key /\ luaH_get(T, k) # nil
  <2>1. k \in Key
      BY DEF Key
  <2>. QED
      BY <2>1, GetIs
<1>9. ASSUME NEW k \in N PROVE k \in Key /\ luaH_get(T, k) # nil
  <2>1. PICK i \in D : k = T.node[i].key
      OBVIOUS
  <2>2. IsField(T, <<T.node[i].key, T.node[i].val>>)
      BY FieldFacts
  <2>. QED
      BY <2>1, <2>2 DEF IsField
<1>10. ASSUME NEW k \in Key, luaH_get(T, k) # nil PROVE k \in A \cup N
    BY <1>10, FieldFacts DEF InArray
<1>. HIDE DEF A, N
<1>. QED
    BY <1>0, <1>7, <1>8, <1>9, <1>10

LEMMA SizeType ==
    ASSUME NEW I, IsFiniteSet(I)
    PROVE  computesizes(I) \in Nat
<1> DEFINE F == {e \in 0 .. Cardinality(I) :
                    /\ 2 ^ e \div 2 < Cardinality(I)
                    /\ \E k \in I : ceillog2(k) = e
                    /\ UpTo(I, 2 ^ e) > 2 ^ e \div 2}
           c == CHOOSE e \in F : \A d \in F : d <= e
<1>1. computesizes(I) = IF F = {} THEN 0 ELSE 2 ^ c
    BY DEF computesizes
<1>2. Cardinality(I) \in Nat
    BY FS_CardinalityType
<1>3. F \in SUBSET Nat /\ \A e \in F : e <= Cardinality(I)
    BY <1>2
<1>4. ASSUME F # {} PROVE c \in Nat
  <2>. HIDE DEF F
  <2>1. \E e \in F : \A d \in F : d <= e
      BY <1>2, <1>3, <1>4, Largest
  <2>. QED
      BY <1>3, <2>1
<1>. HIDE DEF F, c
<1>5. F # {} => 2 ^ c \in Nat
    BY <1>4, TwoTo
<1>. QED
    BY <1>1, <1>5

LEMMA RehashIs ==
    ASSUME NEW T, WellFormed(T), NEW k \in Key, NeedsRehash(T, k)
    PROVE  LET R == rehash(T, k) IN
           /\ WellFormed(R) /\ R.nested = T.nested
           /\ Len(R.array) = computesizes((Used(T) \cup {k}) \cap Index)
           /\ InArray(R, k) \/ Find(R, k) # 0 \/ ~IsFull(R, k)
           /\ \A q \in Key : luaH_get(R, q) = luaH_get(T, q)
<1> DEFINE S == Used(T)
           I == (S \cup {k}) \cap Index
           nasize == computesizes(I)
           J == {q \in I : q <= nasize}
           K == (S \cup {k}) \ J
           nhsize == Cardinality(S) + 1 - UpTo(I, nasize)
           R == rehash(T, k)
<1>1. S = {q \in Key : luaH_get(T, q) # nil} /\ IsFiniteSet(S)
    BY UsedIs
<1>2. k \notin S
  <2>1. ~InArray(T, k) /\ Find(T, k) = 0
      BY DEF NeedsRehash
  <2>2. luaH_get(T, k) = nil
      BY <2>1 DEF luaH_get
  <2>. QED
      BY <1>1, <2>2
<1>3. IsFiniteSet(S \cup {k}) /\ Cardinality(S \cup {k}) = Cardinality(S) + 1
  <2>. HIDE DEF S
  <2>. QED
      BY <1>1, <1>2, FS_AddElement
<1>4. I \in SUBSET (S \cup {k}) /\ J \in SUBSET (S \cup {k})
    OBVIOUS
<1>5. IsFiniteSet(I) /\ IsFiniteSet(J)
  <2>. HIDE DEF S, I, J
  <2>. QED
      BY <1>3, <1>4, FS_Subset
<1>6. nasize \in Nat
  <2>. HIDE DEF I
  <2>. QED
      BY <1>5, SizeType
<1>7. IsFiniteSet(K) /\ Cardinality(K) = Cardinality(S) + 1 - Cardinality(J)
  <2> DEFINE X == S \cup {k}
  <2>1. X \cap J = J
      BY <1>4
  <2>2. IsFiniteSet(X \ J) /\ Cardinality(X \ J) = Cardinality(X) - Cardinality(X \cap J)
    <3>1. IsFiniteSet(X)
        BY <1>3
    <3>. HIDE DEF X, J
    <3>. QED
        BY <3>1, FS_Difference
  <2>3. K = X \ J /\ Cardinality(X) = Cardinality(S) + 1
      BY <1>3
  <2>. HIDE DEF X, J, K, S
  <2>4. IsFiniteSet(K) /\ Cardinality(K) = Cardinality(X) - Cardinality(J)
      BY <2>1, <2>2, <2>3, Zenon
  <2>5. Cardinality(X) = Cardinality(S) + 1
      BY <2>3
  <2>6. Cardinality(S) \in Nat /\ Cardinality(J) \in Nat
      BY <1>1, <1>5, FS_CardinalityType
  <2>. QED
      BY <2>4, <2>5, <2>6
<1>8. nhsize = Cardinality(K)
    BY <1>7 DEF UpTo
<1>9. nhsize \in Nat
  <2>1. Cardinality(K) \in Nat
      BY <1>7, FS_CardinalityType
  <2>. HIDE DEF K, nhsize
  <2>. QED
      BY <1>8, <2>1
<1>10. \A q \in Key : luaH_get(T, q) # nil => q \in K \/ (q \in Index /\ q <= nasize)
    BY <1>1
<1>11. R = resize(T, nasize, nhsize)
    BY DEF rehash
<1>12. k \in K \/ (k \in Index /\ k <= nasize)
    OBVIOUS
<1>13. Cardinality(K) <= nhsize
  <2>. HIDE DEF K, nhsize
  <2>. QED
      BY <1>8, <1>9
<1>. HIDE DEF S, nasize, J, K, nhsize, R, I
<1>14. /\ WellFormed(R) /\ R.nested = T.nested /\ Len(R.array) = nasize
       /\ Dense(R) /\ KeysIn(R, K) /\ Cardinality(K) <= Len(R.node)
       /\ \A q \in Key : luaH_get(R, q) = luaH_get(T, q)
    BY <1>6, <1>7, <1>9, <1>10, <1>11, <1>13, ResizeIs
<1>15. InArray(R, k) \/ Find(R, k) # 0 \/ ~IsFull(R, k)
  <2>1. CASE k \in K
      BY <1>7, <1>14, <2>1, HasRoom
  <2>2. CASE k \in Index /\ k <= nasize
      BY <1>14, <2>2 DEF InArray
  <2>. QED
      BY <1>12, <2>1, <2>2
<1>. QED
    BY <1>14, <1>15 DEF R, nasize, I, S

\* luaH_set.
LEMMA SetIs ==
    ASSUME NEW T, WellFormed(T), NEW k \in Key, NEW v \in Val \cup {nil}
    PROVE  LET U == luaH_set(T, k, v) IN
           /\ WellFormed(U) /\ U.nested = T.nested
           /\ luaH_get(U, k) = v
           /\ \A q \in Key \ {k} : luaH_get(U, q) = luaH_get(T, q)
<1>1. CASE NeedsRehash(T, k)
  <2> DEFINE R == rehash(T, k)
  <2>1. luaH_set(T, k, v) = Put(R, k, v)
      BY <1>1 DEF luaH_set
  <2>2. /\ WellFormed(R) /\ R.nested = T.nested
        /\ InArray(R, k) \/ Find(R, k) # 0 \/ ~IsFull(R, k)
        /\ \A q \in Key : luaH_get(R, q) = luaH_get(T, q)
      BY <1>1, RehashIs
  <2>. HIDE DEF R
  <2>3. Stores(R, Put(R, k, v), k, v)
      BY <2>2, PutStores
  <2>. QED
      BY <2>1, <2>2, <2>3 DEF Stores
<1>2. CASE ~NeedsRehash(T, k)
  <2>1. luaH_set(T, k, v) = Put(T, k, v)
      BY <1>2 DEF luaH_set
  <2>2. Stores(T, Put(T, k, v), k, v)
      BY <1>2, PutStores DEF NeedsRehash
  <2>. QED
      BY <2>1, <2>2 DEF Stores
<1>. QED
    BY <1>1, <1>2

----------------------------------------------------------------------------
(* Traversal.                                                              *)

Positions(T) == 1 .. Len(T.array) + Len(T.node)

LEMMA PositionsAre ==
    ASSUME NEW T, WellFormed(T)
    PROVE  \E a, b \in Nat : Len(T.array) = a /\ Len(T.node) = b /\ Positions(T) = 1 .. a + b
<1>1. PICK a \in Nat : Len(T.array) = a
    BY TableFacts DEF WellFormed
<1>2. PICK b \in Nat : Len(T.node) = b
    BY TableFacts DEF WellFormed
<1>. QED
    BY <1>1, <1>2 DEF Positions

\* A position with a value is that of its key.
LEMMA PositionIs ==
    ASSUME NEW T, WellFormed(T), NEW p \in Positions(T), Value(T, p) # nil
    PROVE  /\ KeyAt(T, p) \in Key /\ findindex(T, KeyAt(T, p)) = p
           /\ luaH_get(T, KeyAt(T, p)) = Value(T, p)
<1>0. /\ T \in TableType /\ Len(T.array) \in Nat /\ DOMAIN T.array = 1 .. Len(T.array)
      /\ Len(T.node) \in Nat /\ DOMAIN T.node = 1 .. Len(T.node)
    BY TableFacts DEF WellFormed
<1>a. PICK a, b \in Nat : Len(T.array) = a /\ Len(T.node) = b /\ Positions(T) = 1 .. a + b
    BY PositionsAre
<1>1. CASE p <= Len(T.array)
  <2>1. Value(T, p) = T.array[p] /\ KeyAt(T, p) = p /\ p \in DOMAIN T.array
      BY <1>0, <1>a, <1>1 DEF Value, KeyAt
  <2>2. p \in Index
      BY <2>1 DEF WellFormed, Room
  <2>3. p \in Key /\ luaH_get(T, p) = T.array[p]
      BY <2>1, FieldFacts DEF IsField
  <2>4. findindex(T, p) = p
      BY <1>1, <2>2, <2>3, KeyFacts DEF findindex, InArray
  <2>. QED
      BY <2>1, <2>3, <2>4
<1>2. CASE ~(p <= Len(T.array))
  <2>1. p - Len(T.array) \in DOMAIN T.node
      BY <1>0, <1>a, <1>2
  <2>2. PICK i \in DOMAIN T.node : i = p - Len(T.array)
      BY <2>1
  <2>3. Value(T, p) = T.node[i].val /\ KeyAt(T, p) = T.node[i].key
      BY <1>2, <2>2 DEF Value, KeyAt
  <2>4. IsField(T, <<T.node[i].key, T.node[i].val>>)
      BY <2>3, FieldFacts
  <2>5. T.node[i].key \in Key /\ luaH_get(T, T.node[i].key) = T.node[i].val
      BY <2>4 DEF IsField
  <2>6. T.node[i].key # nil /\ ~T.node[i].dead
      BY <2>3 DEF WellFormed, Keys
  <2>7. findindex(T, T.node[i].key) = Len(T.array) + i
      BY <2>6, FindIs
  <2>8. Len(T.array) + i = p
      BY <1>0, <1>a, <2>2
  <2>. QED
      BY <2>3, <2>5, <2>7, <2>8
<1>. QED
    BY <1>1, <1>2

\* A key with a value has a position.
LEMMA PositionOf ==
    ASSUME NEW T, WellFormed(T), NEW q \in Key, luaH_get(T, q) # nil
    PROVE  /\ findindex(T, q) \in Positions(T)
           /\ Value(T, findindex(T, q)) = luaH_get(T, q) /\ KeyAt(T, findindex(T, q)) = q
<1>0. /\ T \in TableType /\ Len(T.array) \in Nat /\ DOMAIN T.array = 1 .. Len(T.array)
      /\ Len(T.node) \in Nat /\ DOMAIN T.node = 1 .. Len(T.node)
    BY TableFacts DEF WellFormed
<1>a. PICK a, b \in Nat : Len(T.array) = a /\ Len(T.node) = b /\ Positions(T) = 1 .. a + b
    BY PositionsAre
<1>1. CASE InArray(T, q) /\ q \in DOMAIN T.array /\ luaH_get(T, q) = T.array[q]
  <2>1. findindex(T, q) = q /\ q \in 1 .. Len(T.array)
      BY <1>0, <1>1, KeyFacts DEF findindex
  <2>. QED
      BY <1>0, <1>1, <2>1, <1>a DEF Value, KeyAt
<1>2. CASE \E i \in DOMAIN T.node : T.node[i].key = q /\ T.node[i].val = luaH_get(T, q)
  <2>1. PICK i \in DOMAIN T.node : T.node[i].key = q /\ T.node[i].val = luaH_get(T, q)
      BY <1>2
  <2>2. T.node[i].key # nil /\ ~T.node[i].dead
      BY <2>1 DEF WellFormed, Keys
  <2>3. findindex(T, q) = Len(T.array) + i
      BY <2>1, <2>2, FindIs
  <2>4. PICK p \in Positions(T) : p = Len(T.array) + i /\ ~(p <= Len(T.array)) /\ p - Len(T.array) = i
    <3>1. i \in 1 .. Len(T.node)
        BY <1>0
    <3>2. Len(T.array) + i \in Positions(T)
        BY <1>0, <1>a, <3>1
    <3>. QED
        BY <1>0, <3>1, <3>2
  <2>5. Value(T, p) = T.node[i].val /\ KeyAt(T, p) = T.node[i].key
      BY <2>4 DEF Value, KeyAt
  <2>. QED
      BY <2>1, <2>3, <2>4, <2>5
<1>. QED
    BY <1>1, <1>2, FieldFacts

\* What luaH_next gives.
LEMMA NextPosition ==
    ASSUME NEW T, WellFormed(T), NEW k, findindex(T, k) \in Nat
    PROVE  LET p == luaH_next(T, k) IN
           /\ p = 0 => \A q \in Positions(T) : q > findindex(T, k) => Value(T, q) = nil
           /\ p # 0 => /\ p \in Positions(T) /\ p > findindex(T, k) /\ Value(T, p) # nil
                       /\ \A q \in Positions(T) :
                             q > findindex(T, k) /\ Value(T, q) # nil => p <= q
<1> DEFINE f == findindex(T, k)
           S == {p \in f + 1 .. Len(T.array) + Len(T.node) : Value(T, p) # nil}
           c == CHOOSE p \in S : \A q \in S : p <= q
<1>a. PICK a, b \in Nat : Len(T.array) = a /\ Len(T.node) = b /\ Positions(T) = 1 .. a + b
    BY PositionsAre
<1>0. f \in Nat /\ S = {q \in f + 1 .. a + b : Value(T, q) # nil}
    BY <1>a
<1>1. luaH_next(T, k) = IF S = {} THEN 0 ELSE c
    BY DEF luaH_next
<1>2. \A q : q \in S <=> q \in Positions(T) /\ q > f /\ Value(T, q) # nil
  <2>. HIDE DEF f, S
  <2>. QED
      BY <1>0, <1>a
<1>3. S \in SUBSET Nat /\ 0 \notin S
    BY <1>0, <1>a, <1>2
<1>4. ASSUME S # {} PROVE c \in S /\ \A q \in S : c <= q
  <2>. HIDE DEF S
  <2>1. \E p \in S : \A q \in S : p <= q
      BY <1>3, <1>4, Smallest
  <2>. QED
      BY <2>1
<1>5. CASE S = {}
  <2>1. luaH_next(T, k) = 0
      BY <1>1, <1>5
  <2>. HIDE DEF S, c, f
  <2>. QED
      BY <1>2, <1>5, <2>1 DEF f
<1>6. CASE S # {}
  <2>1. luaH_next(T, k) = c
      BY <1>1, <1>6
  <2>. HIDE DEF S, c, f
  <2>2. c # 0
      BY <1>3, <1>4, <1>6
  <2>. QED
      BY <1>2, <1>4, <1>6, <2>1, <2>2 DEF f
<1>. QED
    BY <1>5, <1>6

LEMMA IndexNil == \A T : findindex(T, nil) = 0
BY DEF findindex

\* A traversal goes on.
LEMMA NextConsistent ==
    ASSUME NEW T, NEW k, NEW V, NEW S, Consistent(T, k, V, S), k # None,
           NEW p, p = luaH_next(T, k), p # 0
    PROVE  Consistent(T, KeyAt(T, p), V \cup {KeyAt(T, p)}, S)
<1> DEFINE f == findindex(T, k)
           n == KeyAt(T, p)
<1>1. WellFormed(T) /\ Traversing(T, k, V, S) /\ V \subseteq Key /\ S \subseteq Key /\ ~T.nested
    BY DEF Consistent
<1>2. f \in Nat
    BY <1>1 DEF Traversing
<1>3. /\ p \in Positions(T) /\ p > f /\ Value(T, p) # nil
      /\ \A q \in Positions(T) : q > f /\ Value(T, q) # nil => p <= q
    BY <1>1, <1>2, NextPosition
<1>4. n \in Key /\ findindex(T, n) = p
    BY <1>1, <1>3, PositionIs
<1>5. p \in Nat /\ \A q \in Positions(T) : q \in Nat /\ q >= 1
  <2>1. PICK a, b \in Nat : Positions(T) = 1 .. a + b
      BY <1>1, PositionsAre
  <2>. QED
      BY <1>3, <2>1
<1>. HIDE DEF n
<1>6. ASSUME NEW q \in V \cup {n} PROVE findindex(T, q) \in 1 .. p
  <2>1. CASE q \in V
    <3>1. findindex(T, q) \in 1 .. f
        BY <1>1, <2>1 DEF Traversing
    <3>. HIDE DEF f
    <3>. QED
        BY <1>2, <1>3, <1>5, <3>1
  <2>2. CASE q = n
      BY <1>3, <1>4, <1>5, <2>2
  <2>. QED
      BY <2>1, <2>2
<1>7. ASSUME NEW q \in S
      PROVE  luaH_get(T, q) # nil /\ (findindex(T, q) <= p => q \in V \cup {n})
  <2>1. luaH_get(T, q) # nil /\ (findindex(T, q) <= f => q \in V) /\ q \in Key
      BY <1>1 DEF Traversing
  <2>2. /\ findindex(T, q) \in Positions(T)
        /\ Value(T, findindex(T, q)) # nil /\ KeyAt(T, findindex(T, q)) = q
      BY <1>1, <2>1, PositionOf
  <2>3. ASSUME findindex(T, q) <= p, ~(findindex(T, q) <= f) PROVE q = n
    <3>1. findindex(T, q) \in Nat
        BY <1>5, <2>2
    <3>2. p <= findindex(T, q)
      <4>. HIDE DEF f
      <4>. QED
          BY <1>2, <1>3, <2>2, <2>3, <3>1
    <3>3. findindex(T, q) = p
        BY <1>5, <2>3, <3>1, <3>2
    <3>. QED
        BY <2>2, <3>3 DEF n
  <2>. QED
      BY <2>1, <2>3
<1>8. Traversing(T, n, V \cup {n}, S)
    BY <1>4, <1>5, <1>6, <1>7 DEF Traversing
<1>9. Consistent(T, n, V \cup {n}, S)
    BY <1>1, <1>4, <1>8, KeyFacts DEF Consistent
<1>. QED
    BY <1>9 DEF n

\* A traversal begins.
LEMMA BeginConsistent ==
    ASSUME NEW T, WellFormed(T), ~T.nested
    PROVE  Consistent(T, nil, {}, {k \in Key : luaH_get(T, k) # nil})
<1> DEFINE S == {k \in Key : luaH_get(T, k) # nil}
<1>1. findindex(T, nil) = 0
    BY IndexNil
<1>2. ASSUME NEW q \in S PROVE luaH_get(T, q) # nil /\ ~(findindex(T, q) <= 0)
  <2>1. findindex(T, q) \in Positions(T) /\ luaH_get(T, q) # nil
      BY PositionOf
  <2>2. PICK a, b \in Nat : Positions(T) = 1 .. a + b
      BY PositionsAre
  <2>. QED
      BY <2>1, <2>2
<1>3. Traversing(T, nil, {}, S)
    BY <1>1, <1>2 DEF Traversing
<1>. QED
    BY <1>3, KeyFacts DEF Consistent

----------------------------------------------------------------------------
(* The inductive invariant.                                                *)

\* A change that leaves the keys where they are leaves a traversal where it is.
LEMMA KeepsTraversing ==
    ASSUME NEW T, NEW U, WellFormed(T), Keeps(T, U), NEW k \in Key \cup {nil},
           NEW V \in SUBSET Key, NEW S, NEW R \in SUBSET S, S \subseteq Key, Traversing(T, k, V, S),
           \A q \in R : luaH_get(U, q) # nil
    PROVE  Traversing(U, k, V, R)
<1>1. \A q \in Key : findindex(U, q) = findindex(T, q)
    BY KeepsPositions
<1>2. findindex(U, k) = findindex(T, k)
    BY <1>1, IndexNil
<1>. QED
    BY <1>1, <1>2 DEF Traversing

LEMMA SetConsistent ==
    ASSUME NEW T, NEW k, NEW V, NEW S, Consistent(T, k, V, S),
           NEW q \in Key, NEW v \in Val \cup {nil}, k # None => luaH_get(T, q) # nil
    PROVE  Consistent(luaH_set(T, q, v), k, V, IF v = nil THEN S \ {q} ELSE S)
<1> DEFINE U == luaH_set(T, q, v)
           R == IF v = nil THEN S \ {q} ELSE S
<1>1. /\ WellFormed(T) /\ ~T.nested
      /\ k \in Key \cup {nil, None} /\ V \subseteq Key /\ S \subseteq Key
    BY DEF Consistent
<1>2. /\ WellFormed(U) /\ U.nested = T.nested /\ luaH_get(U, q) = v
      /\ \A x \in Key \ {q} : luaH_get(U, x) = luaH_get(T, x)
    BY <1>1, SetIs
<1>3. R \in SUBSET S
    OBVIOUS
<1>4. ASSUME k # None PROVE Traversing(U, k, V, R)
  <2>1. Traversing(T, k, V, S) /\ k \in Key \cup {nil}
      BY <1>1, <1>4 DEF Consistent
  <2>2. InArray(T, q) \/ Find(T, q) # 0
      BY <1>4 DEF luaH_get
  <2>3. U = Put(T, q, v)
      BY <2>2 DEF luaH_set, NeedsRehash
  <2>4. Keeps(T, U)
      BY <1>1, <2>2, <2>3, PutArray, PutNode
  <2>5. \A x \in R : luaH_get(U, x) # nil
      BY <1>1, <1>2, <2>1 DEF Traversing
  <2>. HIDE DEF U, R
  <2>. QED
      BY <1>1, <1>3, <2>1, <2>4, <2>5, KeepsTraversing
<1>5. k = None => V = {} /\ R = {}
    BY DEF Consistent
<1>. HIDE DEF U, R
<1>6. Consistent(U, k, V, R)
    BY <1>1, <1>2, <1>3, <1>4, <1>5 DEF Consistent
<1>. QED
    BY <1>6 DEF U, R

\* traversetable's change of the nodes.
Buried(T) ==
    [T EXCEPT !.node = [i \in DOMAIN @ |->
        IF @[i].val = nil /\ @[i].key \in collectable THEN [@[i] EXCEPT !.dead = TRUE] ELSE @[i]]]

LEMMA BuriedKeeps ==
    ASSUME NEW T, WellFormed(T)
    PROVE  LET U == Buried(T) IN
           /\ Keeps(T, U) /\ U.nested = T.nested
           /\ \A q \in Key : luaH_get(U, q) = luaH_get(T, q)
<1> DEFINE U == Buried(T)
           N == [i \in DOMAIN T.node |->
                   IF T.node[i].val = nil /\ T.node[i].key \in collectable
                   THEN [T.node[i] EXCEPT !.dead = TRUE] ELSE T.node[i]]
<1>0. /\ T \in TableType /\ Len(T.array) \in Nat /\ DOMAIN T.array = 1 .. Len(T.array)
      /\ Len(T.node) \in Nat /\ DOMAIN T.node = 1 .. Len(T.node) /\ T.node \in Seq(Node)
      /\ \A i \in DOMAIN T.node : T.node[i] \in Node
    BY TableFacts DEF WellFormed, TableType
<1>1. /\ U.node = N /\ U.array = T.array /\ U.lastfree = T.lastfree /\ U.nested = T.nested
      /\ U = [array |-> T.array, node |-> N, lastfree |-> T.lastfree, nested |-> T.nested]
  <2>1. U = [T EXCEPT !.node = N]
      BY DEF Buried
  <2>. HIDE DEF N, U
  <2>. QED
      BY <1>0, <2>1 DEF TableType
<1>2. ASSUME NEW i \in DOMAIN T.node
      PROVE  /\ N[i] \in Node /\ N[i].key = T.node[i].key /\ N[i].val = T.node[i].val
             /\ N[i].next = T.node[i].next /\ (T.node[i].dead => N[i].dead)
             /\ N[i].dead /\ ~T.node[i].dead => N[i].val = nil /\ N[i].key \in collectable
             /\ T.node[i].key \notin collectable => N[i] = T.node[i]
    BY <1>0 DEF Node
<1>3. N \in Seq(Node) /\ Len(N) = Len(T.node) /\ DOMAIN N = DOMAIN T.node
  <2>1. N \in [1 .. Len(T.node) -> Node]
      BY <1>0, <1>2
  <2>. HIDE DEF N
  <2>. QED
      BY <1>0, <2>1, SeqIs
<1>. HIDE DEF N, U
<1>4. U \in TableType
    BY <1>0, <1>1, <1>3 DEF TableType
<1>5. \A i \in DOMAIN T.node :
          /\ T.node[i].val # nil => T.node[i].key # nil /\ ~T.node[i].dead
          /\ T.node[i].dead => T.node[i].key \in collectable
    BY DEF WellFormed, Keys
<1>6. nil \notin collectable
    BY KeyFacts
<1>7. \A j \in DOMAIN T.array : j \notin Index => T.array[j] = nil
    BY DEF WellFormed, Room
<1>8. Keeps(T, U)
    BY <1>1, <1>2, <1>3, <1>4, <1>5, <1>6, <1>7 DEF Keeps
<1>9. WellFormed(U)
    BY <1>8, KeepsForm
<1>10. ASSUME NEW q \in Key PROVE luaH_get(U, q) = luaH_get(T, q)
  <2>1. InArray(U, q) <=> InArray(T, q)
      BY <1>1 DEF InArray
  <2>2. CASE InArray(T, q)
      BY <1>1, <1>9, <2>1, <2>2, GetIs
  <2>3. CASE ~InArray(T, q)
    <3>1. \A x : Gives(U, q, x) <=> Gives(T, q, x)
        BY <1>1, <1>2, <1>3 DEF Gives
    <3>2. \A x : x # nil => (luaH_get(U, q) = x <=> luaH_get(T, q) = x)
        BY <1>9, <2>1, <2>3, <3>1, GetGives
    <3>. QED
        BY <3>2
  <2>. QED
      BY <2>2, <2>3
<1>. QED
    BY <1>1, <1>8, <1>10 DEF U

LEMMA BuriedConsistent ==
    ASSUME NEW T, NEW k, NEW V, NEW S, Consistent(T, k, V, S)
    PROVE  Consistent(Buried(T), k, V, S)
<1>1. /\ WellFormed(T) /\ ~T.nested
      /\ k \in Key \cup {nil, None} /\ V \subseteq Key /\ S \subseteq Key
    BY DEF Consistent
<1> DEFINE U == Buried(T)
<1>2. /\ Keeps(T, U) /\ U.nested = T.nested
      /\ \A q \in Key : luaH_get(U, q) = luaH_get(T, q)
    BY <1>1, BuriedKeeps
<1>. HIDE DEF U
<1>3. WellFormed(U)
    BY <1>1, <1>2, KeepsForm
<1>4. ASSUME k # None PROVE Traversing(U, k, V, S)
  <2>1. Traversing(T, k, V, S)
      BY <1>4 DEF Consistent
  <2>2. \A q \in S : luaH_get(U, q) # nil
      BY <1>1, <1>2, <2>1 DEF Traversing
  <2>. QED
      BY <1>1, <1>2, <1>4, <2>1, <2>2, KeepsTraversing
<1>5. Consistent(U, k, V, S)
    BY <1>1, <1>2, <1>3, <1>4 DEF Consistent
<1>. QED
    BY <1>5 DEF U

LEMMA InitIInv == Init => IInv
<1> SUFFICES ASSUME Init PROVE IInv
    OBVIOUS
<1> DEFINE T == [array |-> <<>>, node |-> <<>>, lastfree |-> 1, nested |-> FALSE]
<1>1. /\ T.array = <<>> /\ T.node = <<>> /\ T.lastfree = 1 /\ T.nested = FALSE
      /\ DOMAIN T.node = {} /\ DOMAIN T.array = {} /\ Len(T.node) = 0
    OBVIOUS
<1>2. T \in TableType
  <2>1. <<>> \in Seq(Val \cup {nil}) /\ <<>> \in Seq(Node)
      OBVIOUS
  <2>. QED
      BY <2>1 DEF TableType
<1>. HIDE DEF T
<1>3. Linked(T) /\ Homes(T) /\ Keys(T) /\ Room(T)
    BY <1>1 DEF Linked, Homes, Keys, Room
<1>4. Consistent(T, None, {}, {})
    BY <1>1, <1>2, <1>3 DEF Consistent, WellFormed
<1>5. t = T /\ iter = None /\ visited = {} /\ stay = {}
    BY DEF Init, T
<1>. QED
    BY <1>4, <1>5 DEF IInv

LEMMA NextIInv == IInv /\ [Next]_vars => IInv'
<1> SUFFICES ASSUME IInv, [Next]_vars PROVE IInv'
    OBVIOUS
<1>0. Consistent(t, iter, visited, stay) /\ WellFormed(t) /\ ~t.nested
    BY DEF IInv, Consistent
<1>1. ASSUME NEW k \in Key, NEW v \in Val \cup {nil}, Set(k, v) PROVE IInv'
  <2>1. Consistent(luaH_set(t, k, v), iter, visited, IF v = nil THEN stay \ {k} ELSE stay)
      BY <1>0, <1>1, SetConsistent DEF Set
  <2>. QED
      BY <1>1, <2>1 DEF Set, IInv
<1>2. CASE traversetable
  <2>1. t' = Buried(t) /\ iter' = iter /\ visited' = visited /\ stay' = stay
      BY <1>2 DEF traversetable, Buried, traversal
  <2>. QED
      BY <1>0, <2>1, BuriedConsistent DEF IInv
<1>3. CASE BeginTraversal
    BY <1>0, <1>3, BeginConsistent DEF BeginTraversal, IInv
<1>4. Consistent(t, None, {}, {})
    BY <1>0 DEF Consistent
<1>5. CASE next
  <2>1. CASE luaH_next(t, iter) = 0
      BY <1>4, <1>5, <2>1 DEF next, IInv
  <2>2. CASE luaH_next(t, iter) # 0
    <3>1. iter # None
        BY <1>5 DEF next
    <3>2. /\ t' = t /\ iter' = KeyAt(t, luaH_next(t, iter))
          /\ visited' = visited \cup {KeyAt(t, luaH_next(t, iter))} /\ stay' = stay
        BY <1>5, <2>2 DEF next
    <3>3. Consistent(t, KeyAt(t, luaH_next(t, iter)), visited \cup {KeyAt(t, luaH_next(t, iter))}, stay)
        BY <1>0, <2>2, <3>1, NextConsistent
    <3>. QED
        BY <3>2, <3>3 DEF IInv
  <2>. QED
      BY <2>1, <2>2
<1>6. CASE LeaveTraversal
    BY <1>4, <1>6 DEF LeaveTraversal, IInv
<1>7. CASE UNCHANGED vars
    BY <1>0, <1>7 DEF vars, traversal, IInv
<1>. QED
    BY <1>1, <1>2, <1>3, <1>5, <1>6, <1>7 DEF Next

LEMMA Invariance == Spec => []IInv
BY InitIInv, NextIInv, PTL DEF Spec

----------------------------------------------------------------------------
(* The theorems.                                                           *)

\* The table, the last key of a traversal and the keys it gave have their
\* types, and lastfree stays in the node vector.
THEOREM TypeCorrect == Spec => []TypeOK
<1>1. IInv => TypeOK
  <2> SUFFICES ASSUME IInv PROVE TypeOK
      OBVIOUS
  <2>1. t \in TableType /\ t.lastfree \in 1 .. Len(t.node) + 1
      BY DEF IInv, Consistent, WellFormed, Room
  <2>2. iter \in Key \cup {nil, None} /\ visited \subseteq Key /\ stay \subseteq Key
      BY DEF IInv, Consistent
  <2>. QED
      BY <2>1, <2>2 DEF TypeOK, TableType
<1>. QED
    BY <1>1, Invariance, PTL

\* luaH_set gives its key its value, and a rehash makes enough room: no
\* insertion of a rehash has to rehash again.
THEOREM SetStoresThm == Spec => []SetStores
<1>1. IInv => SetStores
  <2> SUFFICES ASSUME IInv, NEW k \in Key, NEW v \in Val \cup {nil}
               PROVE  ~luaH_set(t, k, v).nested /\ luaH_get(luaH_set(t, k, v), k) = v
      BY DEF SetStores
  <2>1. WellFormed(t) /\ ~t.nested
      BY DEF IInv, Consistent
  <2>. QED
      BY <2>1, SetIs
<1>. QED
    BY <1>1, Invariance, PTL

\* Every node with a value is on the chain of its key, and next finds it.
THEOREM ReachableThm == Spec => []Reachable
<1>1. IInv => Reachable
  <2> SUFFICES ASSUME IInv, NEW i \in DOMAIN t.node, t.node[i].val # nil
               PROVE  findindex(t, t.node[i].key) = Len(t.array) + i
      BY DEF Reachable
  <2>1. WellFormed(t)
      BY DEF IInv, Consistent
  <2>2. t.node[i].key # nil /\ ~t.node[i].dead
      BY <2>1 DEF WellFormed, Keys
  <2>. QED
      BY <2>1, <2>2, FindIs
<1>. QED
    BY <1>1, Invariance, PTL

\* next never raises "invalid key to next" in a traversal that only assigns
\* to fields that are there, whatever the collector does meanwhile; it gives
\* no key twice, and at its end it gave all that stayed.
THEOREM TraversalOnceThm == Spec => []TraversalOnce
<1>1. IInv => TraversalOnce
  <2> SUFFICES ASSUME IInv, iter # None,
                      NEW p, p = luaH_next(t, iter)
               PROVE  /\ findindex(t, iter) # -1
                      /\ IF p = 0 THEN stay \subseteq visited ELSE KeyAt(t, p) \notin visited
      BY DEF TraversalOnce
  <2>1. WellFormed(t) /\ Traversing(t, iter, visited, stay) /\ stay \subseteq Key
      BY DEF IInv, Consistent
  <2> DEFINE f == findindex(t, iter)
  <2>2. f \in Nat
      BY <2>1 DEF Traversing
  <2>3. /\ p = 0 => \A q \in Positions(t) : q > f => Value(t, q) = nil
        /\ p # 0 => p \in Positions(t) /\ p > f /\ Value(t, p) # nil
      BY <2>1, <2>2, NextPosition
  <2>4. PICK a, b \in Nat : Positions(t) = 1 .. a + b
      BY <2>1, PositionsAre
  <2>5. ASSUME p = 0, NEW q \in stay PROVE q \in visited
    <3>1. luaH_get(t, q) # nil /\ (findindex(t, q) <= f => q \in visited) /\ q \in Key
        BY <2>1 DEF Traversing
    <3>2. findindex(t, q) \in Positions(t) /\ Value(t, findindex(t, q)) # nil
        BY <2>1, <3>1, PositionOf
    <3>3. ~(findindex(t, q) > f) /\ findindex(t, q) \in Nat
        BY <2>3, <2>4, <2>5, <3>2
    <3>. HIDE DEF f
    <3>. QED
        BY <2>2, <3>1, <3>3
  <2>6. ASSUME p # 0 PROVE KeyAt(t, p) \notin visited
    <3>1. findindex(t, KeyAt(t, p)) = p
        BY <2>1, <2>3, <2>6, PositionIs
    <3>2. \A q \in visited : findindex(t, q) \in 1 .. f
        BY <2>1 DEF Traversing
    <3>3. p \notin 1 .. f
      <4>. HIDE DEF f
      <4>. QED
          BY <2>2, <2>3, <2>4, <2>6
    <3>. QED
        BY <3>1, <3>2, <3>3
  <2>7. findindex(t, iter) # -1
      BY <2>2
  <2>. QED
      BY <2>5, <2>6, <2>7
<1>. QED
    BY <1>1, Invariance, PTL

\* A table is a map: an assignment changes what one key gives, and neither a
\* collision, nor a rehash, nor the collector, nor a traversal changes any.
THEOREM IsMapThm == Spec => IsMap
<1> DEFINE M == [k \in Key |-> luaH_get(t, k)]
<1>1. Init => Map!Init
  <2> SUFFICES ASSUME Init PROVE Map!Init
      OBVIOUS
  <2>1. WellFormed(t) /\ t.array = <<>> /\ t.node = <<>>
      BY InitIInv DEF IInv, Consistent, Init
  <2>2. ASSUME NEW k \in Key PROVE luaH_get(t, k) = nil
      BY <2>1, FieldFacts
  <2>. QED
      BY <2>2 DEF Map!Init
<1>2. IInv /\ [Next]_vars => [Map!Next]_M
  <2> SUFFICES ASSUME IInv, [Next]_vars PROVE Map!Next \/ M' = M
      OBVIOUS
  <2>0. WellFormed(t)
      BY DEF IInv, Consistent
  <2>1. PICK U : U = t'
      OBVIOUS
  <2>2. M' = [k \in Key |-> luaH_get(U, k)]
      BY <2>1
  <2>5. ASSUME NEW k \in Key, NEW v \in Val \cup {nil}, Set(k, v) PROVE Map!Next
    <3>1. luaH_get(U, k) = v /\ \A q \in Key \ {k} : luaH_get(U, q) = luaH_get(t, q)
        BY <2>0, <2>1, <2>5, SetIs DEF Set
    <3>2. M' = [M EXCEPT ![k] = v]
        BY <2>2, <3>1
    <3>. QED
        BY <3>2 DEF Map!Next
  <2>6. CASE traversetable
    <3>1. U = Buried(t)
        BY <2>1, <2>6 DEF traversetable, Buried
    <3>2. \A q \in Key : luaH_get(U, q) = luaH_get(t, q)
        BY <2>0, <3>1, BuriedKeeps
    <3>. QED
        BY <2>2, <3>2
  <2>7. CASE UNCHANGED t
      BY <2>7
  <2>. QED
      BY <2>5, <2>6, <2>7 DEF Next, BeginTraversal, next, LeaveTraversal, vars
<1>. QED
    BY <1>1, <1>2, Invariance, PTL DEF Spec, IsMap, Map!Spec

----------------------------------------------------------------------------
(* The size of the array part.                                             *)

LEMMA UpToIs ==
    ASSUME NEW I \in SUBSET Index, NEW n \in Nat
    PROVE  /\ IsFiniteSet(I) /\ Cardinality(I) \in Nat /\ UpTo(I, n) \in Nat
           /\ UpTo(I, n) <= n /\ UpTo(I, n) <= Cardinality(I)
           /\ \A m \in Nat : UpTo(I, m) > n => \E k \in I : k <= m /\ n < k
<1> DEFINE J(m) == {k \in I : k <= m}
<1>1. IsFiniteSet(I) /\ Cardinality(I) \in Nat
    BY TableAssumption, FS_Subset, FS_CardinalityType
<1>2. \A m \in Nat : J(m) \in SUBSET I /\ UpTo(I, m) = Cardinality(J(m))
    BY DEF UpTo
<1>3. ASSUME NEW m \in Nat
      PROVE  IsFiniteSet(J(m)) /\ Cardinality(J(m)) <= Cardinality(I) /\ Cardinality(J(m)) \in Nat
  <2>1. J(m) \in SUBSET I
      BY <1>2
  <2>. HIDE DEF J
  <2>. QED
      BY <1>1, <2>1, FS_Subset, FS_CardinalityType
<1>4. IsFiniteSet(1 .. n) /\ Cardinality(1 .. n) = n
    BY FS_Interval
<1>5. ASSUME NEW m \in Nat, J(m) \subseteq 1 .. n PROVE Cardinality(J(m)) <= n
  <2>. HIDE DEF J
  <2>. QED
      BY <1>4, <1>5, FS_Subset
<1>6. J(n) \subseteq 1 .. n
  <2>1. \A k \in I : k \in Nat /\ k >= 1
      BY KeyFacts
  <2>. QED
      BY <2>1
<1>7. ASSUME NEW m \in Nat, UpTo(I, m) > n PROVE \E k \in I : k <= m /\ n < k
  <2>1. ~(J(m) \subseteq 1 .. n)
    <3>1. UpTo(I, m) = Cardinality(J(m)) /\ Cardinality(J(m)) \in Nat
        BY <1>2, <1>3
    <3>2. ~(Cardinality(J(m)) <= n)
      <4>. HIDE DEF J
      <4>. QED
          BY <1>7, <3>1
    <3>. QED
        BY <1>5, <3>2
  <2>2. PICK k \in J(m) : k \notin 1 .. n
      BY <2>1
  <2>. QED
      BY <2>2, KeyFacts
<1>8. UpTo(I, n) = Cardinality(J(n))
    BY <1>2
<1>. HIDE DEF J
<1>. QED
    BY <1>1, <1>3, <1>5, <1>6, <1>7, <1>8

\* Half of a power of two.
LEMMA Half ==
    ASSUME NEW e \in Nat
    PROVE  /\ 2 ^ e \in Nat \ {0} /\ 2 ^ e \div 2 \in Nat
           /\ \A n \in Nat : n > 2 ^ e \div 2 <=> 2 * n > 2 ^ e
           /\ e = 0 => 2 ^ e = 1 /\ 2 ^ e \div 2 = 0
           /\ e # 0 => e - 1 \in Nat /\ 2 ^ e \div 2 = 2 ^ (e - 1) /\ 2 ^ e = 2 * 2 ^ (e - 1)
<1>1. CASE e = 0
  <2>1. 2 ^ e = 1
      BY <1>1, TwoTo
  <2>2. 1 \div 2 = 0
      OBVIOUS
  <2>. QED
      BY <1>1, <2>1, <2>2
<1>2. CASE e # 0
  <2>1. PICK d \in Nat : d = e - 1 /\ e = d + 1
    <3>1. e - 1 \in Nat
        BY <1>2
    <3>. QED
        BY <3>1
  <2>2. 2 ^ (d + 1) = 2 * 2 ^ d
      BY TwoToNext
  <2>3. PICK x \in Nat : x = 2 ^ d
      BY TwoTo
  <2>4. 2 ^ e = 2 * x
      BY <2>1, <2>2, <2>3
  <2>5. x > 0
      BY <2>3, TwoToGrows
  <2>6. (2 * x) \div 2 = x
      OBVIOUS
  <2>. QED
      BY <1>2, <2>1, <2>3, <2>4, <2>5, <2>6
<1>. QED
    BY <1>1, <1>2

LEMMA SizeIs ==
    ASSUME NEW I \in SUBSET Index, NEW n, n = computesizes(I)
    PROVE  /\ n \in Nat
           /\ n = 0 \/ (n \in {2 ^ e : e \in 0 .. n} /\ MoreThanHalf(I, n))
           /\ \A e \in Nat : 2 ^ e > n => ~MoreThanHalf(I, 2 ^ e)
<1> DEFINE F == {e \in 0 .. Cardinality(I) :
                    /\ 2 ^ e \div 2 < Cardinality(I)
                    /\ \E k \in I : ceillog2(k) = e
                    /\ UpTo(I, 2 ^ e) > 2 ^ e \div 2}
           c == CHOOSE e \in F : \A d \in F : d <= e
<1>1. n = IF F = {} THEN 0 ELSE 2 ^ c
    BY DEF computesizes
<1>2. IsFiniteSet(I) /\ Cardinality(I) \in Nat /\ n \in Nat
    BY UpToIs, SizeType
<1>3. F \in SUBSET Nat /\ \A e \in F : e <= Cardinality(I)
    BY <1>2
<1>4. ASSUME F # {} PROVE c \in F /\ \A d \in F : d <= c
  <2>. HIDE DEF F
  <2>1. \E e \in F : \A d \in F : d <= e
      BY <1>2, <1>3, <1>4, Largest
  <2>. QED
      BY <2>1
<1>5. ASSUME NEW e \in F PROVE UpTo(I, 2 ^ e) > 2 ^ e \div 2 /\ e \in Nat
    BY <1>3
<1>6. ASSUME n # 0 PROVE n \in {2 ^ e : e \in 0 .. n} /\ MoreThanHalf(I, n)
  <2>1. c \in F /\ n = 2 ^ c
      BY <1>1, <1>4, <1>6
  <2>2. c \in Nat /\ UpTo(I, 2 ^ c) > 2 ^ c \div 2
      BY <1>5, <2>1
  <2>. HIDE DEF F, c
  <2>3. c < 2 ^ c
      BY <2>2, TwoToGrows
  <2>4. c \in 0 .. n
      BY <1>2, <2>1, <2>2, <2>3
  <2>5. UpTo(I, n) \in Nat
      BY <1>2, UpToIs
  <2>6. 2 * UpTo(I, n) > n
      BY <2>1, <2>2, <2>5, Half
  <2>. QED
      BY <2>1, <2>4, <2>6 DEF MoreThanHalf
<1>7. ASSUME NEW e \in Nat, 2 ^ e > n, MoreThanHalf(I, 2 ^ e) PROVE FALSE
  <2>1. PICK x \in Nat, h \in Nat : x = 2 ^ e /\ h = 2 ^ e \div 2
      BY Half
  <2>2. UpTo(I, x) \in Nat /\ UpTo(I, x) > h /\ UpTo(I, x) <= Cardinality(I)
    <3>1. UpTo(I, x) \in Nat /\ UpTo(I, x) <= Cardinality(I)
        BY UpToIs
    <3>2. 2 * UpTo(I, x) > 2 ^ e
        BY <1>7, <2>1 DEF MoreThanHalf
    <3>. QED
        BY <2>1, <3>1, <3>2, Half
  <2>3. h < Cardinality(I)
      BY <1>2, <2>2
  <2>4. PICK k \in I : k <= x /\ h < k
      BY <2>2, UpToIs
  <2>5. k \in Nat \ {0}
      BY KeyFacts
  <2>6. ceillog2(k) = e
    <3> DEFINE l == ceillog2(k)
    <3>1. l \in Nat /\ 2 ^ l >= k /\ \A d \in 0 .. l - 1 : 2 ^ d < k
        BY <2>5, CeilLog
    <3>. HIDE DEF l
    <3>2. l <= e
      <4> SUFFICES ASSUME e < l PROVE FALSE
          BY <3>1
      <4>1. 2 ^ e < k
          BY <3>1
      <4>. QED
          BY <2>1, <2>4, <2>5, <4>1
    <3>3. e <= l
      <4> SUFFICES ASSUME l < e PROVE FALSE
          BY <3>1
      <4>1. 2 * 2 ^ l <= 2 ^ e
          BY <3>1, TwoToGrows
      <4>2. PICK y \in Nat : y = 2 ^ l
          BY <3>1, TwoTo
      <4>3. ~(2 * y > x)
          BY <2>1, <4>1, <4>2
      <4>4. ~(y > h)
          BY <2>1, <4>2, <4>3, Half
      <4>. QED
          BY <2>4, <2>5, <3>1, <4>2, <4>4
    <3>4. l = e
        BY <3>1, <3>2, <3>3
    <3>. QED
        BY <3>4 DEF l
  <2>7. e <= Cardinality(I)
    <3>1. CASE e = 0
        BY <1>2, <3>1
    <3>2. CASE e # 0
      <4>1. e - 1 \in Nat /\ h = 2 ^ (e - 1)
          BY <2>1, <3>2, Half
      <4>2. e - 1 < h
          BY <4>1, TwoToGrows
      <4>. QED
          BY <1>2, <2>1, <2>3, <4>1, <4>2
    <3>. QED
        BY <3>1, <3>2
  <2>8. e \in F
      BY <1>2, <2>1, <2>2, <2>3, <2>6, <2>7
  <2>9. c \in F /\ e <= c /\ n = 2 ^ c /\ c \in Nat
    <3>1. F # {}
        BY <2>8
    <3>. QED
        BY <1>1, <1>3, <1>4, <2>8, <3>1
  <2>. HIDE DEF c, F
  <2>10. CASE e = c
      BY <1>2, <1>7, <2>1, <2>9, <2>10
  <2>11. CASE e # c
    <3>1. 2 * 2 ^ e <= 2 ^ c
        BY <2>9, <2>11, TwoToGrows
    <3>. QED
        BY <1>2, <1>7, <2>1, <2>9, <3>1
  <2>. QED
      BY <2>10, <2>11
<1>. QED
    BY <1>2, <1>6, <1>7

\* The array part a rehash makes is the largest of which more than half is in
\* use.
THEOREM ArrayOptimalThm == Spec => []ArrayOptimal
<1>1. IInv => ArrayOptimal
  <2> SUFFICES ASSUME IInv, NEW k \in Key, NeedsRehash(t, k),
                      NEW I, I = (Used(t) \cup {k}) \cap Index,
                      NEW n, n = Len(rehash(t, k).array)
               PROVE  /\ n = 0 \/ (n \in {2 ^ e : e \in 0 .. n} /\ MoreThanHalf(I, n))
                      /\ \A e \in 0 .. Cardinality(Index) : 2 ^ e > n => ~MoreThanHalf(I, 2 ^ e)
      BY DEF ArrayOptimal
  <2>1. WellFormed(t)
      BY DEF IInv, Consistent
  <2>2. n = computesizes(I)
      BY <2>1, RehashIs
  <2>3. I \in SUBSET Index
      OBVIOUS
  <2>4. \A e \in 0 .. Cardinality(Index) : e \in Nat
      OBVIOUS
  <2>. QED
      BY <2>2, <2>3, <2>4, SizeIs
<1>. QED
    BY <1>1, Invariance, PTL

----------------------------------------------------------------------------
(* The length operator.                                                    *)

LEMMA IteratedRuns ==
    ASSUME NEW s, NEW x, NEW n \in Nat
    PROVE  \E f : /\ f[0] = x /\ \A m \in 1 .. n : f[m] = s[f[m - 1]]
                  /\ Iterated(s, x, n) = f[n]
<1> DEFINE Good(g, N) == g[0] = x /\ \A m \in 1 .. N : g[m] = s[g[m - 1]]
           P == {N \in Nat : \E g : Good(g, N)}
           Fix(f) == f = [m \in 0 .. n |-> IF m = 0 THEN x ELSE s[f[m - 1]]]
<1>1. 0 \in P
  <2>1. Good([m \in {0} |-> x], 0)
      OBVIOUS
  <2>. QED
      BY <2>1
<1>2. ASSUME NEW N \in Nat, N \in P PROVE N + 1 \in P
  <2>1. PICK g : Good(g, N)
      BY <1>2
  <2> DEFINE h == [m \in 0 .. N + 1 |-> IF m = N + 1 THEN s[g[N]] ELSE g[m]]
  <2>2. \A m \in 0 .. N : h[m] = g[m]
      OBVIOUS
  <2>3. h[N + 1] = s[g[N]]
      OBVIOUS
  <2>. HIDE DEF h
  <2>4. ASSUME NEW m \in 1 .. N + 1 PROVE h[m] = s[h[m - 1]]
    <3>1. CASE m = N + 1
        BY <2>2, <2>3, <3>1
    <3>2. CASE m \in 1 .. N
      <4>1. h[m] = g[m] /\ h[m - 1] = g[m - 1]
          BY <3>2, <2>2
      <4>. QED
          BY <3>2, <4>1, <2>1
    <3>. QED
        BY <3>1, <3>2
  <2>5. h[0] = x
      BY <2>1, <2>2
  <2>6. Good(h, N + 1)
      BY <2>4, <2>5
  <2>. QED
      BY <2>6
<1>3. n \in P
  <2>. HIDE DEF P
  <2>. QED
      BY <1>1, <1>2, SetInduction
<1>4. PICK g : Good(g, n)
    BY <1>3
<1> DEFINE f == [m \in 0 .. n |-> g[m]]
<1>5. Fix(f)
  <2>1. \A m \in 0 .. n : f[m] = g[m]
      OBVIOUS
  <2>2. f = [m \in 0 .. n |-> f[m]]
      OBVIOUS
  <2>. HIDE DEF f
  <2>3. ASSUME NEW m \in 0 .. n PROVE f[m] = IF m = 0 THEN x ELSE s[f[m - 1]]
    <3>1. f[m] = g[m] /\ (m # 0 => f[m - 1] = g[m - 1] /\ m \in 1 .. n)
        BY <2>1
    <3>. QED
        BY <3>1, <1>4
  <2>. QED
      BY <2>2, <2>3
<1> DEFINE c == CHOOSE y : Fix(y)
<1>6. Fix(c)
  <2>. HIDE DEF f, Fix
  <2>. QED
      BY <1>5
<1>7. Iterated(s, x, n) = c[n]
    BY DEF Iterated
<1>. HIDE DEF c
<1>8. c[0] = x /\ \A m \in 1 .. n : c[m] = s[c[m - 1]]
    BY <1>6
<1>. QED
    BY <1>7, <1>8

\* There is a border between l and h.
Edges(T, l, h) ==
    /\ l < h /\ (l = 0 \/ luaH_getnum(T, l) # nil)
    /\ luaH_getnum(T, h) = nil

\* The index of a value with none after it.
IsEdge(T, n) == n \in Nat /\ (n = 0 \/ luaH_getnum(T, n) # nil) /\ luaH_getnum(T, n + 1) = nil

LEMMA BorderIs ==
    ASSUME NEW T, NEW i \in Nat, NEW j \in Nat, Edges(T, i, j)
    PROVE  IsEdge(T, Border(T, i, j))
<1> DEFINE D == (0 .. j) \X (0 .. j)
           Step(x) == LET m == (x[1] + x[2]) \div 2 IN
                      IF x[2] - x[1] <= 1 THEN x
                      ELSE IF luaH_getnum(T, m) = nil THEN <<x[1], m>> ELSE <<m, x[2]>>
           halve == [x \in D |-> Step(x)]
           Good(m, x) == /\ x \in D /\ Edges(T, x[1], x[2])
                         /\ x[2] - x[1] <= 1 \/ x[2] - x[1] <= (j - i) - m
<1>0. i < j /\ j - i \in Nat
    BY DEF Edges
<1>1. PICK f : /\ f[0] = <<i, j>> /\ \A m \in 1 .. j - i : f[m] = halve[f[m - 1]]
               /\ Iterated(halve, <<i, j>>, j - i) = f[j - i]
  <2> DEFINE n == j - i
             x == <<i, j>>
  <2>0. n \in Nat
      BY <1>0
  <2>. HIDE DEF halve, n, x
  <2>1. \E f : /\ f[0] = x /\ \A m \in 1 .. n : f[m] = halve[f[m - 1]]
               /\ Iterated(halve, x, n) = f[n]
      BY <2>0, IteratedRuns
  <2>. QED
      BY <2>1 DEF n, x
<1>2. Border(T, i, j) = f[j - i][1]
    BY <1>1 DEF Border
<1>3. ASSUME NEW m \in Nat, NEW l \in 0 .. j, NEW h \in 0 .. j, Good(m, <<l, h>>)
      PROVE  Good(m + 1, Step(<<l, h>>))
  <2>1. Edges(T, l, h) /\ (h - l <= 1 \/ h - l <= (j - i) - m)
      BY <1>3
  <2>2. CASE h - l <= 1
    <3>1. Step(<<l, h>>) = <<l, h>>
        BY <2>2
    <3>. QED
        BY <1>3, <2>1, <2>2, <3>1
  <2>3. CASE ~(h - l <= 1)
    <3>1. PICK k \in 0 .. j : k = (l + h) \div 2 /\ l < k /\ k < h
      <4>1. (l + h) \div 2 \in 0 .. j /\ l < (l + h) \div 2 /\ (l + h) \div 2 < h
          BY <2>3
      <4>. QED
          BY <4>1
    <3>2. CASE luaH_getnum(T, k) = nil
      <4>1. Step(<<l, h>>) = <<l, k>>
          BY <2>3, <3>1, <3>2
      <4>2. Edges(T, l, k)
          BY <2>1, <3>1, <3>2 DEF Edges
      <4>3. k - l <= (j - i) - (m + 1)
          BY <1>0, <2>1, <2>3, <3>1
      <4>. QED
          BY <4>1, <4>2, <4>3
    <3>3. CASE luaH_getnum(T, k) # nil
      <4>1. Step(<<l, h>>) = <<k, h>>
          BY <2>3, <3>1, <3>3
      <4>2. Edges(T, k, h)
          BY <2>1, <3>1, <3>3 DEF Edges
      <4>3. h - k <= (j - i) - (m + 1)
          BY <1>0, <2>1, <2>3, <3>1
      <4>. QED
          BY <4>1, <4>2, <4>3
    <3>. QED
        BY <3>2, <3>3
  <2>. QED
      BY <2>2, <2>3
<1>4. \A x \in D : \E l, h \in 0 .. j : x = <<l, h>>
    OBVIOUS
<1>5. ASSUME NEW m \in Nat, NEW x, Good(m, x) PROVE Good(m + 1, Step(x)) /\ halve[x] = Step(x)
  <2>1. x \in D
      BY <1>5
  <2>2. PICK l, h \in 0 .. j : x = <<l, h>>
      BY <1>4, <2>1
  <2>3. Good(m + 1, Step(x))
    <3>. HIDE DEF Step, Good
    <3>. QED
        BY <1>3, <1>5, <2>2
  <2>4. halve[x] = Step(x)
    <3>. HIDE DEF Step, D
    <3>. QED
        BY <2>1
  <2>. QED
      BY <2>3, <2>4
<1> DEFINE S == {m \in Nat : m <= j - i => Good(m, f[m])}
<1>6. 0 \in S
  <2>1. Good(0, <<i, j>>)
      BY <1>0
  <2>. HIDE DEF Good
  <2>. QED
      BY <1>1, <2>1
<1>7. ASSUME NEW m \in Nat, m \in S PROVE m + 1 \in S
  <2> SUFFICES ASSUME m + 1 <= j - i PROVE Good(m + 1, f[m + 1])
      OBVIOUS
  <2>1. Good(m, f[m])
      BY <1>0, <1>7
  <2>2. m + 1 \in 1 .. j - i /\ (m + 1) - 1 = m
      BY <1>0
  <2>3. f[m + 1] = halve[f[m]]
    <3>. HIDE DEF halve
    <3>. QED
        BY <1>1, <2>2
  <2>. HIDE DEF Good, halve, Step
  <2>. QED
      BY <1>5, <2>1, <2>3
<1>8. Good(j - i, f[j - i])
  <2>1. j - i \in S
    <3>. HIDE DEF S
    <3>. QED
        BY <1>0, <1>6, <1>7, SetInduction
  <2>. HIDE DEF Good
  <2>. QED
      BY <1>0, <2>1
<1>9. PICK l, h \in 0 .. j : f[j - i] = <<l, h>>
    BY <1>4, <1>8
<1>10. Edges(T, l, h) /\ h - l <= 1
    BY <1>0, <1>8, <1>9 DEF Edges
<1>11. h = l + 1
    BY <1>10 DEF Edges
<1>. QED
    BY <1>2, <1>9, <1>10, <1>11 DEF IsEdge, Edges

LEMMA GetNum ==
    ASSUME NEW T, WellFormed(T), NEW j \in Nat
    PROVE  /\ j \in DOMAIN T.array => luaH_getnum(T, j) = T.array[j]
           /\ j \notin DOMAIN T.array /\ T.node = <<>> => luaH_getnum(T, j) = nil
           /\ j \notin Index => luaH_getnum(T, j) = nil
<1>0. Len(T.array) \in Nat /\ DOMAIN T.array = 1 .. Len(T.array)
    BY TableFacts DEF WellFormed
<1>1. CASE j \in Index
  <2>1. luaH_getnum(T, j) = luaH_get(T, j) /\ j \in Key
      BY <1>1 DEF luaH_getnum, Key
  <2>2. InArray(T, j) <=> j \in DOMAIN T.array
      BY <1>0, <1>1, KeyFacts DEF InArray
  <2>3. j \in DOMAIN T.array => luaH_get(T, j) = T.array[j]
      BY <2>1, <2>2, GetIs
  <2>4. ASSUME j \notin DOMAIN T.array, T.node = <<>> PROVE luaH_get(T, j) = nil
    <3>1. \A i \in DOMAIN T.node : ~Live(j, T.node[i])
        BY <2>4
    <3>. QED
        BY <2>1, <2>2, <2>4, <3>1, GetIs
  <2>. QED
      BY <1>1, <2>1, <2>3, <2>4
<1>2. CASE j \notin Index
  <2>1. j \in DOMAIN T.array => T.array[j] = nil
      BY <1>2 DEF WellFormed, Room
  <2>. QED
      BY <1>2, <2>1 DEF luaH_getnum
<1>. QED
    BY <1>1, <1>2

LEMMA LinearIs ==
    ASSUME NEW T, WellFormed(T)
    PROVE  IsEdge(T, Linear(T) - 1)
<1> DEFINE C == Cardinality(Index)
           S == {i \in 1 .. C + 1 : luaH_getnum(T, i) = nil}
           P(i) == luaH_getnum(T, i) = nil /\ \A j \in 1 .. i - 1 : luaH_getnum(T, j) # nil
           c == CHOOSE i \in 1 .. C + 1 : P(i)
<1>0. C \in Nat /\ Index = 1 .. C
    BY TableAssumption, FS_CardinalityType
<1>. HIDE DEF C
<1>1. C + 1 \in S
  <2>1. C + 1 \notin Index /\ C + 1 \in Nat /\ C + 1 \in 1 .. C + 1
      BY <1>0
  <2>. QED
      BY <2>1, GetNum
<1>2. PICK n \in S : \A i \in S : n <= i
  <2>1. S \in SUBSET Nat
      BY <1>0
  <2>. HIDE DEF S
  <2>. QED
      BY <1>1, <2>1, Smallest
<1>3. n \in 1 .. C + 1 /\ luaH_getnum(T, n) = nil
    OBVIOUS
<1>4. ASSUME NEW j \in 1 .. n - 1 PROVE luaH_getnum(T, j) # nil
  <2>1. j \in 1 .. C + 1 /\ ~(n <= j)
      BY <1>0, <1>3
  <2>. QED
      BY <1>2, <2>1
<1>5. c \in 1 .. C + 1 /\ P(c)
  <2>1. \E i \in 1 .. C + 1 : P(i)
      BY <1>3, <1>4
  <2>. HIDE DEF P
  <2>. QED
      BY <2>1
<1>6. Linear(T) = c
    BY DEF Linear, C
<1>. HIDE DEF c
<1>7. c \in Nat /\ c >= 1 /\ c - 1 \in Nat /\ (c - 1) + 1 = c
    BY <1>0, <1>5
<1>8. c - 1 = 0 \/ luaH_getnum(T, c - 1) # nil
  <2>1. c - 1 # 0 => c - 1 \in 1 .. c - 1
      BY <1>7
  <2>. QED
      BY <1>5, <2>1
<1>. QED
    BY <1>5, <1>6, <1>7, <1>8 DEF IsEdge

LEMMA UnboundSearchIs ==
    ASSUME NEW T, WellFormed(T), NEW n \in Nat, n = 0 \/ luaH_getnum(T, n) # nil
    PROVE  IsEdge(T, unbound_search(T, n))
<1> DEFINE M == n + 1 + MAX_INT
           D == (0 .. M) \X (0 .. M)
           Step(x) == IF luaH_getnum(T, x[2]) = nil \/ 2 * x[2] > MAX_INT THEN x
                      ELSE <<x[2], 2 * x[2]>>
           double == [x \in D |-> Step(x)]
           Good(x) == x \in D /\ x[1] < x[2] /\ (x[1] = 0 \/ luaH_getnum(T, x[1]) # nil)
           z == Iterated(double, <<n, n + 1>>, MAX_INT)
<1>0. MAX_INT \in Nat /\ M \in Nat /\ n + 1 <= M
    BY TableAssumption
<1>1. PICK f : /\ f[0] = <<n, n + 1>> /\ \A m \in 1 .. MAX_INT : f[m] = double[f[m - 1]]
               /\ z = f[MAX_INT]
  <2>. HIDE DEF double
  <2>. QED
      BY <1>0, IteratedRuns
<1>2. unbound_search(T, n) =
        IF luaH_getnum(T, z[2]) = nil THEN Border(T, z[1], z[2]) ELSE Linear(T) - 1
    BY DEF unbound_search
<1>. HIDE DEF z
<1>3. ASSUME NEW l \in 0 .. M, NEW h \in 0 .. M, Good(<<l, h>>) PROVE Good(Step(<<l, h>>))
  <2>1. CASE luaH_getnum(T, h) = nil \/ 2 * h > MAX_INT
      BY <1>3, <2>1
  <2>2. CASE luaH_getnum(T, h) # nil /\ ~(2 * h > MAX_INT)
    <3>1. Step(<<l, h>>) = <<h, 2 * h>>
        BY <2>2
    <3>2. l < h
        BY <1>3
    <3>3. 2 * h \in 0 .. M /\ h < 2 * h
        BY <1>0, <2>2, <3>2
    <3>. QED
        BY <2>2, <3>1, <3>3
  <2>. QED
      BY <2>1, <2>2
<1>4. \A x \in D : \E l, h \in 0 .. M : x = <<l, h>>
    OBVIOUS
<1>5. ASSUME NEW x, Good(x) PROVE Good(double[x])
  <2>1. x \in D
      BY <1>5
  <2>2. PICK l, h \in 0 .. M : x = <<l, h>>
      BY <1>4, <2>1
  <2>3. Good(Step(x))
    <3>. HIDE DEF Step, Good
    <3>. QED
        BY <1>3, <1>5, <2>2
  <2>4. double[x] = Step(x)
    <3>. HIDE DEF Step, D
    <3>. QED
        BY <2>1
  <2>. HIDE DEF Step, Good, double
  <2>. QED
      BY <2>3, <2>4
<1> DEFINE S == {m \in Nat : m <= MAX_INT => Good(f[m])}
<1>6. 0 \in S
  <2>1. Good(<<n, n + 1>>)
      BY <1>0
  <2>. HIDE DEF Good
  <2>. QED
      BY <1>1, <2>1
<1>7. ASSUME NEW m \in Nat, m \in S PROVE m + 1 \in S
  <2> SUFFICES ASSUME m + 1 <= MAX_INT PROVE Good(f[m + 1])
      OBVIOUS
  <2>1. Good(f[m])
      BY <1>0, <1>7
  <2>2. m + 1 \in 1 .. MAX_INT /\ (m + 1) - 1 = m
      BY <1>0
  <2>3. f[m + 1] = double[f[m]]
    <3>. HIDE DEF double
    <3>. QED
        BY <1>1, <2>2
  <2>. HIDE DEF Good, double
  <2>. QED
      BY <1>5, <2>1, <2>3
<1>8. Good(z)
  <2>1. MAX_INT \in S
    <3>. HIDE DEF S
    <3>. QED
        BY <1>0, <1>6, <1>7, SetInduction
  <2>. HIDE DEF Good
  <2>. QED
      BY <1>0, <1>1, <2>1
<1>9. PICK l, h \in 0 .. M : z = <<l, h>>
    BY <1>4, <1>8
<1>10. l \in Nat /\ h \in Nat /\ l < h /\ (l = 0 \/ luaH_getnum(T, l) # nil)
    BY <1>0, <1>8, <1>9
<1>11. CASE luaH_getnum(T, h) = nil
  <2>1. Edges(T, l, h)
      BY <1>10, <1>11 DEF Edges
  <2>. QED
      BY <1>2, <1>9, <1>10, <1>11, <2>1, BorderIs
<1>12. CASE luaH_getnum(T, h) # nil
    BY <1>2, <1>9, <1>12, LinearIs
<1>. QED
    BY <1>11, <1>12

\* luaH_getn, by whichever of its three searches, gives a border.
THEOREM LengthIsBorderThm == Spec => []LengthIsBorder
<1>1. IInv => LengthIsBorder
  <2> SUFFICES ASSUME IInv PROVE IsEdge(t, luaH_getn(t))
      BY DEF LengthIsBorder, IsBorder, IsEdge
  <2>1. WellFormed(t)
      BY DEF IInv, Consistent
  <2>2. PICK j \in Nat : j = Len(t.array) /\ DOMAIN t.array = 1 .. j
      BY <2>1, TableFacts DEF WellFormed
  <2>3. luaH_getn(t) = IF j > 0 /\ t.array[j] = nil THEN Border(t, 0, j)
                       ELSE IF t.node = <<>> THEN j ELSE unbound_search(t, j)
      BY <2>2 DEF luaH_getn
  <2>4. j # 0 => j \in DOMAIN t.array /\ luaH_getnum(t, j) = t.array[j]
      BY <2>1, <2>2, GetNum
  <2>5. CASE j > 0 /\ t.array[j] = nil
    <3>1. Edges(t, 0, j)
        BY <2>4, <2>5 DEF Edges
    <3>. QED
        BY <2>3, <2>5, <3>1, BorderIs
  <2>6. CASE ~(j > 0 /\ t.array[j] = nil)
    <3>1. j = 0 \/ luaH_getnum(t, j) # nil
        BY <2>4, <2>6
    <3>2. CASE t.node = <<>>
      <4>1. j + 1 \in Nat /\ j + 1 \notin DOMAIN t.array
          BY <2>2
      <4>2. luaH_getnum(t, j + 1) = nil
          BY <2>1, <3>2, <4>1, GetNum
      <4>. QED
          BY <2>3, <2>6, <3>1, <3>2, <4>2 DEF IsEdge
    <3>3. CASE t.node # <<>>
        BY <2>1, <2>3, <2>6, <3>1, <3>3, UnboundSearchIs
    <3>. QED
        BY <3>2, <3>3
  <2>. QED
      BY <2>5, <2>6
<1>. QED
    BY <1>1, Invariance, PTL
=============================================================================
