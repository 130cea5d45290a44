------------------------------- MODULE Table -------------------------------
(***************************************************************************)
(* The tables of Lua (src/lua/ltable.c): an array part, and a hash part    *)
(* with chained scatter and Brent's variation, which are resized together  *)
(* when a new key finds no free node; traversal with next, while fields    *)
(* change and the collector turns the keys of empty fields into dead keys; *)
(* the length operator.                                                    *)
(*                                                                         *)
(* Keys are integers from 1, strings, and other objects, which are their   *)
(* addresses.  The source lets a rehash call, through luaH_set, newkey and *)
(* rehash again; here an insertion in a rehash that finds no free node     *)
(* sets `nested' instead, and SetStores says it never does.                *)
(***************************************************************************)
EXTENDS Integers, FiniteSets, SequencesExt

CONSTANTS Index,    \* integer keys, a range from 1
          Str,      \* string keys
          Object,   \* keys that are other collectable objects
          Hash,     \* Hash[k]: what the main position of k is computed from
          Val, nil, None,
          MAX_INT   \* INT_MAX, where the search for a border stops doubling

ASSUME TableAssumption ==
    /\ IsFiniteSet(Index) /\ Index = 1 .. Cardinality(Index)
    /\ Index \cap Str = {} /\ Index \cap Object = {} /\ Str \cap Object = {}
    /\ {nil, None} \cap (Val \cup Index \cup Str \cup Object) = {} /\ nil # None
    /\ Hash \in [Index \cup Str \cup Object -> Nat]
    /\ MAX_INT \in Nat \ {0}

Key == Index \cup Str \cup Object
collectable == Str \cup Object

VARIABLES t,       \* the table: array, node, lastfree (and nested)
          iter,    \* the last key of the running traversal, or nil, or none
          visited, \* the keys the traversal gave
          stay     \* the keys present ever since it began

traversal == <<iter, visited, stay>>
vars == <<t, traversal>>

\* node[1] is the C node 0.  Without a hash part (dummynode) node is empty.
Node == [key : Key \cup {nil}, dead : BOOLEAN, val : Val \cup {nil}, next : Nat]

TypeOK ==
    /\ t.array \in Seq(Val \cup {nil})
    /\ t.node \in Seq(Node)
    /\ t.lastfree \in 1 .. Len(t.node) + 1
    /\ t.nested \in BOOLEAN
    /\ iter \in Key \cup {nil, None}
    /\ visited \subseteq Key /\ stay \subseteq Key

Virgin == [key |-> nil, dead |-> FALSE, val |-> nil, next |-> 0]

\* luaH_new(L, 0, 0)
Init ==
    /\ t = [array |-> <<>>, node |-> <<>>, lastfree |-> 1, nested |-> FALSE]
    /\ iter = None /\ visited = {} /\ stay = {}

----------------------------------------------------------------------------
(* Search.                                                                 *)

\* hashpow2 for strings, hashmod for the others: (size - 1) | 1 is size - 1
\* for the powers of two but 1
mainposition(T, k) ==
    LET size == Len(T.node) IN
    1 + (Hash[k] % (IF k \in Str \/ size = 1 THEN size ELSE size - 1))

\* following next, one gets from node i to node j: no set of nodes that has
\* i and not j is closed under next
Reaches(T, i, j) ==
    i = j \/ \A S \in SUBSET (DOMAIN T.node \ {j}) :
                i \in S => \E a \in S : T.node[a].next \notin S \cup {0}

InArray(T, k) == k \in Index /\ k <= Len(T.array)

\* the first node of F on the main chain of k, or 0
FirstOf(T, k, F) ==
    LET C == {i \in F : Reaches(T, mainposition(T, k), i)}
    IN  IF C = {} THEN 0 ELSE CHOOSE i \in C : \A j \in C : Reaches(T, i, j)

Live(k, n) == n.key = k /\ ~n.dead

\* the node luaH_get finds for k, or 0
Find(T, k) == FirstOf(T, k, {i \in DOMAIN T.node : Live(k, T.node[i])})

luaH_get(T, k) ==
    IF InArray(T, k) THEN T.array[k]
    ELSE LET i == Find(T, k) IN IF i # 0 THEN T.node[i].val ELSE nil

----------------------------------------------------------------------------
(* Insertion.                                                              *)

\* getfreepos: the last node below lastfree that never had a key, or 0
getfreepos(T) ==
    LET S == {i \in 1 .. T.lastfree - 1 : T.node[i].key = nil}
    IN  IF S = {} THEN 0 ELSE CHOOSE i \in S : \A j \in S : j <= i

\* the node at mp, out of its main position, goes to n: its predecessor is
\* found from its main position
Moved(T, mp, n) ==
    LET prev == CHOOSE p \in DOMAIN T.node :
                    /\ Reaches(T, mainposition(T, T.node[mp].key), p)
                    /\ T.node[p].next = mp
    IN  [T.node EXCEPT ![prev].next = n,
                       ![n] = T.node[mp],
                       ![mp] = Virgin]

Filled(node, i, k, v) ==
    [node EXCEPT ![i] = [key |-> k, dead |-> FALSE, val |-> v, next |-> @.next]]

\* Mutant: a colliding key goes to the end of the chain.
NewNode_AtEnd(T, k, v) ==
    LET mp == mainposition(T, k)
        n == getfreepos(T)
        last == CHOOSE i \in DOMAIN T.node : Reaches(T, mp, i) /\ T.node[i].next = 0
        taken == [T EXCEPT !.lastfree = n]
    IN  IF T.node[mp].val = nil
          THEN [T EXCEPT !.node = Filled(@, mp, k, v)]
        ELSE IF mainposition(T, T.node[mp].key) # mp
          THEN [taken EXCEPT !.node = Filled(Moved(T, mp, n), mp, k, v)]
          ELSE [taken EXCEPT !.node = Filled([@ EXCEPT ![last].next = n], n, k, v)]

\* newkey in a table with a free node, and the assignment to what it returns
NewNode(T, k, v) ==
    LET mp == mainposition(T, k)
        n == getfreepos(T)
        taken == [T EXCEPT !.lastfree = n]
    IN  IF T.node[mp].val = nil
          THEN [T EXCEPT !.node = Filled(@, mp, k, v)]
        ELSE IF mainposition(T, T.node[mp].key) # mp
          THEN [taken EXCEPT !.node = Filled(Moved(T, mp, n), mp, k, v)]
          ELSE [taken EXCEPT !.node =
                  Filled([@ EXCEPT ![n].next = T.node[mp].next, ![mp].next = n], n, k, v)]

\* newkey has to rehash
IsFull(T, k) ==
    \/ T.node = <<>>
    \/ T.node[mainposition(T, k)].val # nil /\ getfreepos(T) = 0

\* luaH_set and the assignment, where there must be room
Put(T, k, v) ==
    IF InArray(T, k) THEN [T EXCEPT !.array[k] = v]
    ELSE IF Find(T, k) # 0 THEN [T EXCEPT !.node[Find(T, k)].val = v]
    ELSE IF IsFull(T, k) THEN [T EXCEPT !.nested = TRUE]
    ELSE NewNode(T, k, v)

----------------------------------------------------------------------------
(* Rehash.                                                                 *)

\* numusearray, numusehash and countint: the keys with a value
Used(T) == {k \in Index : InArray(T, k) /\ T.array[k] # nil}
             \cup {T.node[i].key : i \in {j \in DOMAIN T.node : T.node[j].val # nil}}

UpTo(S, n) == Cardinality({k \in S : k <= n})

\* ceillog2
ceillog2(n) == CHOOSE e \in 0 .. n : 2 ^ e >= n /\ \A d \in 0 .. e - 1 : 2 ^ d < n

\* Mutant: half of the slots in use is enough.
computesizes_Half(S) ==
    LET fits == {e \in 0 .. Cardinality(S) :
                    /\ 2 ^ e \div 2 < Cardinality(S)
                    /\ \E k \in S : ceillog2(k) = e
                    /\ UpTo(S, 2 ^ e) >= 2 ^ e \div 2}
    IN  IF fits = {} THEN 0 ELSE 2 ^ (CHOOSE e \in fits : \A d \in fits : d <= e)

\* computesizes for the integer keys S: the last slice (2^(e-1), 2^e] that is
\* not empty where more than half of the indices up to its end are in use
computesizes(S) ==
    LET fits == {e \in 0 .. Cardinality(S) :
                    /\ 2 ^ e \div 2 < Cardinality(S)
                    /\ \E k \in S : ceillog2(k) = e
                    /\ UpTo(S, 2 ^ e) > 2 ^ e \div 2}
    IN  IF fits = {} THEN 0 ELSE 2 ^ (CHOOSE e \in fits : \A d \in fits : d <= e)

\* Mutant: the last element of the vanishing slice is forgotten.
Reinserted_OffByOne(T, nasize) ==
    SubSeq([i \in DOMAIN T.array |-> <<i, T.array[i]>>], nasize + 1, Len(T.array) - 1)
      \o Reverse([i \in DOMAIN T.node |-> <<T.node[i].key, T.node[i].val>>])

\* what resize re-inserts: the vanishing slice of the array, upwards, and the
\* nodes, downwards
Reinserted(T, nasize) ==
    SubSeq([i \in DOMAIN T.array |-> <<i, T.array[i]>>], nasize + 1, Len(T.array))
      \o Reverse([i \in DOMAIN T.node |-> <<T.node[i].key, T.node[i].val>>])

\* the loops of resize: U after each of the elements es that has a value
Reinserting(U, es) ==
    LET after[n \in 0 .. Len(es)] ==
            IF n = 0 THEN U
            ELSE IF es[n][2] = nil THEN after[n - 1]
            ELSE Put(after[n - 1], es[n][1], es[n][2])
    IN  after[Len(es)]

NodeSize(nhsize) == IF nhsize = 0 THEN 0 ELSE 2 ^ ceillog2(nhsize)

\* Mutant: lastfree starts one node too far.
Resized_FarFree(T, nasize, size) ==
    [T EXCEPT !.array = [i \in 1 .. nasize |-> IF i <= Len(@) THEN @[i] ELSE nil],
              !.node = [i \in 1 .. size |-> Virgin],
              !.lastfree = size + 2]

\* setarrayvector and setnodevector: the two parts with their new sizes
Resized(T, nasize, size) ==
    [T EXCEPT !.array = [i \in 1 .. nasize |-> IF i <= Len(@) THEN @[i] ELSE nil],
              !.node = [i \in 1 .. size |-> Virgin],
              !.lastfree = size + 1]

\* resize: the two parts get their new sizes, and the elements move
resize(T, nasize, nhsize) ==
    Reinserting(Resized(T, nasize, NodeSize(nhsize)), Reinserted(T, nasize))

\* Mutant: there is no node for the key to insert.
rehash_NoRoom(T, k) ==
    LET S == Used(T)
        I == (S \cup {k}) \cap Index
        nasize == computesizes(I)
    IN  resize(T, nasize, Cardinality(S \ (1 .. nasize)))

\* rehash: room for the keys with a value, and for k
rehash(T, k) ==
    LET S == Used(T)
        I == (S \cup {k}) \cap Index
        nasize == computesizes(I)
    IN  resize(T, nasize, Cardinality(S) + 1 - UpTo(I, nasize))

NeedsRehash(T, k) == ~InArray(T, k) /\ Find(T, k) = 0 /\ IsFull(T, k)

\* Mutant: newkey does not search again after the rehash.
luaH_set_Lost(T, k, v) == IF NeedsRehash(T, k) THEN rehash(T, k) ELSE Put(T, k, v)

\* luaH_set and the assignment; newkey calls luaH_set again after a rehash
luaH_set(T, k, v) ==
    IF NeedsRehash(T, k) THEN Put(rehash(T, k), k, v) ELSE Put(T, k, v)

----------------------------------------------------------------------------
(* Traversal: positions count the array part, then the nodes.              *)

Value(T, p) == IF p <= Len(T.array) THEN T.array[p] ELSE T.node[p - Len(T.array)].val
KeyAt(T, p) == IF p <= Len(T.array) THEN p ELSE T.node[p - Len(T.array)].key

\* the position of node i
Position(T, i) == IF i = 0 THEN -1 ELSE Len(T.array) + i

\* Mutant: a dead key is not accepted as the key to continue from.
findindex_LiveOnly(T, k) ==
    IF k = nil THEN 0 ELSE IF InArray(T, k) THEN k ELSE Position(T, Find(T, k))

\* findindex: a dead key is as good as a live one; -1 for the error "invalid
\* key to next"
findindex(T, k) ==
    IF k = nil THEN 0
    ELSE IF InArray(T, k) THEN k
    ELSE Position(T, FirstOf(T, k, {i \in DOMAIN T.node : T.node[i].key = k}))

\* Mutant: the search begins at the key itself.
luaH_next_Same(T, k) ==
    LET S == {p \in findindex(T, k) .. Len(T.array) + Len(T.node) : p > 0 /\ Value(T, p) # nil}
    IN  IF S = {} THEN 0 ELSE CHOOSE p \in S : \A q \in S : p <= q

\* luaH_next: the next position with a value, or 0
luaH_next(T, k) ==
    LET S == {p \in findindex(T, k) + 1 .. Len(T.array) + Len(T.node) : Value(T, p) # nil}
    IN  IF S = {} THEN 0 ELSE CHOOSE p \in S : \A q \in S : p <= q

----------------------------------------------------------------------------
(* The length operator.                                                    *)

\* luaH_getnum, of any index: one that is no key of the program has no value
luaH_getnum(T, j) ==
    IF j \in Index THEN luaH_get(T, j)
    ELSE IF j \in DOMAIN T.array THEN T.array[j] ELSE nil

\* s, n times, on x
Iterated(s, x, n) ==
    LET after[m \in 0 .. n] == IF m = 0 THEN x ELSE s[after[m - 1]] IN after[n]

\* the binary search of luaH_getn and unbound_search, between i and j
Border(T, i, j) ==
    LET halve == [x \in (0 .. j) \X (0 .. j) |->
            LET m == (x[1] + x[2]) \div 2 IN
            IF x[2] - x[1] <= 1 THEN x
            ELSE IF luaH_getnum(T, m) = nil THEN <<x[1], m>> ELSE <<m, x[2]>>]
    IN  Iterated(halve, <<i, j>>, j - i)[1]

\* the first absent index from 1
Linear(T) == CHOOSE i \in 1 .. Cardinality(Index) + 1 :
                /\ luaH_getnum(T, i) = nil
                /\ \A j \in 1 .. i - 1 : luaH_getnum(T, j) # nil

\* Mutant: the linear search gives the first absent index.
unbound_search_OffByOne(T, j0) ==
    LET M == j0 + 1 + MAX_INT
        double == [x \in (0 .. M) \X (0 .. M) |->
            IF luaH_getnum(T, x[2]) = nil \/ 2 * x[2] > MAX_INT THEN x ELSE <<x[2], 2 * x[2]>>]
        x == Iterated(double, <<j0, j0 + 1>>, MAX_INT)
    IN  IF luaH_getnum(T, x[2]) = nil THEN Border(T, x[1], x[2]) ELSE Linear(T)

\* unbound_search: doubles j while it is present, then searches below it
unbound_search(T, j0) ==
    LET M == j0 + 1 + MAX_INT
        double == [x \in (0 .. M) \X (0 .. M) |->
            IF luaH_getnum(T, x[2]) = nil \/ 2 * x[2] > MAX_INT THEN x ELSE <<x[2], 2 * x[2]>>]
        x == Iterated(double, <<j0, j0 + 1>>, MAX_INT)
    IN  IF luaH_getnum(T, x[2]) = nil THEN Border(T, x[1], x[2]) ELSE Linear(T) - 1

luaH_getn(T) ==
    LET j == Len(T.array) IN
    IF j > 0 /\ T.array[j] = nil THEN Border(T, 0, j)
    ELSE IF T.node = <<>> THEN j
    ELSE unbound_search(T, j)

----------------------------------------------------------------------------
(* The program and the collector.                                          *)

\* t[k] = v; in a traversal, only to fields that are there
Set(k, v) ==
    /\ iter # None => luaH_get(t, k) # nil
    /\ t' = luaH_set(t, k, v)
    /\ stay' = IF v = nil THEN stay \ {k} ELSE stay
    /\ UNCHANGED <<iter, visited>>

\* traversetable: removeentry makes the key of an empty field dead
traversetable ==
    /\ t' = [t EXCEPT !.node = [i \in DOMAIN @ |->
                IF @[i].val = nil /\ @[i].key \in collectable
                  THEN [@[i] EXCEPT !.dead = TRUE] ELSE @[i]]]
    /\ UNCHANGED traversal

BeginTraversal ==
    /\ iter = None
    /\ iter' = nil
    /\ visited' = {}
    /\ stay' = {k \in Key : luaH_get(t, k) # nil}
    /\ UNCHANGED t

next ==
    LET p == luaH_next(t, iter) IN
    /\ iter # None
    /\ findindex(t, iter) # -1
    /\ IF p # 0
         THEN /\ iter' = KeyAt(t, p)
              /\ visited' = visited \cup {iter'}
              /\ UNCHANGED stay
         ELSE iter' = None /\ visited' = {} /\ stay' = {}
    /\ UNCHANGED t

LeaveTraversal ==
    /\ iter # None
    /\ iter' = None /\ visited' = {} /\ stay' = {}
    /\ UNCHANGED t

Next ==
    \/ \E k \in Key, v \in Val \cup {nil} : Set(k, v)
    \/ traversetable
    \/ BeginTraversal \/ next \/ LeaveTraversal

Spec == Init /\ [][Next]_vars

----------------------------------------------------------------------------
(* Properties.                                                             *)

\* Whatever the order of collisions, moves, resizes, dead keys and keys
\* reborn, an assignment changes what one key gives and nothing else does.
Map == INSTANCE TableMap WITH map <- [k \in Key |-> luaH_get(t, k)]
IsMap == Map!Spec

\* The key assigned to has the value assigned, even if its table has to be
\* rehashed first; and the rehash makes room for all it re-inserts and for the
\* new key: it never leads to another one, which would free the nodes it reads.
SetStores ==
    \A k \in Key, v \in Val \cup {nil} :
        LET T == luaH_set(t, k, v) IN ~T.nested /\ luaH_get(T, k) = v

\* A node with a value is on the chain of the main position of its key, and
\* next finds it there even if an older, dead key of the same object is left
\* on the chain.
Reachable ==
    \A i \in DOMAIN t.node : t.node[i].val # nil =>
        findindex(t, t.node[i].key) = Len(t.array) + i

\* A traversal that only assigns to fields that are there can always go on.  At
\* any time of it, what next gives now was not given before, and if it gives
\* nothing, all the keys that have been there from the beginning were given.
TraversalOnce ==
    iter # None =>
        /\ findindex(t, iter) # -1
        /\ LET p == luaH_next(t, iter)
           IN  IF p = 0 THEN stay \subseteq visited ELSE KeyAt(t, p) \notin visited

\* The length is a border: the index of a value with none after it.
IsBorder(n) ==
    /\ n = 0 \/ luaH_getnum(t, n) # nil
    /\ luaH_getnum(t, n + 1) = nil
LengthIsBorder == IsBorder(luaH_getn(t))

\* A rehash for a key gives the array part the largest size, a power of two,
\* such that more than half of it will be in use.
MoreThanHalf(S, n) == 2 * UpTo(S, n) > n
ArrayOptimal ==
    \A k \in Key : NeedsRehash(t, k) =>
        LET I == (Used(t) \cup {k}) \cap Index
            n == Len(rehash(t, k).array)
        IN  /\ n = 0 \/ (n \in {2 ^ e : e \in 0 .. n} /\ MoreThanHalf(I, n))
            /\ \A e \in 0 .. Cardinality(Index) : 2 ^ e > n => ~MoreThanHalf(I, 2 ^ e)
=============================================================================
