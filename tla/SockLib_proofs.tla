--------------------------- MODULE SockLib_proofs ---------------------------
(***************************************************************************)
(* Proofs about SockLib: a script that uses no value it has closed reaches *)
(* through each of its values the kernel object it was given, every open   *)
(* descriptor has one owner, and a connection gives what its client sent,  *)
(* for any number of variables, addresses, descriptors and clients.        *)
(***************************************************************************)
EXTENDS SockLib, FiniteSetTheorems, SequenceTheorems, TLAPS

\* A kernel object has an identity of its own, that nothing had before.
Fresh ==
    /\ \A h \in Handle : fd[h] # Free => fd[h].id < nextObj
    /\ \A h, g \in Handle :
          fd[h] # Free /\ fd[g] # Free /\ fd[h].id = fd[g].id => h = g

\* Live records and open descriptors are in one-to-one correspondence.
Owners ==
    /\ \A p \in Ptr : Live(p) /\ heap[p].h # None => fd[heap[p].h] # Free
    /\ \A p, q \in Ptr : Live(p) /\ Live(q) /\ heap[p].h # None /\ heap[p].h = heap[q].h => p = q
    /\ \A h \in Handle : fd[h] # Free => \E p \in Ptr : Live(p) /\ heap[p].h = h

\* A value that is not closed leads to its record, of its kind, and through
\* it to its object.
References ==
    \A v \in Var : obj[v] # None =>
        /\ var[v] # None /\ Live(var[v][2]) /\ heap[var[v][2]].kind = var[v][1]
        /\ HandleOf(v) # None /\ fd[HandleOf(v)] # Free /\ fd[HandleOf(v)].id = obj[v]

Listening(h) == fd[h].st = "listening"
Conn(h) == fd[h].st = "conn"

\* A client that waits is once in one queue.
Queues ==
    /\ \A h \in Handle : Listening(h) =>
          \A i \in 1 .. Len(fd[h].queue) : peer[fd[h].queue[i]] = "queued"
    /\ \A h, g \in Handle : Listening(h) /\ Listening(g) =>
          \A i \in 1 .. Len(fd[h].queue), j \in 1 .. Len(fd[g].queue) :
              fd[h].queue[i] = fd[g].queue[j] => h = g /\ i = j

\* A client has one connection, which has taken nothing before it began.
Streams ==
    /\ \A h \in Handle : Conn(h) =>
          /\ peer[fd[h].peer] \in {"open", "done"}
          /\ got[fd[h].id] \o stream[fd[h].peer] = sent[fd[h].peer]
    /\ \A h, g \in Handle : Conn(h) /\ Conn(g) /\ fd[h].peer = fd[g].peer => h = g
    /\ \A c \in Peer : peer[c] \in {"idle", "queued"} => stream[c] = sent[c]
    /\ \A c \in Peer : Len(stream[c]) <= Len(sent[c])
    /\ \A i \in Ids : nextObj <= i => got[i] = <<>>

Own == Fresh /\ Owners /\ References
IInv == TypeOK /\ Own /\ Queues /\ Streams

----------------------------------------------------------------------------
(* Sequences, kernel objects and the type invariant.                       *)

USE DEF script, kernel, clients, vars

LEMMA SeqOfIs ==
    ASSUME NEW S, NEW n \in Nat
    PROVE  SeqOf(S, n) = {s \in Seq(S) : Len(s) <= n}
<1>1. ASSUME NEW s \in SeqOf(S, n) PROVE s \in Seq(S) /\ Len(s) <= n
  <2>1. PICK m \in 0 .. n : s \in [1 .. m -> S]
    BY <1>1 DEF SeqOf
  <2>2. m \in Nat /\ s \in Seq(S) /\ Len(s) = m
    BY <2>1, IsASeq, LenProperties
  <2> QED BY <2>1, <2>2
<1>2. ASSUME NEW s \in Seq(S), Len(s) <= n PROVE s \in SeqOf(S, n)
  <2>1. s \in [1 .. Len(s) -> S] /\ Len(s) \in 0 .. n
    BY <1>2, LenProperties
  <2> QED BY <2>1 DEF SeqOf
<1> QED BY <1>1, <1>2

\* A function changed at one point.
LEMMA UpdateType ==
    ASSUME NEW A, NEW B, NEW g \in [A -> B], NEW x \in A, NEW y \in B
    PROVE  /\ [g EXCEPT ![x] = y] \in [A -> B] /\ [g EXCEPT ![x] = y][x] = y
           /\ \A z \in A : z # x => [g EXCEPT ![x] = y][z] = g[z]
OBVIOUS

\* What a kernel object has, by its state.
LEMMA KFacts ==
    ASSUME NEW k \in KObject
    PROVE  /\ k.st \in {"free", "file", "open", "bound", "listening", "conn"}
           /\ k = Free <=> k.st = "free"
           /\ k # Free => k.id \in Ids
           /\ k.st = "listening" => /\ k.queue \in Seq(Peer) /\ Len(k.queue) <= Cardinality(Peer)
                                    /\ k = [st |-> "listening", id |-> k.id, queue |-> k.queue]
           /\ k.st = "conn" => k.peer \in Peer
<1>1. Cardinality(Peer) \in Nat
  BY SockAssumption, FS_CardinalityType
<1>2. CASE k = Free
  BY <1>2 DEF Free
<1>3. CASE k \in [st : {"file", "open"}, id : Ids]
  BY <1>3 DEF Free
<1>4. CASE k \in [st : {"bound"}, id : Ids, port : uint16]
  BY <1>4 DEF Free
<1>5. CASE k \in [st : {"listening"}, id : Ids, queue : SeqOf(Peer, Cardinality(Peer))]
  BY <1>1, <1>5, SeqOfIs DEF Free
<1>6. CASE k \in [st : {"conn"}, id : Ids, peer : Peer]
  BY <1>6 DEF Free
<1> QED BY <1>2, <1>3, <1>4, <1>5, <1>6 DEF KObject

LEMMA KIntro ==
    ASSUME NEW id \in Ids
    PROVE  /\ Free \in KObject
           /\ [st |-> "file", id |-> id] \in KObject
           /\ [st |-> "open", id |-> id] \in KObject
           /\ \A port \in uint16 : [st |-> "bound", id |-> id, port |-> port] \in KObject
           /\ \A q \in Seq(Peer) : Len(q) <= Cardinality(Peer) =>
                 [st |-> "listening", id |-> id, queue |-> q] \in KObject
           /\ \A c \in Peer : [st |-> "conn", id |-> id, peer |-> c] \in KObject
<1>1. Cardinality(Peer) \in Nat
  BY SockAssumption, FS_CardinalityType
<1>2. \A q \in Seq(Peer) : Len(q) <= Cardinality(Peer) => q \in SeqOf(Peer, Cardinality(Peer))
  BY <1>1, SeqOfIs
<1>3. /\ {Free} \subseteq KObject
      /\ [st : {"file", "open"}, id : Ids] \subseteq KObject
      /\ [st : {"bound"}, id : Ids, port : uint16] \subseteq KObject
      /\ [st : {"listening"}, id : Ids, queue : SeqOf(Peer, Cardinality(Peer))] \subseteq KObject
      /\ [st : {"conn"}, id : Ids, peer : Peer] \subseteq KObject
  BY DEF KObject
<1>4. /\ [st |-> "file", id |-> id] \in [st : {"file", "open"}, id : Ids]
      /\ [st |-> "open", id |-> id] \in [st : {"file", "open"}, id : Ids]
      /\ \A port \in uint16 : [st |-> "bound", id |-> id, port |-> port]
            \in [st : {"bound"}, id : Ids, port : uint16]
      /\ \A c \in Peer : [st |-> "conn", id |-> id, peer |-> c] \in [st : {"conn"}, id : Ids, peer : Peer]
  OBVIOUS
<1>5. \A q \in SeqOf(Peer, Cardinality(Peer)) : [st |-> "listening", id |-> id, queue |-> q]
            \in [st : {"listening"}, id : Ids, queue : SeqOf(Peer, Cardinality(Peer))]
  OBVIOUS
<1> HIDE DEF Free
<1>6. Free \in KObject /\ [st |-> "file", id |-> id] \in KObject /\ [st |-> "open", id |-> id] \in KObject
  BY <1>3, <1>4
<1>7. /\ \A port \in uint16 : [st |-> "bound", id |-> id, port |-> port] \in KObject
      /\ \A c \in Peer : [st |-> "conn", id |-> id, peer |-> c] \in KObject
  BY <1>3, <1>4
<1>8. \A q \in Seq(Peer) : Len(q) <= Cardinality(Peer) =>
                 [st |-> "listening", id |-> id, queue |-> q] \in KObject
  BY <1>2, <1>3, <1>5
<1> QED BY <1>6, <1>7, <1>8

\* The type invariant, with sequences.
LEMMA Types ==
    ASSUME TypeOK
    PROVE  /\ \A h \in Handle : fd[h] \in KObject
           /\ \A c \in Peer : /\ sent[c] \in Seq(Byte) /\ Len(sent[c]) <= MaxSent
                              /\ stream[c] \in Seq(Byte) /\ Len(stream[c]) <= MaxSent
                              /\ Len(sent[c]) \in Nat /\ Len(stream[c]) \in Nat
           /\ \A i \in Ids : got[i] \in Seq(Byte) /\ Len(got[i]) <= MaxSent
           /\ \A p \in Ptr : Live(p) => heap[p].h \in Handle \cup {None}
           /\ \A v \in Var : var[v] # None => var[v][2] \in Ptr /\ var[v][1] \in {"light", "full"}
           /\ nextObj \in Nat \ {0} /\ nextObj <= MaxObj + 1 /\ MaxObj \in Nat /\ MaxSent \in Nat
<1>1. \A c \in Peer : sent[c] \in SeqOf(Byte, MaxSent) /\ stream[c] \in SeqOf(Byte, MaxSent)
  BY DEF TypeOK
<1>2. \A c \in Peer : /\ sent[c] \in Seq(Byte) /\ Len(sent[c]) <= MaxSent
                      /\ stream[c] \in Seq(Byte) /\ Len(stream[c]) <= MaxSent
  BY <1>1, SeqOfIs, SockAssumption
<1>3. \A i \in Ids : got[i] \in Seq(Byte) /\ Len(got[i]) <= MaxSent
  BY SeqOfIs, SockAssumption DEF TypeOK
<1>4. \A p \in Ptr : Live(p) => heap[p].h \in Handle \cup {None}
  BY DEF TypeOK, Box, Live
<1>5. \A v \in Var : var[v] # None => var[v] \in {"light", "full"} \X Ptr
  BY DEF TypeOK, Value
<1>6. nextObj \in Nat \ {0} /\ nextObj <= MaxObj + 1 /\ MaxObj \in Nat /\ MaxSent \in Nat
  BY SockAssumption DEF TypeOK
<1>7. \A h \in Handle : fd[h] \in KObject
  BY DEF TypeOK
<1> QED BY <1>2, <1>3, <1>4, <1>5, <1>6, <1>7

----------------------------------------------------------------------------
(* Values, records and descriptors.                                        *)

\* A step that only changes the state of sockets.
LEMMA OwnSame ==
    ASSUME TypeOK, Own, UNCHANGED <<script, nextObj>>,
           \A h \in Handle : /\ fd'[h] = Free <=> fd[h] = Free
                             /\ fd[h] # Free => fd'[h].id = fd[h].id
    PROVE  Own'
<1>1. \A p \in Ptr : Live(p)' <=> Live(p)
  BY DEF Live
<1>2. \A v \in Var : HandleOf(v)' = HandleOf(v)
  BY DEF HandleOf
<1>3. \A p \in Ptr : Live(p) => heap[p].h \in Handle \cup {None}
  BY Types
<1>4. \A v \in Var : obj[v] # None /\ var[v] # None => var[v][2] \in Ptr
  BY Types
<1>5. Fresh'
  BY DEF Own, Fresh
<1>6. Owners'
  BY <1>1, <1>3 DEF Own, Owners
<1>7. References'
  BY <1>1, <1>2, <1>3, <1>4 DEF Own, References, HandleOf
<1> QED BY <1>5, <1>6, <1>7 DEF Own

\* A new record for a new object behind a descriptor that was free.
LEMMA OwnNew ==
    ASSUME TypeOK, Own, NEW v \in Var, NEW kind \in {"light", "full"}, NEW h \in Handle,
           NewBox(v, kind, h, nextObj), fd[h] = Free, nextObj <= MaxObj, nextObj' = nextObj + 1,
           fd'[h] # Free, fd'[h].id = nextObj,
           \A g \in Handle : g # h => /\ fd'[g] = Free <=> fd[g] = Free
                                      /\ fd[g] # Free => fd'[g].id = fd[g].id
    PROVE  /\ Own'
           /\ heap' \in [Ptr -> Box \cup {None}] /\ var' \in [Var -> Value \cup {None}]
           /\ obj' \in [Var -> Ids \cup {None}] /\ nextObj' \in 1 .. MaxObj + 1
<1>1. PICK p \in Address :
        /\ heap' = [heap EXCEPT ![p] = [kind |-> kind, live |-> TRUE, h |-> h]]
        /\ var' = [var EXCEPT ![v] = <<kind, p>>]
        /\ obj' = [obj EXCEPT ![v] = nextObj]
  BY DEF NewBox
<1>2. /\ p \in Ptr /\ ~Live(p) /\ nextObj \in Ids /\ nextObj \in Nat /\ h # None
      /\ heap \in [Ptr -> Box \cup {None}] /\ var \in [Var -> Value \cup {None}]
      /\ obj \in [Var -> Ids \cup {None}]
  BY <1>1, Types, SockAssumption DEF Address, TypeOK, Ids
<1>3. /\ heap'[p] = [kind |-> kind, live |-> TRUE, h |-> h] /\ heap'[p] # None
      /\ \A q \in Ptr : q # p => heap'[q] = heap[q]
      /\ heap' \in [Ptr -> Box \cup {None}]
  <2>1. [kind |-> kind, live |-> TRUE, h |-> h] \in Box
    BY DEF Box
  <2>2. [kind |-> kind, live |-> TRUE, h |-> h] # None
    BY <2>1, NoneAssumption
  <2> QED BY <1>1, <1>2, <2>1, <2>2

<1>4. /\ var'[v] = <<kind, p>> /\ var'[v] # None /\ var' \in [Var -> Value \cup {None}]
      /\ \A w \in Var : w # v => var'[w] = var[w]
  <2>1. <<kind, p>> \in Value /\ <<kind, p>> # None
    BY <1>2, NoneAssumption DEF Value
  <2> QED BY <1>1, <1>2, <2>1
<1>5. /\ obj'[v] = nextObj /\ obj' \in [Var -> Ids \cup {None}]
      /\ \A w \in Var : w # v => obj'[w] = obj[w]
  BY <1>1, <1>2
<1>6. nextObj' \in 1 .. MaxObj + 1
  BY Types
<1>7. /\ Live(p)' /\ \A q \in Ptr : q # p => (Live(q)' <=> Live(q))
  BY <1>3 DEF Live
<1>8. \A g \in Handle : fd[g] # Free => g # h /\ fd'[g] # Free /\ fd'[g].id = fd[g].id
  OBVIOUS
<1>9. Fresh'
  <2>1. \A g \in Handle : fd'[g] # Free => g = h \/ (fd[g] # Free /\ fd'[g].id = fd[g].id)
    OBVIOUS
  <2>2. \A g \in Handle : fd[g] # Free => fd[g].id < nextObj /\ fd[g].id \in Nat
    BY Types, KFacts DEF Own, Fresh, Ids
  <2>3. \A g \in Handle : fd'[g] # Free => fd'[g].id < nextObj'
    BY <1>2, <2>1, <2>2
  <2>4. ASSUME NEW g \in Handle, NEW f \in Handle, fd'[g] # Free, fd'[f] # Free,
               fd'[g].id = fd'[f].id, g # f
        PROVE  FALSE
    BY <1>2, <2>1, <2>2, <2>4 DEF Own, Fresh
  <2> QED BY <2>3, <2>4 DEF Fresh
<1>10. Owners'
  <2>1. /\ \A q \in Ptr : Live(q) /\ heap[q].h # None => fd[heap[q].h] # Free /\ heap[q].h \in Handle
        /\ \A q, r \in Ptr : Live(q) /\ Live(r) /\ heap[q].h # None /\ heap[q].h = heap[r].h => q = r
        /\ \A g \in Handle : fd[g] # Free => \E q \in Ptr : Live(q) /\ heap[q].h = g
    BY Types DEF Own, Owners
  <2>2. \A q \in Ptr : Live(q) => q # p /\ heap[q].h # h
    BY <1>2, <2>1
  <2>3. heap'[p].h = h
    BY <1>3
  <2>4. \A q \in Ptr : Live(q)' /\ heap'[q].h # None => fd'[heap'[q].h] # Free
    BY <1>3, <1>7, <1>8, <2>1, <2>3
  <2>5. \A q, r \in Ptr : Live(q)' /\ Live(r)' /\ heap'[q].h # None /\ heap'[q].h = heap'[r].h => q = r
    BY <1>3, <1>7, <2>1, <2>2, <2>3
  <2>6. \A g \in Handle : fd'[g] # Free => \E q \in Ptr : Live(q)' /\ heap'[q].h = g
    <3>1. \A g \in Handle : fd'[g] # Free => g = h \/ fd[g] # Free
      OBVIOUS
    <3> QED BY <1>2, <1>3, <1>7, <2>1, <2>2, <2>3, <3>1
  <2> QED BY <2>4, <2>5, <2>6 DEF Owners
<1>11. References'
  <2> SUFFICES ASSUME NEW w \in Var, obj'[w] # None
               PROVE  /\ var'[w] # None /\ Live(var[w][2])' /\ heap'[var'[w][2]].kind = var'[w][1]
                      /\ HandleOf(w)' # None /\ fd'[HandleOf(w)'] # Free
                      /\ fd'[HandleOf(w)'].id = obj'[w]
    BY DEF References
  <2>1. CASE w = v
    <3>1. var'[w][1] = kind /\ var'[w][2] = p /\ heap'[p].kind = kind /\ heap'[p].h = h
      BY <1>3, <1>4, <2>1
    <3>2. HandleOf(w)' = h
      BY <3>1 DEF HandleOf
    <3>3. Live(var[w][2])'
      BY <1>7, <3>1 DEF Live
    <3> QED BY <1>2, <1>4, <1>5, <2>1, <3>1, <3>2, <3>3
  <2>2. CASE w # v
    <3>1. /\ obj[w] # None /\ var'[w] = var[w] /\ obj'[w] = obj[w]
      BY <1>4, <1>5, <2>2
    <3>2. /\ var[w] # None /\ Live(var[w][2]) /\ heap[var[w][2]].kind = var[w][1]
          /\ HandleOf(w) # None /\ fd[HandleOf(w)] # Free /\ fd[HandleOf(w)].id = obj[w]
      BY <3>1 DEF Own, References
    <3>3. var[w][2] \in Ptr /\ var[w][2] # p
      BY <1>2, <3>2, Types
    <3>4. heap'[var[w][2]] = heap[var[w][2]]
      BY <1>3, <3>3
    <3>5. Live(var[w][2])'
      BY <3>1, <3>2, <3>4 DEF Live
    <3>6. HandleOf(w)' = HandleOf(w) /\ HandleOf(w) \in Handle
      BY <3>1, <3>2, <3>3, <3>4, Types DEF HandleOf
    <3> QED BY <1>8, <3>1, <3>2, <3>4, <3>5, <3>6
  <2> QED BY <2>1, <2>2
<1> QED BY <1>3, <1>4, <1>5, <1>6, <1>9, <1>10, <1>11 DEF Own

\* The end of a record and of the object behind it: no value that is not
\* closed leads to the object any more.
LEMMA OwnClose ==
    ASSUME TypeOK, Own, NEW p \in Ptr, Live(p), UNCHANGED <<var, nextObj>>,
           heap' \in [Ptr -> Box \cup {None}],
           \A q \in Ptr : q # p => heap'[q] = heap[q],
           heap'[p].kind = heap[p].kind, Live(p)' => heap'[p].h = None,
           \A h \in Handle : IF h = heap[p].h THEN fd'[h] = Free ELSE fd'[h] = fd[h],
           \A v \in Var : obj'[v] = obj[v] \/ obj'[v] = None,
           \A v \in Var : var[v] # None /\ var[v] = <<heap[p].kind, p>> => obj'[v] = None
    PROVE  Own'
<1>1. \A q \in Ptr : q # p => (Live(q)' <=> Live(q)) /\ heap'[q] = heap[q]
  BY DEF Live
<1>2. Fresh'
  BY DEF Own, Fresh
<1>3. /\ \A q \in Ptr : Live(q) /\ heap[q].h # None => fd[heap[q].h] # Free /\ heap[q].h \in Handle
      /\ \A q, r \in Ptr : Live(q) /\ Live(r) /\ heap[q].h # None /\ heap[q].h = heap[r].h => q = r
      /\ \A g \in Handle : fd[g] # Free => \E q \in Ptr : Live(q) /\ heap[q].h = g
  BY Types DEF Own, Owners
<1>4. \A q \in Ptr : Live(q)' /\ heap'[q].h # None =>
          /\ q # p /\ Live(q) /\ heap'[q].h = heap[q].h /\ heap[q].h # heap[p].h
          /\ fd'[heap[q].h] = fd[heap[q].h]
  BY <1>1, <1>3
<1>5. Owners'
  <2>1. \A q \in Ptr : Live(q)' /\ heap'[q].h # None => fd'[heap'[q].h] # Free
    BY <1>3, <1>4
  <2>2. \A q, r \in Ptr : Live(q)' /\ Live(r)' /\ heap'[q].h # None /\ heap'[q].h = heap'[r].h => q = r
    BY <1>3, <1>4
  <2>3. ASSUME NEW g \in Handle, fd'[g] # Free
        PROVE  \E q \in Ptr : Live(q)' /\ heap'[q].h = g
    <3>1. g # heap[p].h /\ fd[g] # Free
      BY <2>3
    <3>2. PICK q \in Ptr : Live(q) /\ heap[q].h = g
      BY <1>3, <3>1
    <3> QED BY <1>1, <3>1, <3>2
  <2> QED BY <2>1, <2>2, <2>3 DEF Owners
<1>6. References'
  <2> SUFFICES ASSUME NEW w \in Var, obj'[w] # None
               PROVE  /\ var'[w] # None /\ Live(var[w][2])' /\ heap'[var'[w][2]].kind = var'[w][1]
                      /\ HandleOf(w)' # None /\ fd'[HandleOf(w)'] # Free
                      /\ fd'[HandleOf(w)'].id = obj'[w]
    BY DEF References
  <2>1. obj[w] # None /\ obj'[w] = obj[w] /\ var'[w] = var[w]
    OBVIOUS
  <2>2. /\ var[w] # None /\ Live(var[w][2]) /\ heap[var[w][2]].kind = var[w][1]
        /\ HandleOf(w) # None /\ fd[HandleOf(w)] # Free /\ fd[HandleOf(w)].id = obj[w]
    BY <2>1 DEF Own, References
  <2>3. var[w][2] \in Ptr /\ var[w] = <<var[w][1], var[w][2]>>
    BY <2>2 DEF TypeOK, Value
  <2>4. var[w][2] # p
    BY <2>1, <2>2, <2>3
  <2>5. heap'[var[w][2]] = heap[var[w][2]]
    BY <2>3, <2>4
  <2>6. Live(var[w][2])'
    BY <2>1, <2>2, <2>5 DEF Live
  <2>7. HandleOf(w)' = HandleOf(w) /\ HandleOf(w) = heap[var[w][2]].h /\ HandleOf(w) \in Handle
    BY <2>1, <2>2, <2>3, <2>5, Types DEF HandleOf
  <2>8. HandleOf(w) # heap[p].h
    BY <1>3, <2>2, <2>3, <2>4, <2>7
  <2> QED BY <2>1, <2>2, <2>5, <2>6, <2>7, <2>8
<1> QED BY <1>2, <1>5, <1>6 DEF Own

\* A variable takes a value that is not closed, or none.
LEMMA OwnAssign ==
    ASSUME TypeOK, Own, UNCHANGED <<heap, nextObj, fd>>, NEW v \in Var,
           \A w \in Var : w # v => var'[w] = var[w] /\ obj'[w] = obj[w],
           obj'[v] = None \/ \E w \in Var : var'[v] = var[w] /\ obj'[v] = obj[w]
    PROVE  Own'
<1>1. \A p : Live(p)' <=> Live(p)
  BY DEF Live
<1>2. Fresh' /\ Owners'
  BY <1>1 DEF Own, Fresh, Owners
<1>3. ASSUME NEW u \in Var, obj'[u] # None
      PROVE  /\ var'[u] # None /\ Live(var[u][2])' /\ heap'[var'[u][2]].kind = var'[u][1]
             /\ HandleOf(u)' # None /\ fd'[HandleOf(u)'] # Free
             /\ fd'[HandleOf(u)'].id = obj'[u]
  <2>1. PICK w \in Var : var'[u] = var[w] /\ obj'[u] = obj[w]
    BY <1>3
  <2>2. HandleOf(u)' = HandleOf(w)
    BY <2>1 DEF HandleOf
  <2>3. Live(var[u][2])' <=> Live(var[w][2])
    BY <2>1 DEF Live
  <2> QED BY <1>3, <2>1, <2>2, <2>3 DEF Own, References
<1> QED BY <1>2, <1>3 DEF Own, References

----------------------------------------------------------------------------
(* Clients and connections.                                                *)

\* A step that begins no connection, and may end some descriptor: the clients
\* in its queue, and no others, are refused.
LEMMA ClientsKeep ==
    ASSUME TypeOK, Queues, Streams, UNCHANGED <<sent, stream, got>>, nextObj \in Nat,
           nextObj' \in Nat, nextObj <= nextObj',
           \A h \in Handle : \/ fd'[h] = fd[h]
                             \/ /\ fd'[h].st # "conn"
                                /\ fd'[h].st = "listening" => fd'[h].queue = <<>>,
           \A c \in Peer : \/ peer'[c] = peer[c]
                           \/ /\ peer'[c] = "refused"
                              /\ \E h \in Handle : /\ Listening(h) /\ fd'[h] # fd[h]
                                                   /\ \E i \in 1 .. Len(fd[h].queue) : fd[h].queue[i] = c
    PROVE  Queues' /\ Streams'
<1>1. \A h \in Handle : fd[h] \in KObject
  BY DEF TypeOK
<1>2. /\ \A h \in Handle : Listening(h)' /\ fd'[h] # fd[h] => \A i \in 1 .. Len(fd'[h].queue) : FALSE
      /\ \A h \in Handle : Listening(h)' /\ fd'[h] = fd[h] => Listening(h)
      /\ \A h \in Handle : Conn(h)' => fd'[h] = fd[h] /\ Conn(h)
  BY DEF Listening, Conn
<1>3. \A h \in Handle : Listening(h) =>
          fd[h].queue \in Seq(Peer) /\ \A i \in 1 .. Len(fd[h].queue) : fd[h].queue[i] \in Peer
  BY <1>1, KFacts DEF Listening
<1>4. \A h \in Handle : Conn(h) => fd[h].peer \in Peer
  BY <1>1, KFacts DEF Conn
<1>5. ASSUME NEW h \in Handle, Listening(h), fd'[h] = fd[h], NEW i \in 1 .. Len(fd[h].queue)
      PROVE  peer'[fd[h].queue[i]] = "queued"
  <2>1. fd[h].queue[i] \in Peer /\ peer[fd[h].queue[i]] = "queued"
    BY <1>3, <1>5 DEF Queues
  <2>2. ASSUME NEW g \in Handle, Listening(g), fd'[g] # fd[g], NEW j \in 1 .. Len(fd[g].queue)
        PROVE  fd[g].queue[j] # fd[h].queue[i]
    BY <1>5, <2>2 DEF Queues
  <2> QED BY <2>1, <2>2
<1>6. ASSUME NEW h \in Handle, Conn(h) PROVE peer'[fd[h].peer] = peer[fd[h].peer]
  <2>1. fd[h].peer \in Peer /\ peer[fd[h].peer] # "queued"
    BY <1>4, <1>6 DEF Streams
  <2>2. \A g \in Handle : Listening(g) => \A j \in 1 .. Len(fd[g].queue) : peer[fd[g].queue[j]] = "queued"
    BY DEF Queues
  <2> QED BY <2>1, <2>2
<1>7. Queues'
  <2>1. \A h \in Handle : Listening(h)' =>
          \A i \in 1 .. Len(fd'[h].queue) : peer'[fd'[h].queue[i]] = "queued"
    BY <1>2, <1>5
  <2>2. \A h, g \in Handle : Listening(h)' /\ Listening(g)' =>
          \A i \in 1 .. Len(fd'[h].queue), j \in 1 .. Len(fd'[g].queue) :
              fd'[h].queue[i] = fd'[g].queue[j] => h = g /\ i = j
    <3> SUFFICES ASSUME NEW h \in Handle, NEW g \in Handle, Listening(h)', Listening(g)',
                        NEW i \in 1 .. Len(fd'[h].queue), NEW j \in 1 .. Len(fd'[g].queue),
                        fd'[h].queue[i] = fd'[g].queue[j]
                 PROVE  h = g /\ i = j
      OBVIOUS
    <3>1. fd'[h] = fd[h] /\ fd'[g] = fd[g] /\ Listening(h) /\ Listening(g)
      BY <1>2
    <3> QED BY <3>1 DEF Queues
  <2> QED BY <2>1, <2>2 DEF Queues
<1>8. Streams'
  <2>1. \A h \in Handle : Conn(h)' =>
          /\ peer'[fd'[h].peer] \in {"open", "done"}
          /\ got'[fd'[h].id] \o stream'[fd'[h].peer] = sent'[fd'[h].peer]
    <3> SUFFICES ASSUME NEW h \in Handle, Conn(h)'
                 PROVE  /\ peer'[fd'[h].peer] \in {"open", "done"}
                        /\ got'[fd'[h].id] \o stream'[fd'[h].peer] = sent'[fd'[h].peer]
      OBVIOUS
    <3>1. fd'[h] = fd[h] /\ Conn(h)
      BY <1>2
    <3>2. peer'[fd[h].peer] = peer[fd[h].peer]
      BY <1>6, <3>1
    <3>3. /\ peer[fd[h].peer] \in {"open", "done"}
          /\ got[fd[h].id] \o stream[fd[h].peer] = sent[fd[h].peer]
      BY <3>1 DEF Streams
    <3> QED BY <3>1, <3>2, <3>3
  <2>2. \A h, g \in Handle : Conn(h)' /\ Conn(g)' /\ fd'[h].peer = fd'[g].peer => h = g
    BY <1>2 DEF Streams
  <2>3. \A c \in Peer : peer'[c] \in {"idle", "queued"} => stream'[c] = sent'[c]
    BY DEF Streams
  <2>4. \A i \in Ids : nextObj' <= i => got'[i] = <<>>
    BY DEF Streams, Ids
  <2> QED BY <2>1, <2>2, <2>3, <2>4 DEF Streams
<1> QED BY <1>7, <1>8

\* socket_Close, and a finalizer: of a descriptor in use.
LEMMA CloseStep ==
    ASSUME IInv, NEW h \in Handle, socket_Close(h), UNCHANGED <<nextObj, sent, stream, got>>
    PROVE  /\ fd' \in [Handle -> KObject] /\ Queues' /\ Streams'
           /\ \A g \in Handle : IF g = h THEN fd'[g] = Free ELSE fd'[g] = fd[g]
           /\ peer' \in [Peer -> {"idle", "queued", "open", "done", "refused"}]
<1>1. /\ fd' = [fd EXCEPT ![h] = Free]
      /\ peer' = [c \in Peer |-> IF fd[h].st = "listening" /\ c \in ToSet(fd[h].queue)
                              THEN "refused" ELSE peer[c]]
  BY DEF socket_Close, Refuse
<1>2. TypeOK /\ Free \in KObject /\ fd \in [Handle -> KObject] /\ nextObj \in Nat
  BY Types DEF IInv, TypeOK, KObject
<1>3. fd' \in [Handle -> KObject] /\ \A g \in Handle : IF g = h THEN fd'[g] = Free ELSE fd'[g] = fd[g]
  BY <1>1, <1>2, UpdateType
<1>4. peer' \in [Peer -> {"idle", "queued", "open", "done", "refused"}]
  BY <1>1, <1>2 DEF TypeOK
<1>5. ASSUME NEW c \in Peer, peer'[c] # peer[c]
      PROVE  /\ peer'[c] = "refused" /\ Listening(h) /\ fd'[h] # fd[h]
             /\ \E i \in 1 .. Len(fd[h].queue) : fd[h].queue[i] = c
  <2>1. peer'[c] = "refused" /\ fd[h].st = "listening" /\ c \in ToSet(fd[h].queue)
    BY <1>1, <1>5
  <2>2. fd[h].queue \in Seq(Peer)
    BY <1>2, <2>1, KFacts
  <2>3. \E i \in 1 .. Len(fd[h].queue) : fd[h].queue[i] = c
    BY <2>1, <2>2 DEF ToSet
  <2>4. fd'[h] # fd[h]
    BY <1>3, <2>1 DEF Free
  <2> QED BY <2>1, <2>3, <2>4 DEF Listening
<1>6. Queues' /\ Streams'
  <2>1. \A g \in Handle : fd'[g] = fd[g] \/ (fd'[g].st # "conn" /\ fd'[g].st # "listening")
    BY <1>3 DEF Free
  <2> QED BY <1>2, <1>5, <2>1, ClientsKeep DEF IInv
<1> QED BY <1>3, <1>4, <1>6

----------------------------------------------------------------------------
(* The operations of the script.                                           *)

\* socket.create and io.open: a new object behind a free descriptor.
LEMMA NewStep ==
    ASSUME IInv, NEW v \in Var, NEW kind \in {"light", "full"}, NEW h \in FreeHandles,
           NEW st \in {"open", "file"},
           fd' = [fd EXCEPT ![h] = [st |-> st, id |-> nextObj]], nextObj' = nextObj + 1,
           nextObj <= MaxObj, NewBox(v, kind, h, nextObj),
           UNCHANGED <<clients, got>>, SocketsInitialized' \in BOOLEAN
    PROVE  IInv'
<1> DEFINE k == [st |-> st, id |-> nextObj]
<1>1. TypeOK /\ Own /\ Queues /\ Streams /\ h \in Handle /\ fd[h] = Free
  BY DEF IInv, FreeHandles
<1>2. nextObj \in Ids /\ nextObj \in Nat
  BY <1>1, Types DEF Ids
<1>3. k \in KObject /\ k.id = nextObj /\ k.st \notin {"free", "listening", "conn"} /\ k # Free
  <2>1. k \in KObject
    BY <1>2, KIntro
  <2> QED BY <2>1, KFacts
<1>4. fd \in [Handle -> KObject]
  BY <1>1 DEF TypeOK
<1> HIDE DEF k
<1>5. fd' = [fd EXCEPT ![h] = k]
  BY DEF k
<1>6. /\ fd' \in [Handle -> KObject] /\ fd'[h] = k
      /\ \A g \in Handle : g # h => fd'[g] = fd[g]
  BY <1>1, <1>3, <1>4, <1>5, UpdateType
<1>7. /\ Own' /\ heap' \in [Ptr -> Box \cup {None}] /\ var' \in [Var -> Value \cup {None}]
      /\ obj' \in [Var -> Ids \cup {None}] /\ nextObj' \in 1 .. MaxObj + 1
  <2>1. fd'[h] # Free /\ fd'[h].id = nextObj
    BY <1>3, <1>6
  <2>2. \A g \in Handle : g # h => /\ fd'[g] = Free <=> fd[g] = Free
                                   /\ fd[g] # Free => fd'[g].id = fd[g].id
    BY <1>6
  <2> QED BY <1>1, <2>1, <2>2, OwnNew
<1>8. Queues' /\ Streams'
  <2>1. \A g \in Handle : fd'[g] = fd[g] \/ (fd'[g].st # "conn" /\ fd'[g].st # "listening")
    BY <1>3, <1>6
  <2>2. nextObj' \in Nat /\ nextObj <= nextObj' /\ UNCHANGED <<sent, stream, got>>
    BY <1>2
  <2>3. \A c \in Peer : peer'[c] = peer[c]
    OBVIOUS
  <2> QED BY <1>1, <1>2, <2>1, <2>2, <2>3, ClientsKeep
<1>9. TypeOK'
  BY <1>1, <1>6, <1>7 DEF TypeOK
<1> QED BY <1>7, <1>8, <1>9 DEF IInv

\* A step that touches no part of the invariant.
LEMMA Same ==
    ASSUME IInv, UNCHANGED <<script, kernel, clients, got>>, SocketsInitialized' \in BOOLEAN
    PROVE  IInv'
<1>1. TypeOK'
  BY DEF IInv, TypeOK
<1>2. Own'
  BY OwnSame DEF IInv
<1>3. Queues' /\ Streams'
  <2>1. nextObj \in Nat
    BY Types DEF IInv
  <2> QED BY <2>1, ClientsKeep DEF IInv
<1> QED BY <1>1, <1>2, <1>3 DEF IInv

LEMMA Create ==
    ASSUME IInv, NEW v \in Var, socklib_create(v)
    PROVE  IInv'
<1>1. SocketsInitialized' \in BOOLEAN
  BY DEF socklib_create, Header
<1>2. CASE UNCHANGED <<script, kernel>>
  BY <1>1, <1>2, Same DEF socklib_create
<1>3. CASE ~UNCHANGED <<script, kernel>>
  <2>1. PICK h \in FreeHandles :
           /\ fd' = [fd EXCEPT ![h] = [st |-> "open", id |-> nextObj]]
           /\ nextObj' = nextObj + 1
           /\ NewBox(v, "light", h, nextObj)
    BY <1>3 DEF socklib_create, init_socket_instance
  <2>2. UNCHANGED <<clients, got>> /\ nextObj <= MaxObj
    BY DEF socklib_create
  <2> QED BY <1>1, <2>1, <2>2, NewStep
<1> QED BY <1>2, <1>3

LEMMA Open ==
    ASSUME IInv, NEW v \in Var, io_open(v)
    PROVE  IInv'
<1>1. PICK h \in FreeHandles :
           /\ fd' = [fd EXCEPT ![h] = [st |-> "file", id |-> nextObj]]
           /\ nextObj' = nextObj + 1
           /\ NewBox(v, "full", h, nextObj)
  BY DEF io_open
<1>2. UNCHANGED <<clients, got>> /\ nextObj <= MaxObj /\ SocketsInitialized' \in BOOLEAN
  BY DEF io_open, IInv, TypeOK
<1> QED BY <1>1, <1>2, NewStep

\* A value that may be used: where it leads.
LEMMA Checked ==
    ASSUME IInv, NEW v \in Var, NEW kind, checkudata(v, kind)
    PROVE  /\ var[v][2] \in Ptr /\ var[v] = <<kind, var[v][2]>> /\ Live(var[v][2])
           /\ heap[var[v][2]].kind = kind /\ HandleOf(v) = heap[var[v][2]].h
           /\ HandleOf(v) \in Handle /\ KernelOf(v) = fd[HandleOf(v)]
           /\ fd[HandleOf(v)] \in KObject /\ fd[HandleOf(v)] # Free
           /\ fd[HandleOf(v)].id = obj[v] /\ obj[v] \in Ids
<1>1. TypeOK /\ obj[v] # None /\ var[v][1] = kind
  BY DEF IInv, checkudata
<1>2. /\ var[v] # None /\ Live(var[v][2]) /\ heap[var[v][2]].kind = var[v][1]
      /\ HandleOf(v) # None /\ fd[HandleOf(v)] # Free /\ fd[HandleOf(v)].id = obj[v]
  BY <1>1 DEF IInv, Own, References
<1>3. var[v][2] \in Ptr /\ var[v] = <<var[v][1], var[v][2]>>
  BY <1>1, <1>2 DEF TypeOK, Value
<1>4. HandleOf(v) = heap[var[v][2]].h /\ HandleOf(v) \in Handle
  BY <1>1, <1>2, <1>3, Types DEF HandleOf
<1>5. KernelOf(v) = fd[HandleOf(v)]
  BY <1>2 DEF KernelOf
<1>6. fd[HandleOf(v)] \in KObject /\ obj[v] \in Ids
  BY <1>1, <1>4 DEF TypeOK
<1> QED BY <1>1, <1>2, <1>3, <1>4, <1>5, <1>6

\* bind and listen: a socket that has no connection yet changes its state.
LEMMA StateStep ==
    ASSUME IInv, NEW h \in Handle, NEW k \in KObject, fd[h] # Free,
           k.st \in {"bound", "listening"}, k.id = fd[h].id,
           k.st = "listening" => k.queue = <<>>,
           fd' = [fd EXCEPT ![h] = k], UNCHANGED <<script, nextObj, clients, got>>,
           SocketsInitialized' \in BOOLEAN
    PROVE  IInv'
<1>1. TypeOK /\ Own /\ Queues /\ Streams /\ fd \in [Handle -> KObject] /\ k # Free
  BY KFacts DEF IInv, TypeOK
<1>2. /\ fd' \in [Handle -> KObject] /\ fd'[h] = k
      /\ \A g \in Handle : g # h => fd'[g] = fd[g]
  BY <1>1, UpdateType
<1>3. Own'
  BY <1>1, <1>2, OwnSame
<1>4. Queues' /\ Streams'
  <2>1. nextObj \in Nat
    BY <1>1, Types
  <2> QED BY <1>1, <1>2, <2>1, ClientsKeep
<1>5. TypeOK'
  BY <1>1, <1>2 DEF TypeOK
<1> QED BY <1>3, <1>4, <1>5 DEF IInv

\* The conversion to uint16_t.
LEMMA LowBits ==
    ASSUME NEW n \in Int
    PROVE  uint16_t(n) \in uint16
<1>1. \A m \in Nat \ {0} : n % m \in 0 .. m - 1
  BY SMT
<1>2. Width16 \in Nat \ {0}
  BY SMT DEF Width16
<1> QED BY <1>1, <1>2 DEF uint16, uint16_t

LEMMA Bind ==
    ASSUME IInv, NEW v \in Var, NEW port \in Port, socklib_bind(v, port)
    PROVE  IInv'
<1> DEFINE h == HandleOf(v)
           k == [st |-> "bound", id |-> fd[h].id, port |-> uint16_t(port)]
<1>1. /\ h \in Handle /\ fd[h] # Free /\ fd[h].id \in Ids
      /\ UNCHANGED <<script, nextObj, clients, got>> /\ SocketsInitialized' \in BOOLEAN
  BY Checked DEF socklib_bind, Header
<1>2. fd' = fd \/ fd' = [fd EXCEPT ![h] = k]
  BY DEF socklib_bind
<1>3. k \in KObject
  <2>1. uint16_t(port) \in uint16
    BY LowBits, SockAssumption
  <2> QED BY <1>1, <2>1, KIntro
<1>4. k.st = "bound" /\ k.id = fd[h].id
  OBVIOUS
<1> HIDE DEF h, k
<1>5. CASE fd' = fd
  BY <1>1, <1>5, Same
<1>6. CASE fd' = [fd EXCEPT ![h] = k]
  BY <1>1, <1>3, <1>4, <1>6, StateStep
<1> QED BY <1>2, <1>5, <1>6

LEMMA Listen ==
    ASSUME IInv, NEW v \in Var, socklib_listen(v)
    PROVE  IInv'
<1> DEFINE h == HandleOf(v)
           k == [st |-> "listening", id |-> fd[h].id, queue |-> << >>]
<1>1. /\ h \in Handle /\ fd[h] # Free /\ fd[h].id \in Ids
      /\ UNCHANGED <<script, nextObj, clients, got>> /\ SocketsInitialized' \in BOOLEAN
  BY Checked DEF socklib_listen, Header
<1>2. fd' = fd \/ fd' = [fd EXCEPT ![h] = k]
  BY DEF socklib_listen
<1>3. k \in KObject
  <2>1. << >> \in Seq(Peer) /\ Len(<< >>) <= Cardinality(Peer)
    BY SockAssumption, FS_CardinalityType
  <2> QED BY <1>1, <2>1, KIntro
<1>4. k.st = "listening" /\ k.id = fd[h].id /\ k.queue = << >>
  OBVIOUS
<1> HIDE DEF h, k
<1>5. CASE fd' = fd
  BY <1>1, <1>5, Same
<1>6. CASE fd' = [fd EXCEPT ![h] = k]
  BY <1>1, <1>3, <1>4, <1>6, StateStep
<1> QED BY <1>2, <1>5, <1>6

\* Any two values that lead to one record denote one object, so that a close
\* closes them all.
LEMMA AllClosed ==
    ASSUME IInv, NEW v \in Var, NEW kind, checkudata(v, kind),
           obj' = [w \in Var |-> IF w \in SameObject(v) THEN None ELSE obj[w]]
    PROVE  /\ obj' \in [Var -> Ids \cup {None}]
           /\ \A w \in Var : obj'[w] = obj[w] \/ obj'[w] = None
           /\ \A w \in Var : var[w] # None /\ var[w] = <<kind, var[v][2]>> => obj'[w] = None
<1>1. obj \in [Var -> Ids \cup {None}]
  BY DEF IInv, TypeOK
<1>2. ASSUME NEW w \in Var, var[w] = <<kind, var[v][2]>>, obj[w] # None
      PROVE  w \in SameObject(v)
  <2>1. checkudata(w, kind)
    BY <1>2 DEF checkudata
  <2>2. var[w][2] = var[v][2]
    BY <1>2
  <2>3. obj[w] = obj[v]
    BY <2>1, <2>2, Checked
  <2> QED BY <2>3 DEF SameObject
<1> QED BY <1>1, <1>2

LEMMA Close ==
    ASSUME IInv, NEW v \in Var, socklib_close(v)
    PROVE  IInv'
<1> PICK p \in Ptr : p = var[v][2]
  BY Checked DEF socklib_close
<1>1. /\ checkudata(v, "light") /\ socket_Close(HandleOf(v)) /\ SocketsInitialized' \in BOOLEAN
      /\ heap' = [heap EXCEPT ![p].live = FALSE]
      /\ obj' = [w \in Var |-> IF w \in SameObject(v) THEN None ELSE obj[w]]
      /\ UNCHANGED <<var, nextObj, sent, stream, got>>
  BY DEF socklib_close, Header
<1>2. /\ p \in Ptr /\ Live(p) /\ heap[p].kind = "light" /\ HandleOf(v) = heap[p].h
      /\ HandleOf(v) \in Handle
  BY <1>1, Checked
<1>3. /\ fd' \in [Handle -> KObject] /\ Queues' /\ Streams'
      /\ \A g \in Handle : IF g = heap[p].h THEN fd'[g] = Free ELSE fd'[g] = fd[g]
      /\ peer' \in [Peer -> {"idle", "queued", "open", "done", "refused"}]
  BY <1>1, <1>2, CloseStep
<1>4. /\ obj' \in [Var -> Ids \cup {None}]
      /\ \A w \in Var : obj'[w] = obj[w] \/ obj'[w] = None
      /\ \A w \in Var : var[w] # None /\ var[w] = <<"light", p>> => obj'[w] = None
  BY <1>1, AllClosed
<1>5. TypeOK /\ Own /\ heap \in [Ptr -> Box \cup {None}] /\ heap[p] \in Box
  BY <1>2 DEF IInv, TypeOK, Live
<1>6. /\ heap' \in [Ptr -> Box \cup {None}] /\ heap'[p].kind = heap[p].kind
      /\ ~heap'[p].live /\ \A q \in Ptr : q # p => heap'[q] = heap[q]
  <2>1. heap' = [heap EXCEPT ![p] = [heap[p] EXCEPT !.live = FALSE]]
    BY <1>1
  <2>2. /\ [heap[p] EXCEPT !.live = FALSE] \in Box
        /\ [heap[p] EXCEPT !.live = FALSE].kind = heap[p].kind
        /\ ~[heap[p] EXCEPT !.live = FALSE].live
    BY <1>5 DEF Box
  <2> QED BY <1>2, <1>5, <2>1, <2>2
<1>7. ~Live(p)'
  BY <1>6 DEF Live
<1>8. Own'
  <2>1. UNCHANGED <<var, nextObj>> /\ \A w \in Var : obj'[w] = obj[w] \/ obj'[w] = None
    BY <1>1, <1>4
  <2>2. \A w \in Var : var[w] # None /\ var[w] = <<heap[p].kind, p>> => obj'[w] = None
    BY <1>2, <1>4
  <2> QED BY <1>2, <1>3, <1>5, <1>6, <1>7, <2>1, <2>2, OwnClose
<1>9. TypeOK'
  BY <1>1, <1>3, <1>4, <1>5, <1>6 DEF TypeOK
<1> QED BY <1>3, <1>8, <1>9 DEF IInv

LEMMA Fclose ==
    ASSUME IInv, NEW v \in Var, io_fclose(v)
    PROVE  IInv'
<1> PICK p \in Ptr : p = var[v][2]
  BY Checked DEF io_fclose
<1>1. /\ checkudata(v, "full") /\ socket_Close(HandleOf(v))
      /\ heap' = [heap EXCEPT ![p].h = None]
      /\ obj' = [w \in Var |-> IF w \in SameObject(v) THEN None ELSE obj[w]]
      /\ UNCHANGED <<SocketsInitialized, var, nextObj, sent, stream, got>>
  BY DEF io_fclose
<1>2. /\ p \in Ptr /\ Live(p) /\ heap[p].kind = "full" /\ HandleOf(v) = heap[p].h
      /\ HandleOf(v) \in Handle
  BY <1>1, Checked
<1>3. /\ fd' \in [Handle -> KObject] /\ Queues' /\ Streams'
      /\ \A g \in Handle : IF g = heap[p].h THEN fd'[g] = Free ELSE fd'[g] = fd[g]
      /\ peer' \in [Peer -> {"idle", "queued", "open", "done", "refused"}]
  BY <1>1, <1>2, CloseStep
<1>4. /\ obj' \in [Var -> Ids \cup {None}]
      /\ \A w \in Var : obj'[w] = obj[w] \/ obj'[w] = None
      /\ \A w \in Var : var[w] # None /\ var[w] = <<"full", p>> => obj'[w] = None
  BY <1>1, AllClosed
<1>5. TypeOK /\ Own /\ heap \in [Ptr -> Box \cup {None}] /\ heap[p] \in Box
  BY <1>2 DEF IInv, TypeOK, Live
<1>6. /\ heap' \in [Ptr -> Box \cup {None}] /\ heap'[p].kind = heap[p].kind
      /\ heap'[p].h = None /\ \A q \in Ptr : q # p => heap'[q] = heap[q]
  <2>1. heap' = [heap EXCEPT ![p] = [heap[p] EXCEPT !.h = None]]
    BY <1>1
  <2>2. /\ [heap[p] EXCEPT !.h = None] \in Box
        /\ [heap[p] EXCEPT !.h = None].kind = heap[p].kind
        /\ [heap[p] EXCEPT !.h = None].h = None
    BY <1>5 DEF Box
  <2> QED BY <1>2, <1>5, <2>1, <2>2
<1>7. Own'
  <2>1. UNCHANGED <<var, nextObj>> /\ \A w \in Var : obj'[w] = obj[w] \/ obj'[w] = None
    BY <1>1, <1>4
  <2>2. \A w \in Var : var[w] # None /\ var[w] = <<heap[p].kind, p>> => obj'[w] = None
    BY <1>2, <1>4
  <2> QED BY <1>2, <1>3, <1>5, <1>6, <2>1, <2>2, OwnClose
<1>8. TypeOK'
  BY <1>1, <1>3, <1>4, <1>5, <1>6 DEF TypeOK
<1> QED BY <1>3, <1>7, <1>8 DEF IInv

LEMMA Finalize ==
    ASSUME IInv, NEW p \in Ptr, Collect(p)
    PROVE  IInv'
<1>1. /\ Live(p) /\ heap[p].kind = "full" /\ \A v \in Var : var[v] # <<"full", p>>
      /\ heap' = [heap EXCEPT ![p].live = FALSE]
      /\ IF heap[p].h = None THEN UNCHANGED <<fd, peer>> ELSE socket_Close(heap[p].h)
      /\ UNCHANGED <<SocketsInitialized, var, obj, nextObj, sent, stream, got>>
  BY DEF Collect, Lost
<1>2. /\ TypeOK /\ Own /\ heap \in [Ptr -> Box \cup {None}] /\ heap[p] \in Box
      /\ heap[p].h \in Handle \cup {None} /\ None \notin Handle
  BY <1>1, SockAssumption DEF IInv, TypeOK, Live, Box
<1>3. /\ fd' \in [Handle -> KObject] /\ Queues' /\ Streams'
      /\ \A g \in Handle : IF g = heap[p].h THEN fd'[g] = Free ELSE fd'[g] = fd[g]
      /\ peer' \in [Peer -> {"idle", "queued", "open", "done", "refused"}]
  <2>1. CASE heap[p].h = None
    <3>1. UNCHANGED <<fd, peer>> /\ \A g \in Handle : g # heap[p].h
      BY <1>1, <1>2, <2>1
    <3>2. nextObj \in Nat
      BY <1>2, Types
    <3>3. Queues' /\ Streams'
      BY <1>1, <1>2, <3>1, <3>2, ClientsKeep DEF IInv
    <3> QED BY <1>2, <3>1, <3>3 DEF TypeOK
  <2>2. CASE heap[p].h # None
    BY <1>1, <1>2, <2>2, CloseStep
  <2> QED BY <2>1, <2>2
<1>4. /\ heap' \in [Ptr -> Box \cup {None}] /\ heap'[p].kind = heap[p].kind
      /\ ~heap'[p].live /\ \A q \in Ptr : q # p => heap'[q] = heap[q]
  <2>1. heap' = [heap EXCEPT ![p] = [heap[p] EXCEPT !.live = FALSE]]
    BY <1>1
  <2>2. /\ [heap[p] EXCEPT !.live = FALSE] \in Box
        /\ [heap[p] EXCEPT !.live = FALSE].kind = heap[p].kind
        /\ ~[heap[p] EXCEPT !.live = FALSE].live
    BY <1>2 DEF Box
  <2> QED BY <1>2, <2>1, <2>2
<1>5. ~Live(p)'
  BY <1>4 DEF Live
<1>6. Own'
  BY <1>1, <1>2, <1>3, <1>4, <1>5, OwnClose
<1>7. TypeOK'
  BY <1>1, <1>2, <1>3, <1>4 DEF TypeOK
<1> QED BY <1>3, <1>6, <1>7 DEF IInv

\* Assignments of the script.
LEMMA Assignment ==
    ASSUME IInv, NEW v \in Var, Forget(v) \/ \E w \in Var : Assign(v, w)
    PROVE  IInv'
<1>1. UNCHANGED <<SocketsInitialized, heap, kernel, clients, got>>
  BY DEF Forget, Assign
<1>2. TypeOK /\ Own /\ var \in [Var -> Value \cup {None}] /\ obj \in [Var -> Ids \cup {None}]
  BY DEF IInv, TypeOK
<1>3. PICK x \in Value \cup {None}, o \in Ids \cup {None} :
        /\ var' = [var EXCEPT ![v] = x] /\ obj' = [obj EXCEPT ![v] = o]
        /\ o = None \/ \E w \in Var : x = var[w] /\ o = obj[w]
  <2>1. CASE Forget(v)
    BY <2>1 DEF Forget
  <2>2. ASSUME NEW w \in Var, Assign(v, w)
        PROVE  \E x \in Value \cup {None}, o \in Ids \cup {None} :
                 /\ var' = [var EXCEPT ![v] = x] /\ obj' = [obj EXCEPT ![v] = o]
                 /\ x = var[w] /\ o = obj[w]
    BY <1>2, <2>2 DEF Assign
  <2> QED BY <2>1, <2>2
<1>4. /\ var' \in [Var -> Value \cup {None}] /\ obj' \in [Var -> Ids \cup {None}]
      /\ var'[v] = x /\ obj'[v] = o
      /\ \A w \in Var : w # v => var'[w] = var[w] /\ obj'[w] = obj[w]
  BY <1>2, <1>3
<1>5. Own'
  BY <1>1, <1>2, <1>3, <1>4, OwnAssign
<1>6. Queues' /\ Streams'
  <2>1. nextObj \in Nat
    BY <1>2, Types
  <2> QED BY <1>1, <1>2, <2>1, ClientsKeep DEF IInv
<1>7. TypeOK'
  BY <1>1, <1>2, <1>4 DEF TypeOK
<1> QED BY <1>5, <1>6, <1>7 DEF IInv

----------------------------------------------------------------------------
(* What passes through a connection.                                       *)

LEMMA Split ==
    ASSUME NEW S, NEW s \in Seq(S), NEW n \in 0 .. Len(s)
    PROVE  /\ SubSeq(s, 1, n) \in Seq(S) /\ SubSeq(s, n + 1, Len(s)) \in Seq(S)
           /\ SubSeq(s, 1, n) \o SubSeq(s, n + 1, Len(s)) = s
           /\ Len(SubSeq(s, n + 1, Len(s))) <= Len(s)
<1>1. Len(s) \in Nat /\ \A i \in 1 .. Len(s) : s[i] \in S
  BY LenProperties, ElementOfSeq
<1>2. SubSeq(s, 1, n) \in Seq(S)
  BY <1>1, SubSeqProperties
<1>3. SubSeq(s, n + 1, Len(s)) \in Seq(S)
  BY <1>1, SubSeqProperties
<1>4. SubSeq(s, 1, n) \o SubSeq(s, n + 1, Len(s)) = SubSeq(s, 1, Len(s))
  <2>1. 1 \in 1 .. Len(s) + 1 /\ n \in 1 - 1 .. Len(s) /\ Len(s) \in n .. Len(s)
    BY <1>1
  <2> QED BY <2>1, ConcatAdjacentSubSeq
<1>5. SubSeq(s, 1, Len(s)) = s
  BY SubSeqFull
<1>6. Len(SubSeq(s, n + 1, Len(s))) <= Len(s)
  <2>1. SubSeq(s, 1, n) \o SubSeq(s, n + 1, Len(s)) = s
    BY <1>4, <1>5
  <2>2. Len(s) = Len(SubSeq(s, 1, n)) + Len(SubSeq(s, n + 1, Len(s)))
    BY <1>2, <1>3, <2>1, ConcatProperties
  <2> QED BY <1>2, <1>3, <2>2, LenProperties
<1> QED BY <1>2, <1>3, <1>4, <1>5, <1>6

\* Taking the first bytes of a stream: nothing is lost between what was
\* received and what waits.
LEMMA Taken ==
    ASSUME NEW S, NEW g \in Seq(S), NEW s \in Seq(S), NEW n \in 0 .. Len(s)
    PROVE  /\ g \o SubSeq(s, 1, n) \in Seq(S)
           /\ (g \o SubSeq(s, 1, n)) \o SubSeq(s, n + 1, Len(s)) = g \o s
           /\ Len(g \o SubSeq(s, 1, n)) <= Len(g \o s)
<1>1. PICK a \in Seq(S), b \in Seq(S) :
        a = SubSeq(s, 1, n) /\ b = SubSeq(s, n + 1, Len(s)) /\ a \o b = s
  <2>1. /\ SubSeq(s, 1, n) \in Seq(S) /\ SubSeq(s, n + 1, Len(s)) \in Seq(S)
        /\ SubSeq(s, 1, n) \o SubSeq(s, n + 1, Len(s)) = s
    BY Split
  <2> QED BY <2>1, Zenon
<1>2. (g \o a) \o b = g \o s
  <2>1. (g \o a) \o b = g \o (a \o b)
    BY ConcatAssociative
  <2> QED BY <1>1, <2>1
<1>3. g \o a \in Seq(S) /\ Len(g \o a) = Len(g) + Len(a) /\ Len(g \o s) = Len(g) + Len(s)
  BY <1>1, ConcatProperties
<1>4. Len(s) = Len(a) + Len(b) /\ Len(a) \in Nat /\ Len(b) \in Nat /\ Len(g) \in Nat
  <2>1. Len(a \o b) = Len(a) + Len(b)
    BY <1>1, ConcatProperties
  <2> QED BY <1>1, <2>1, LenProperties
<1>5. Len(g \o a) <= Len(g \o s)
  BY <1>3, <1>4
<1> QED BY <1>1, <1>2, <1>3, <1>5

LEMMA Recv ==
    ASSUME IInv, NEW v \in Var, NEW size, socklib_recv(v, size)
    PROVE  IInv'
<1> PICK h \in Handle : h = HandleOf(v)
  BY Checked DEF socklib_recv
<1>1. /\ checkudata(v, "light") /\ UNCHANGED <<script, kernel, peer, sent>>
      /\ SocketsInitialized' \in BOOLEAN
  BY DEF socklib_recv, Header
<1>2. /\ KernelOf(v) = fd[h] /\ fd[h] \in KObject /\ fd[h] # Free
      /\ fd[h].id = obj[v] /\ obj[v] \in Ids
  BY <1>1, Checked
<1>3. TypeOK /\ Own /\ Queues /\ Streams
  BY DEF IInv
<1>4. CASE fd[h].st # "conn"
  <2>1. UNCHANGED <<stream, got>>
    BY <1>2, <1>4 DEF socklib_recv
  <2> QED BY <1>1, <2>1, Same
<1>5. CASE fd[h].st = "conn"
  <2>1. PICK c \in Peer, i \in Ids : c = fd[h].peer /\ i = obj[v]
    BY <1>2, <1>5, KFacts
  <2>2. PICK n \in 0 .. Len(stream[c]) :
           /\ got' = [got EXCEPT ![i] = @ \o SubSeq(stream[c], 1, n)]
           /\ stream' = [stream EXCEPT ![c] = SubSeq(@, n + 1, Len(@))]
    BY <1>2, <1>5, <2>1 DEF socklib_recv
  <2>3. /\ Conn(h) /\ peer[c] \in {"open", "done"} /\ got[i] \o stream[c] = sent[c]
    BY <1>2, <1>3, <1>5, <2>1 DEF Streams, Conn
  <2>4. /\ got[i] \in Seq(Byte) /\ stream[c] \in Seq(Byte) /\ sent[c] \in Seq(Byte)
        /\ Len(sent[c]) <= MaxSent /\ Len(stream[c]) <= MaxSent /\ MaxSent \in Nat
        /\ Len(sent[c]) \in Nat /\ Len(stream[c]) \in Nat /\ nextObj \in Nat
    BY <1>3, Types
  <2> DEFINE new == got[i] \o SubSeq(stream[c], 1, n)
             rest == SubSeq(stream[c], n + 1, Len(stream[c]))
  <2>5. /\ new \in Seq(Byte) /\ new \o rest = sent[c] /\ Len(new) <= Len(sent[c])
        /\ rest \in Seq(Byte) /\ Len(rest) <= Len(stream[c])
    <3>1. /\ new \in Seq(Byte) /\ new \o rest = got[i] \o stream[c]
          /\ Len(new) <= Len(got[i] \o stream[c])
      BY <2>4, Taken
    <3>2. rest \in Seq(Byte) /\ Len(rest) <= Len(stream[c])
      BY <2>4, Split
    <3> QED BY <2>3, <3>1, <3>2
  <2>6. got' = [got EXCEPT ![i] = new] /\ stream' = [stream EXCEPT ![c] = rest]
    BY <2>2
  <2>7. /\ got \in [Ids -> SeqOf(Byte, MaxSent)] /\ stream \in [Peer -> SeqOf(Byte, MaxSent)]
    BY <1>3 DEF TypeOK
  <2> HIDE DEF new, rest
  <2>8. new \in SeqOf(Byte, MaxSent) /\ rest \in SeqOf(Byte, MaxSent)
    <3>1. Len(new) \in Nat /\ Len(rest) \in Nat
      BY <2>5, LenProperties
    <3> QED BY <2>4, <2>5, <3>1, SeqOfIs
  <2>9. /\ got' \in [Ids -> SeqOf(Byte, MaxSent)] /\ got'[i] = new
        /\ \A j \in Ids : j # i => got'[j] = got[j]
    BY <2>6, <2>7, <2>8, UpdateType
  <2>10. /\ stream' \in [Peer -> SeqOf(Byte, MaxSent)] /\ stream'[c] = rest
         /\ \A d \in Peer : d # c => stream'[d] = stream[d]
    BY <2>6, <2>7, <2>8, UpdateType
  <2>11. TypeOK'
    BY <1>1, <1>3, <2>9, <2>10 DEF TypeOK
  <2>12. Own'
    BY <1>1, <1>3, OwnSame
  <2>13. Queues'
    BY <1>1, <1>3 DEF Queues, Listening
  <2>14. ASSUME NEW g \in Handle, Conn(g)'
         PROVE  /\ peer'[fd'[g].peer] \in {"open", "done"}
                /\ got'[fd'[g].id] \o stream'[fd'[g].peer] = sent'[fd'[g].peer]
    <3>1. UNCHANGED <<fd, peer, sent>> /\ Conn(g)
      BY <1>1, <2>14 DEF Conn
    <3>2. CASE g = h
      BY <1>2, <2>1, <2>3, <2>5, <2>9, <2>10, <3>1, <3>2
    <3>3. CASE g # h
      <4>1. fd[g] \in KObject /\ fd[g].st = "conn"
        BY <1>3, <3>1 DEF TypeOK, Conn
      <4>2. fd[g] # Free /\ fd[g].id \in Ids /\ fd[g].peer \in Peer
        BY <4>1, KFacts
      <4>3. fd[g].id # i
        BY <1>2, <1>3, <2>1, <3>3, <4>2 DEF Own, Fresh
      <4>4. fd[g].peer # c
        BY <1>3, <2>1, <2>3, <3>1, <3>3 DEF Streams
      <4>5. got'[fd[g].id] = got[fd[g].id] /\ stream'[fd[g].peer] = stream[fd[g].peer]
        BY <2>9, <2>10, <4>2, <4>3, <4>4
      <4> QED BY <1>3, <3>1, <4>5 DEF Streams
    <3> QED BY <3>2, <3>3
  <2>15. \A g, f \in Handle : Conn(g)' /\ Conn(f)' /\ fd'[g].peer = fd'[f].peer => g = f
    BY <1>1, <1>3 DEF Streams, Conn
  <2>16. \A d \in Peer : peer'[d] \in {"idle", "queued"} => stream'[d] = sent'[d]
    BY <1>1, <1>3, <2>3, <2>10 DEF Streams
  <2>17. \A d \in Peer : Len(stream'[d]) <= Len(sent'[d])
    <3>1. Len(rest) \in Nat /\ Len(stream[c]) <= Len(sent[c])
      BY <1>3, <2>5, LenProperties DEF Streams
    <3>2. Len(rest) <= Len(sent[c])
      BY <2>4, <2>5, <3>1
    <3> QED BY <1>1, <1>3, <2>10, <3>2 DEF Streams
  <2>18. \A j \in Ids : nextObj' <= j => got'[j] = <<>>
    <3>1. i < nextObj
      BY <1>2, <1>3, <2>1 DEF Own, Fresh
    <3>2. i \in Nat /\ nextObj' = nextObj
      BY <1>1 DEF Ids
    <3> QED BY <1>3, <2>4, <2>9, <3>1, <3>2 DEF Streams
  <2>19. Streams'
    BY <2>14, <2>15, <2>16, <2>17, <2>18 DEF Streams
  <2> QED BY <2>11, <2>12, <2>13, <2>19 DEF IInv
<1> QED BY <1>4, <1>5

----------------------------------------------------------------------------
(* The clients.                                                            *)

LEMMA Send ==
    ASSUME IInv, NEW c \in Peer, PeerSend(c)
    PROVE  IInv'
<1>1. PICK b \in Byte : /\ sent' = [sent EXCEPT ![c] = Append(@, b)]
                        /\ stream' = [stream EXCEPT ![c] = Append(@, b)]
  BY DEF PeerSend
<1>2. /\ Len(sent[c]) < MaxSent
      /\ UNCHANGED <<SocketsInitialized, script, kernel, peer, got>>
  BY DEF PeerSend
<1>3. TypeOK /\ Own /\ Queues /\ Streams
  BY DEF IInv
<1>4. /\ stream[c] \in Seq(Byte) /\ sent[c] \in Seq(Byte) /\ MaxSent \in Nat
      /\ Len(sent[c]) \in Nat /\ Len(stream[c]) \in Nat
  BY <1>3, Types
<1>5. Len(stream[c]) <= Len(sent[c])
  BY <1>3 DEF Streams
<1>6. PICK s \in Seq(Byte), t \in Seq(Byte) :
        s = Append(sent[c], b) /\ t = Append(stream[c], b)
  <2>1. Append(sent[c], b) \in Seq(Byte) /\ Append(stream[c], b) \in Seq(Byte)
    BY <1>4, AppendProperties
  <2> QED BY <2>1, Zenon
<1>7. Len(s) = Len(sent[c]) + 1 /\ Len(t) = Len(stream[c]) + 1
  BY <1>4, <1>6, AppendProperties
<1>8. s \in SeqOf(Byte, MaxSent) /\ t \in SeqOf(Byte, MaxSent)
  BY <1>2, <1>4, <1>5, <1>7, SeqOfIs
<1>9. /\ sent' \in [Peer -> SeqOf(Byte, MaxSent)] /\ sent'[c] = s
      /\ stream' \in [Peer -> SeqOf(Byte, MaxSent)] /\ stream'[c] = t
      /\ \A d \in Peer : d # c => sent'[d] = sent[d] /\ stream'[d] = stream[d]
  <2>1. sent' = [sent EXCEPT ![c] = s] /\ stream' = [stream EXCEPT ![c] = t]
    BY <1>1, <1>6
  <2>2. sent \in [Peer -> SeqOf(Byte, MaxSent)] /\ stream \in [Peer -> SeqOf(Byte, MaxSent)]
    BY <1>3 DEF TypeOK
  <2> QED BY <1>8, <2>1, <2>2, UpdateType
<1>10. TypeOK'
  BY <1>2, <1>3, <1>9 DEF TypeOK
<1>11. Own' /\ Queues'
  <2>1. Own'
    BY <1>2, <1>3, OwnSame
  <2>2. Queues'
    BY <1>2, <1>3 DEF Queues, Listening
  <2> QED BY <2>1, <2>2
<1>12. ASSUME NEW g \in Handle, Conn(g)'
       PROVE  /\ peer'[fd'[g].peer] \in {"open", "done"}
              /\ got'[fd'[g].id] \o stream'[fd'[g].peer] = sent'[fd'[g].peer]
  <2>1. UNCHANGED <<fd, peer, got>> /\ Conn(g)
    BY <1>2, <1>12 DEF Conn
  <2>2. fd[g] \in KObject /\ fd[g].st = "conn"
    BY <1>3, <2>1 DEF TypeOK, Conn
  <2>3. fd[g].id \in Ids /\ fd[g].peer \in Peer
    BY <2>2, KFacts DEF Free
  <2>4. /\ peer[fd[g].peer] \in {"open", "done"}
        /\ got[fd[g].id] \o stream[fd[g].peer] = sent[fd[g].peer]
    BY <1>3, <2>1 DEF Streams
  <2>5. CASE fd[g].peer # c
    BY <1>9, <2>1, <2>3, <2>4, <2>5
  <2>6. CASE fd[g].peer = c
    <3>1. PICK x \in Seq(Byte) : x = got[fd[g].id]
      BY <1>3, <2>3, Types
    <3>2. x \o stream[c] = sent[c]
      BY <2>4, <2>6, <3>1
    <3>3. PICK y \in Seq(Byte), z \in Seq(Byte) : y = stream[c] /\ z = <<b>>
      <4>1. <<b>> \in Seq(Byte)
        OBVIOUS
      <4> QED BY <1>4, <4>1, Zenon
    <3>4. s = sent[c] \o z /\ t = y \o z
      BY <1>4, <1>6, <3>3, AppendIsConcat
    <3>5. x \o t = s
      <4>1. (x \o y) \o z = x \o (y \o z)
        BY ConcatAssociative
      <4> QED BY <3>2, <3>3, <3>4, <4>1
    <3> QED BY <1>9, <2>1, <2>4, <2>6, <3>1, <3>5
  <2> QED BY <2>5, <2>6
<1>13. \A g, f \in Handle : Conn(g)' /\ Conn(f)' /\ fd'[g].peer = fd'[f].peer => g = f
  BY <1>2, <1>3 DEF Streams, Conn
<1>14. \A d \in Peer : peer'[d] \in {"idle", "queued"} => stream'[d] = sent'[d]
  <2>1. stream[c] = sent[c] => s = t
    BY <1>6
  <2> QED BY <1>2, <1>3, <1>9, <2>1 DEF Streams
<1>15. \A d \in Peer : Len(stream'[d]) <= Len(sent'[d])
  <2>1. Len(t) <= Len(s)
    BY <1>4, <1>5, <1>7
  <2> QED BY <1>3, <1>9, <2>1 DEF Streams
<1>16. \A j \in Ids : nextObj' <= j => got'[j] = <<>>
  BY <1>2, <1>3 DEF Streams
<1> QED BY <1>10, <1>11, <1>12, <1>13, <1>14, <1>15, <1>16 DEF IInv, Streams

LEMMA Finish ==
    ASSUME IInv, NEW c \in Peer, PeerFinish(c)
    PROVE  IInv'
<1>1. /\ peer[c] = "open" /\ peer' = [peer EXCEPT ![c] = "done"]
      /\ UNCHANGED <<SocketsInitialized, script, kernel, sent, stream, got>>
  BY DEF PeerFinish
<1>2. TypeOK /\ Own /\ Queues /\ Streams
  BY DEF IInv
<1>3. /\ peer' \in [Peer -> {"idle", "queued", "open", "done", "refused"}]
      /\ peer'[c] = "done" /\ \A d \in Peer : d # c => peer'[d] = peer[d]
  BY <1>1, <1>2 DEF TypeOK
<1>4. TypeOK'
  BY <1>1, <1>2, <1>3 DEF TypeOK
<1>5. Own'
  BY <1>1, <1>2, OwnSame
<1>6. Queues'
  <2>1. ASSUME NEW h \in Handle, Listening(h), NEW i \in 1 .. Len(fd[h].queue)
        PROVE  peer'[fd[h].queue[i]] = "queued"
    <3>1. fd[h].queue \in Seq(Peer)
      BY <1>2, <2>1, KFacts DEF TypeOK, Listening
    <3>2. fd[h].queue[i] \in Peer /\ peer[fd[h].queue[i]] = "queued"
      BY <1>2, <2>1, <3>1, ElementOfSeq DEF Queues
    <3> QED BY <1>1, <1>3, <3>2
  <2> QED BY <1>1, <1>2, <2>1 DEF Queues, Listening
<1>7. Streams'
  <2>1. ASSUME NEW g \in Handle, Conn(g)
        PROVE  peer'[fd[g].peer] \in {"open", "done"}
    <3>1. fd[g].peer \in Peer
      BY <1>2, <2>1, KFacts DEF TypeOK, Conn
    <3> QED BY <1>2, <1>3, <2>1, <3>1 DEF Streams
  <2>2. \A d \in Peer : peer'[d] \in {"idle", "queued"} => stream'[d] = sent'[d]
    BY <1>1, <1>2, <1>3 DEF Streams
  <2> QED BY <1>1, <1>2, <2>1, <2>2 DEF Streams, Conn
<1> QED BY <1>4, <1>5, <1>6, <1>7 DEF IInv

\* A queue without repetitions is no longer than the clients are many.
LEMMA QueueLength ==
    ASSUME NEW q \in Seq(Peer), \A i, j \in 1 .. Len(q) : q[i] = q[j] => i = j
    PROVE  Len(q) <= Cardinality(Peer)
<1>1. Len(q) \in Nat /\ q \in [1 .. Len(q) -> Peer]
  BY LenProperties
<1>2. IsFiniteSet(1 .. Len(q)) /\ Cardinality(1 .. Len(q)) = Len(q)
  BY <1>1, FS_Interval
<1>3. IsFiniteSet(Peer) /\ Cardinality(Peer) \in Nat
  BY SockAssumption, FS_CardinalityType
<1>4. ASSUME Cardinality(Peer) < Len(q) PROVE FALSE
  BY <1>1, <1>2, <1>3, <1>4, FS_PigeonHole
<1> QED BY <1>1, <1>3, <1>4

LEMMA Connect ==
    ASSUME IInv, NEW c \in Peer, PeerConnect(c)
    PROVE  IInv'
<1>1. PICK h \in Handle : fd[h].st = "listening" /\ fd' = [fd EXCEPT ![h].queue = Append(@, c)]
  BY DEF PeerConnect
<1>2. /\ peer[c] = "idle" /\ peer' = [peer EXCEPT ![c] = "queued"]
      /\ UNCHANGED <<SocketsInitialized, script, nextObj, sent, stream, got>>
  BY DEF PeerConnect
<1>3. TypeOK /\ Own /\ Queues /\ Streams
  BY DEF IInv
<1>4. fd[h] \in KObject /\ fd[h] # Free /\ fd[h].id \in Ids
  BY <1>1, <1>3, KFacts DEF TypeOK, Free
<1>5. PICK q \in Seq(Peer) : /\ q = fd[h].queue
                             /\ fd[h] = [st |-> "listening", id |-> fd[h].id, queue |-> q]
  BY <1>1, <1>4, KFacts
<1>6. PICK r \in Seq(Peer) : r = Append(q, c)
  BY AppendProperties
<1>7. /\ Len(q) \in Nat /\ Len(r) = Len(q) + 1 /\ r[Len(q) + 1] = c
      /\ \A i \in 1 .. Len(q) : r[i] = q[i] /\ q[i] \in Peer
  BY <1>6, AppendProperties, LenProperties, ElementOfSeq
<1>8. \A i \in 1 .. Len(r) : i \in 1 .. Len(q) \/ i = Len(q) + 1
  BY <1>7
<1>9. \A i \in 1 .. Len(q) : peer[q[i]] = "queued" /\ r[i] # c
  BY <1>1, <1>2, <1>3, <1>5, <1>7 DEF Queues, Listening
<1>10. Len(r) <= Cardinality(Peer)
  <2>1. \A i, j \in 1 .. Len(q) : q[i] = q[j] => i = j
    BY <1>1, <1>3, <1>5 DEF Queues, Listening
  <2>2. \A i, j \in 1 .. Len(r) : r[i] = r[j] => i = j
    BY <1>7, <1>8, <1>9, <2>1
  <2> QED BY <2>2, QueueLength
<1>11. PICK k \in KObject : /\ k = [st |-> "listening", id |-> fd[h].id, queue |-> r]
                            /\ fd' = [fd EXCEPT ![h] = k]
  <2>1. [st |-> "listening", id |-> fd[h].id, queue |-> r] \in KObject
    BY <1>4, <1>10, KIntro
  <2>2. [fd[h] EXCEPT !.queue = r] = [st |-> "listening", id |-> fd[h].id, queue |-> r]
    BY <1>5
  <2>3. fd' = [fd EXCEPT ![h] = [fd[h] EXCEPT !.queue = r]]
    BY <1>1, <1>5, <1>6
  <2> QED BY <2>1, <2>2, <2>3
<1>12. k # Free /\ k.st = "listening" /\ k.id = fd[h].id /\ k.queue = r
  BY <1>11 DEF Free
<1>13. /\ fd' \in [Handle -> KObject] /\ fd'[h] = k
       /\ \A g \in Handle : g # h => fd'[g] = fd[g]
  BY <1>3, <1>11, UpdateType DEF TypeOK
<1>14. /\ peer' \in [Peer -> {"idle", "queued", "open", "done", "refused"}]
       /\ peer'[c] = "queued" /\ \A d \in Peer : d # c => peer'[d] = peer[d]
  BY <1>2, <1>3 DEF TypeOK
<1>15. TypeOK'
  BY <1>2, <1>3, <1>13, <1>14 DEF TypeOK
<1>16. Own'
  <2>1. \A g \in Handle : /\ fd'[g] = Free <=> fd[g] = Free
                          /\ fd[g] # Free => fd'[g].id = fd[g].id
    BY <1>4, <1>12, <1>13
  <2> QED BY <1>2, <1>3, <2>1, OwnSame
<1>17. \A g \in Handle : Listening(g)' => Listening(g)
  BY <1>1, <1>13 DEF Listening
<1>18. ASSUME NEW g \in Handle, Listening(g), NEW i \in 1 .. Len(fd[g].queue)
       PROVE  fd[g].queue[i] # c /\ fd[g].queue[i] \in Peer /\ peer[fd[g].queue[i]] = "queued"
  <2>1. fd[g].queue \in Seq(Peer)
    BY <1>3, <1>18, KFacts DEF TypeOK, Listening
  <2>2. fd[g].queue[i] \in Peer
    BY <2>1, ElementOfSeq
  <2> QED BY <1>2, <1>3, <1>18, <2>2 DEF Queues
<1>19. ASSUME NEW g \in Handle, Listening(g)', NEW i \in 1 .. Len(fd'[g].queue)
       PROVE  \/ /\ i \in 1 .. Len(fd[g].queue) /\ fd'[g].queue[i] = fd[g].queue[i]
              \/ /\ g = h /\ i = Len(q) + 1 /\ fd'[g].queue[i] = c
  <2>1. CASE g = h
    BY <1>5, <1>7, <1>8, <1>12, <1>13, <1>19, <2>1
  <2>2. CASE g # h
    BY <1>13, <1>19, <2>2
  <2> QED BY <2>1, <2>2
<1>20. Queues'
  <2>1. ASSUME NEW g \in Handle, Listening(g)', NEW i \in 1 .. Len(fd'[g].queue)
        PROVE  peer'[fd'[g].queue[i]] = "queued"
    <3>1. CASE fd'[g].queue[i] = c
      BY <1>14, <3>1
    <3>2. CASE fd'[g].queue[i] # c
      <4>1. i \in 1 .. Len(fd[g].queue) /\ fd'[g].queue[i] = fd[g].queue[i] /\ Listening(g)
        BY <1>17, <1>19, <2>1, <3>2
      <4>2. fd[g].queue[i] \in Peer /\ peer[fd[g].queue[i]] = "queued"
        BY <1>18, <4>1
      <4> QED BY <1>14, <3>2, <4>1, <4>2
    <3> QED BY <3>1, <3>2
  <2>2. ASSUME NEW g \in Handle, NEW f \in Handle, Listening(g)', Listening(f)',
               NEW i \in 1 .. Len(fd'[g].queue), NEW j \in 1 .. Len(fd'[f].queue),
               fd'[g].queue[i] = fd'[f].queue[j]
        PROVE  g = f /\ i = j
    <3>1. Listening(g) /\ Listening(f)
      BY <1>17, <2>2
    <3>2. CASE fd'[g].queue[i] = c
      <4>1. g = h /\ i = Len(q) + 1
        <5>1. ~(i \in 1 .. Len(fd[g].queue) /\ fd'[g].queue[i] = fd[g].queue[i])
          BY <1>18, <3>1, <3>2
        <5> QED BY <1>19, <2>2, <5>1
      <4>2. f = h /\ j = Len(q) + 1
        <5>1. ~(j \in 1 .. Len(fd[f].queue) /\ fd'[f].queue[j] = fd[f].queue[j])
          BY <1>18, <2>2, <3>1, <3>2
        <5> QED BY <1>19, <2>2, <5>1
      <4> QED BY <4>1, <4>2
    <3>3. CASE fd'[g].queue[i] # c
      <4>1. /\ i \in 1 .. Len(fd[g].queue) /\ j \in 1 .. Len(fd[f].queue)
            /\ fd[g].queue[i] = fd[f].queue[j]
        BY <1>19, <2>2, <3>3
      <4> QED BY <1>3, <3>1, <4>1 DEF Queues
    <3> QED BY <3>2, <3>3
  <2> QED BY <2>1, <2>2 DEF Queues
<1>21. Streams'
  <2>1. \A g \in Handle : Conn(g)' => Conn(g) /\ fd'[g] = fd[g]
    BY <1>12, <1>13 DEF Conn
  <2>2. ASSUME NEW g \in Handle, Conn(g)
        PROVE  /\ peer'[fd[g].peer] \in {"open", "done"}
               /\ got[fd[g].id] \o stream[fd[g].peer] = sent[fd[g].peer]
    <3>1. fd[g].peer \in Peer
      BY <1>3, <2>2, KFacts DEF TypeOK, Conn
    <3> QED BY <1>2, <1>3, <1>14, <2>2, <3>1 DEF Streams
  <2>3. \A g \in Handle : Conn(g)' =>
          /\ peer'[fd'[g].peer] \in {"open", "done"}
          /\ got'[fd'[g].id] \o stream'[fd'[g].peer] = sent'[fd'[g].peer]
    BY <1>2, <2>1, <2>2
  <2>4. \A g, f \in Handle : Conn(g)' /\ Conn(f)' /\ fd'[g].peer = fd'[f].peer => g = f
    BY <1>3, <2>1 DEF Streams
  <2>5. \A d \in Peer : peer'[d] \in {"idle", "queued"} => stream'[d] = sent'[d]
    BY <1>2, <1>3, <1>14 DEF Streams
  <2> QED BY <1>2, <1>3, <2>3, <2>4, <2>5 DEF Streams
<1> QED BY <1>15, <1>16, <1>20, <1>21 DEF IInv

\* accept: the client that waited longest gets a connection of its own.
LEMMA Accept ==
    ASSUME IInv, NEW v \in Var, NEW w \in Var, socklib_accept(v, w)
    PROVE  IInv'
<1> PICK h \in Handle : h = HandleOf(v)
  BY Checked DEF socklib_accept
<1>1. /\ checkudata(v, "light") /\ UNCHANGED <<sent, stream, got>> /\ nextObj <= MaxObj
      /\ SocketsInitialized' \in BOOLEAN
  BY DEF socklib_accept, Header
<1>2. KernelOf(v) = fd[h] /\ fd[h] \in KObject /\ fd[h] # Free
  BY <1>1, Checked
<1>3. TypeOK /\ Own /\ Queues /\ Streams
  BY DEF IInv
<1>4. CASE UNCHANGED <<script, kernel, peer>>
  BY <1>1, <1>4, Same
<1>5. CASE ~UNCHANGED <<script, kernel, peer>>
  <2>1. /\ fd[h].st = "listening" /\ fd[h].queue # <<>>
        /\ \E g \in FreeHandles :
              /\ fd' = [fd EXCEPT ![h].queue = Tail(@),
                                  ![g] = [st |-> "conn", id |-> nextObj, peer |-> Head(fd[h].queue)]]
              /\ peer' = [peer EXCEPT ![Head(fd[h].queue)] = "open"]
              /\ nextObj' = nextObj + 1
              /\ NewBox(w, "light", g, nextObj)
    BY <1>2, <1>5 DEF socklib_accept, init_socket_instance
  <2>2. PICK q \in Seq(Peer) : /\ q = fd[h].queue /\ Len(q) <= Cardinality(Peer)
                               /\ fd[h] = [st |-> "listening", id |-> fd[h].id, queue |-> q]
    BY <1>2, <2>1, KFacts
  <2>3. PICK c \in Peer, r \in Seq(Peer) : c = Head(q) /\ r = Tail(q)
    BY <2>1, <2>2, HeadTailProperties
  <2>4. /\ Len(q) \in Nat \ {0} /\ Len(r) = Len(q) - 1 /\ q[1] = c
        /\ \A i \in 1 .. Len(r) : r[i] = q[i + 1]
    BY <2>1, <2>2, <2>3, HeadTailProperties, EmptySeq
  <2>5. PICK g \in Handle :
           /\ fd[g] = Free
           /\ fd' = [fd EXCEPT ![h].queue = Tail(@),
                               ![g] = [st |-> "conn", id |-> nextObj, peer |-> c]]
           /\ peer' = [peer EXCEPT ![c] = "open"]
           /\ nextObj' = nextObj + 1
           /\ NewBox(w, "light", g, nextObj)
    BY <2>1, <2>2, <2>3 DEF FreeHandles
  <2>6. g # h /\ nextObj \in Ids /\ nextObj \in Nat
    BY <1>1, <1>2, <1>3, <2>5, Types DEF Ids
  <2>7. fd[h].id \in Ids
    BY <1>2, KFacts
  <2>8. PICK k \in KObject, l \in KObject :
           /\ k = [st |-> "conn", id |-> nextObj, peer |-> c]
           /\ l = [st |-> "listening", id |-> fd[h].id, queue |-> r]
    <3>1. [st |-> "conn", id |-> nextObj, peer |-> c] \in KObject
      BY <2>6, KIntro
    <3>2. Cardinality(Peer) \in Nat
      BY SockAssumption, FS_CardinalityType
    <3>3. [st |-> "listening", id |-> fd[h].id, queue |-> r] \in KObject
      <4>1. Len(r) <= Cardinality(Peer)
        BY <2>2, <2>4, <3>2
      <4> QED BY <2>7, <4>1, KIntro
    <3> QED BY <3>1, <3>3, Zenon
  <2>9. /\ k # Free /\ k.st = "conn" /\ k.id = nextObj /\ k.peer = c
        /\ l # Free /\ l.st = "listening" /\ l.id = fd[h].id /\ l.queue = r
    BY <2>8 DEF Free
  <2>10. /\ fd' \in [Handle -> KObject] /\ fd'[g] = k /\ fd'[h] = l
         /\ \A f \in Handle : f # g /\ f # h => fd'[f] = fd[f]
    <3>1. [fd[h] EXCEPT !.queue = Tail(fd[h].queue)] = l
      <4>1. [fd[h] EXCEPT !.queue = r] = [st |-> "listening", id |-> fd[h].id, queue |-> r]
        BY <2>2
      <4>2. Tail(fd[h].queue) = r
        BY <2>2, <2>3
      <4> QED BY <2>8, <4>1, <4>2
    <3>2. fd' = [fd EXCEPT ![h] = l, ![g] = k]
      BY <2>5, <2>8, <3>1
    <3>3. fd \in [Handle -> KObject]
      BY <1>3 DEF TypeOK
    <3> QED BY <2>6, <3>2, <3>3
  <2>11. /\ peer' \in [Peer -> {"idle", "queued", "open", "done", "refused"}]
         /\ peer'[c] = "open" /\ \A d \in Peer : d # c => peer'[d] = peer[d]
    BY <1>3, <2>5 DEF TypeOK
  <2>12. /\ Own' /\ heap' \in [Ptr -> Box \cup {None}] /\ var' \in [Var -> Value \cup {None}]
         /\ obj' \in [Var -> Ids \cup {None}] /\ nextObj' \in 1 .. MaxObj + 1
    <3>1. \A f \in Handle : f # g => /\ fd'[f] = Free <=> fd[f] = Free
                                     /\ fd[f] # Free => fd'[f].id = fd[f].id
      BY <1>2, <2>9, <2>10
    <3>2. fd'[g] # Free /\ fd'[g].id = nextObj
      BY <2>9, <2>10
    <3> QED BY <1>1, <1>3, <2>5, <3>1, <3>2, OwnNew
  <2>13. TypeOK'
    BY <1>1, <1>3, <2>10, <2>11, <2>12 DEF TypeOK
  <2>14. ASSUME NEW f \in Handle, Listening(f), NEW i \in 1 .. Len(fd[f].queue)
         PROVE  /\ fd[f].queue[i] \in Peer /\ peer[fd[f].queue[i]] = "queued"
                /\ fd[f].queue[i] = c => f = h /\ i = 1
    <3>1. fd[f].queue \in Seq(Peer)
      BY <1>3, <2>14, KFacts DEF TypeOK, Listening
    <3>2. fd[f].queue[i] \in Peer
      BY <3>1, ElementOfSeq
    <3>3. Listening(h) /\ 1 \in 1 .. Len(fd[h].queue) /\ fd[h].queue[1] = c
      BY <2>1, <2>2, <2>4 DEF Listening
    <3> QED BY <1>3, <2>14, <3>2, <3>3 DEF Queues
  <2>15. ASSUME NEW f \in Handle, Listening(f)', NEW i \in 1 .. Len(fd'[f].queue)
         PROVE  /\ f # g /\ Listening(f)
                /\ \/ f # h /\ i \in 1 .. Len(fd[f].queue) /\ fd'[f].queue[i] = fd[f].queue[i]
                   \/ f = h /\ i + 1 \in 1 .. Len(fd[f].queue) /\ fd'[f].queue[i] = fd[f].queue[i + 1]
                            /\ i \in Nat \ {0}
    <3>1. f # g
      BY <2>9, <2>10, <2>15 DEF Listening
    <3>2. CASE f = h
      BY <2>1, <2>2, <2>4, <2>9, <2>10, <2>15, <3>1, <3>2 DEF Listening
    <3>3. CASE f # h
      BY <2>10, <2>15, <3>1, <3>3 DEF Listening
    <3> QED BY <3>1, <3>2, <3>3
  <2>16. Queues'
    <3>1. ASSUME NEW f \in Handle, Listening(f)', NEW i \in 1 .. Len(fd'[f].queue)
          PROVE  peer'[fd'[f].queue[i]] = "queued"
      <4>1. CASE f # h
        <5>1. Listening(f) /\ i \in 1 .. Len(fd[f].queue) /\ fd'[f].queue[i] = fd[f].queue[i]
          BY <2>15, <3>1, <4>1
        <5>2. fd[f].queue[i] \in Peer /\ peer[fd[f].queue[i]] = "queued" /\ fd[f].queue[i] # c
          BY <2>14, <4>1, <5>1
        <5> QED BY <2>11, <5>1, <5>2
      <4>2. CASE f = h
        <5>1. /\ Listening(f) /\ i + 1 \in 1 .. Len(fd[f].queue)
              /\ fd'[f].queue[i] = fd[f].queue[i + 1] /\ i + 1 # 1
          BY <2>15, <3>1, <4>2
        <5>2. PICK j \in 1 .. Len(fd[f].queue) : j = i + 1 /\ j # 1
          BY <5>1
        <5>3. fd[f].queue[j] \in Peer /\ peer[fd[f].queue[j]] = "queued" /\ fd[f].queue[j] # c
          BY <2>14, <5>1, <5>2
        <5> QED BY <2>11, <5>1, <5>2, <5>3
      <4> QED BY <4>1, <4>2
    <3>2. ASSUME NEW f \in Handle, NEW e \in Handle, Listening(f)', Listening(e)',
                 NEW i \in 1 .. Len(fd'[f].queue), NEW j \in 1 .. Len(fd'[e].queue),
                 fd'[f].queue[i] = fd'[e].queue[j]
          PROVE  f = e /\ i = j
      <4>1. PICK m \in 1 .. Len(fd[f].queue) : /\ Listening(f) /\ fd'[f].queue[i] = fd[f].queue[m]
                                               /\ IF f = h THEN m = i + 1 ELSE m = i
        BY <2>15, <3>2
      <4>2. PICK n \in 1 .. Len(fd[e].queue) : /\ Listening(e) /\ fd'[e].queue[j] = fd[e].queue[n]
                                               /\ IF e = h THEN n = j + 1 ELSE n = j
        BY <2>15, <3>2
      <4>3. f = e /\ m = n
        <5>1. fd[f].queue[m] = fd[e].queue[n]
          BY <3>2, <4>1, <4>2
        <5> QED BY <1>3, <4>1, <4>2, <5>1 DEF Queues
      <4>4. i \in Nat /\ j \in Nat
        BY <2>15, <3>2
      <4> QED BY <4>1, <4>2, <4>3, <4>4
    <3> QED BY <3>1, <3>2 DEF Queues
  <2>17. peer[c] = "queued" /\ stream[c] = sent[c] /\ stream[c] \in Seq(Byte) /\ got[nextObj] = <<>>
    <3>1. peer[c] = "queued"
      BY <2>1, <2>2, <2>4, <1>3 DEF Queues, Listening
    <3> QED BY <1>3, <2>6, <3>1, Types DEF Streams
  <2>18. \A f \in Handle : Conn(f)' => f = g \/ (f # g /\ Conn(f) /\ fd'[f] = fd[f])
    BY <2>9, <2>10 DEF Conn
  <2>19. ASSUME NEW f \in Handle, Conn(f) PROVE fd[f].peer \in Peer /\ fd[f].peer # c
    <3>1. fd[f].peer \in Peer
      BY <1>3, <2>19, KFacts DEF TypeOK, Conn
    <3> QED BY <1>3, <2>17, <2>19, <3>1 DEF Streams
  <2>20. ASSUME NEW f \in Handle, Conn(f)'
         PROVE  /\ peer'[fd'[f].peer] \in {"open", "done"}
                /\ got'[fd'[f].id] \o stream'[fd'[f].peer] = sent'[fd'[f].peer]
    <3>1. CASE f = g
      <4>1. <<>> \o stream[c] = stream[c]
        BY <2>17, ConcatEmptySeq
      <4>2. fd'[f].id = nextObj /\ fd'[f].peer = c
        BY <2>9, <2>10, <3>1
      <4> QED BY <1>1, <2>11, <2>17, <4>1, <4>2
    <3>2. CASE f # g
      <4>1. Conn(f) /\ fd'[f] = fd[f]
        BY <2>18, <2>20, <3>2
      <4>2. peer'[fd[f].peer] = peer[fd[f].peer]
        BY <2>11, <2>19, <4>1
      <4>3. /\ peer[fd[f].peer] \in {"open", "done"}
            /\ got[fd[f].id] \o stream[fd[f].peer] = sent[fd[f].peer]
        BY <1>3, <4>1 DEF Streams
      <4> QED BY <1>1, <4>1, <4>2, <4>3
    <3> QED BY <3>1, <3>2
  <2>21. ASSUME NEW f \in Handle, NEW e \in Handle, Conn(f)', Conn(e)', fd'[f].peer = fd'[e].peer
         PROVE  f = e
    <3>1. fd'[g].peer = c
      BY <2>9, <2>10
    <3>2. CASE f = g \/ e = g
      BY <2>18, <2>19, <2>21, <3>1, <3>2
    <3>3. CASE f # g /\ e # g
      BY <1>3, <2>18, <2>21, <3>3 DEF Streams
    <3> QED BY <3>2, <3>3
  <2>22. \A d \in Peer : peer'[d] \in {"idle", "queued"} => stream'[d] = sent'[d]
    BY <1>1, <1>3, <2>11 DEF Streams
  <2>23. \A i \in Ids : nextObj' <= i => got'[i] = <<>>
    <3>1. \A i \in Ids : nextObj' <= i => nextObj <= i
      BY <2>5, <2>6 DEF Ids
    <3> QED BY <1>1, <1>3, <3>1 DEF Streams
  <2>24. Streams'
    BY <1>1, <1>3, <2>20, <2>21, <2>22, <2>23 DEF Streams
  <2> QED BY <2>12, <2>13, <2>16, <2>24 DEF IInv
<1> QED BY <1>4, <1>5

----------------------------------------------------------------------------
(* The invariant, and what it says.                                        *)

LEMMA InitIInv == Init => IInv
<1> SUFFICES ASSUME Init PROVE IInv
  OBVIOUS
<1>1. \A n \in Nat : <<>> \in SeqOf(Byte, n)
  <2>1. <<>> \in Seq(Byte) /\ Len(<<>>) = 0
    BY EmptySeq
  <2>2. ASSUME NEW n \in Nat PROVE <<>> \in SeqOf(Byte, n)
    <3>1. SeqOf(Byte, n) = {s \in Seq(Byte) : Len(s) <= n}
      BY SeqOfIs
    <3> QED BY <2>1, <3>1
  <2> QED BY <2>2
<1>2. TypeOK
  <2>1. MaxObj \in Nat /\ MaxSent \in Nat
    BY SockAssumption
  <2>2. Free \in KObject
    BY DEF KObject
  <2>3. nextObj \in 1 .. MaxObj + 1
    BY <2>1 DEF Init
  <2>4. /\ sent \in [Peer -> SeqOf(Byte, MaxSent)] /\ stream \in [Peer -> SeqOf(Byte, MaxSent)]
        /\ got \in [Ids -> SeqOf(Byte, MaxSent)]
    BY <1>1, <2>1 DEF Init
  <2> QED BY <2>2, <2>3, <2>4 DEF Init, TypeOK
<1>3. \A h \in Handle : fd[h] = Free /\ fd[h].st = "free"
  BY DEF Init, Free
<1>4. Own
  BY <1>3 DEF Own, Fresh, Owners, References, Live, Init
<1>5. Queues
  BY <1>3 DEF Queues, Listening
<1>6. Streams
  <2>1. \A c \in Peer : stream[c] = sent[c] /\ Len(stream[c]) <= Len(sent[c])
    BY EmptySeq DEF Init
  <2> QED BY <1>3, <2>1 DEF Streams, Conn, Init
<1> QED BY <1>2, <1>4, <1>5, <1>6 DEF IInv

LEMMA NextIInv == IInv /\ [Next]_vars => IInv'
<1> SUFFICES ASSUME IInv, [Next]_vars PROVE IInv'
  OBVIOUS
<1>1. CASE UNCHANGED vars
  <2>1. SocketsInitialized' \in BOOLEAN
    BY <1>1 DEF IInv, TypeOK
  <2> QED BY <1>1, <2>1, Same
<1>2. CASE ScriptNext
  <2> PICK v \in Var :
        \/ socklib_create(v)
        \/ \E port \in Port : socklib_bind(v, port)
        \/ socklib_listen(v)
        \/ \E w \in Var : socklib_accept(v, w)
        \/ \E size \in 1 .. MaxSent : socklib_recv(v, size)
        \/ socklib_close(v)
        \/ io_open(v)
        \/ io_fclose(v)
        \/ Forget(v)
        \/ \E w \in Var : Assign(v, w)
    BY <1>2 DEF ScriptNext
  <2>1. CASE socklib_create(v)
    BY <2>1, Create
  <2>2. CASE \E port \in Port : socklib_bind(v, port)
    BY <2>2, Bind
  <2>3. CASE socklib_listen(v)
    BY <2>3, Listen
  <2>4. CASE \E w \in Var : socklib_accept(v, w)
    BY <2>4, Accept
  <2>5. CASE \E size \in 1 .. MaxSent : socklib_recv(v, size)
    BY <2>5, Recv
  <2>6. CASE socklib_close(v)
    BY <2>6, Close
  <2>7. CASE io_open(v)
    BY <2>7, Open
  <2>8. CASE io_fclose(v)
    BY <2>8, Fclose
  <2>9. CASE Forget(v) \/ \E w \in Var : Assign(v, w)
    BY <2>9, Assignment
  <2> QED BY <2>1, <2>2, <2>3, <2>4, <2>5, <2>6, <2>7, <2>8, <2>9
<1>3. ASSUME NEW c \in Peer, PeerConnect(c) \/ PeerSend(c) \/ PeerFinish(c) PROVE IInv'
  BY <1>3, Connect, Send, Finish
<1>4. ASSUME NEW p \in Ptr, Collect(p) PROVE IInv'
  BY <1>4, Finalize
<1> QED BY <1>1, <1>2, <1>3, <1>4 DEF Next, PeerNext

THEOREM IInvThm == Spec => []IInv
BY InitIInv, NextIInv, PTL DEF Spec

\* Whatever a script does with sockets and files, the library keeps its types.
THEOREM TypeCorrect == Spec => []TypeOK
<1>1. IInv => TypeOK
  BY DEF IInv
<1> QED BY <1>1, IInvThm, PTL

\* A value that was not closed leads to the very object it was given: freed
\* addresses and closed descriptors are used again, and never cross.
THEOREM NoAliasThm == Spec => []NoAlias
<1>1. IInv => NoAlias
  BY DEF IInv, Own, References, NoAlias
<1> QED BY <1>1, IInvThm, PTL

\* A close, or a finalizer, closes no descriptor under another value.
THEOREM OneOwnerThm == Spec => []OneOwner
<1>1. ASSUME IInv, NEW h \in Handle, fd[h] # Free
      PROVE  Cardinality({p \in Ptr : Live(p) /\ heap[p].h = h}) = 1
  <2>1. h # None
    BY SockAssumption
  <2>2. PICK p \in Ptr : Live(p) /\ heap[p].h = h
    BY <1>1 DEF IInv, Own, Owners
  <2>3. \A q \in Ptr : Live(q) /\ heap[q].h = h => q = p
    BY <1>1, <2>1, <2>2 DEF IInv, Own, Owners
  <2>4. {q \in Ptr : Live(q) /\ heap[q].h = h} = {p}
    BY <2>2, <2>3
  <2> QED BY <2>4, FS_Singleton
<1>2. IInv => OneOwner
  BY <1>1 DEF OneOwner
<1> QED BY <1>2, IInvThm, PTL

\* What a script has received through a connection, and what waits there, is
\* what the client of that connection sent.
THEOREM StreamIntegrityThm == Spec => []StreamIntegrity
<1>1. IInv => StreamIntegrity
  BY DEF IInv, Streams, Conn, StreamIntegrity
<1> QED BY <1>1, IInvThm, PTL
=============================================================================
