----------------------------- MODULE Do_proofs -----------------------------
(***************************************************************************)
(* Proofs about Do: nCcalls measures and bounds the C stack, a suspended   *)
(* coroutine can be continued from anywhere, coroutine.status is right,    *)
(* and Do implements asymmetric coroutines: for any number of coroutines   *)
(* and of calls, and any two limits of the C stack.                        *)
(***************************************************************************)
EXTENDS Do, TLAPS

Index == 1 .. Len(cstack)

\* the number of calls of its thread when activation k of the C stack last ran
DepthIn(stack, fr, k) ==
    IF k < Len(stack) /\ stack[k + 1].kind # "resume"
      THEN stack[k + 1].ci
      ELSE Len(fr[stack[k].thread])
Depth(k) == DepthIn(cstack, frames, k)

\* The activation of main() is a protected call.
Bottom ==
    /\ cstack # <<>> => cstack[1].kind = "pcall" /\ cstack[1].thread = Main
    /\ cstack = <<>> => err = "no"

\* The C stack is one segment for each thread in it, that of a coroutine
\* from its lua_resume on, and baseCcalls[c] is where it begins.
Segments ==
    /\ \A k \in Index : cstack[k].kind = "resume" =>
         /\ cstack[k].thread \in Co
         /\ baseCcalls[cstack[k].thread] = k
         /\ cstack[k].ci = 0
    /\ \A k \in Index : cstack[k].kind = "resume" =>
         \A i \in 1 .. k - 1, j \in k .. Len(cstack) : cstack[i].thread # cstack[j].thread
    /\ \A i \in Index : \A j \in i .. Len(cstack) :
         (\A k \in i + 1 .. j : cstack[k].kind # "resume") => cstack[i].thread = cstack[j].thread
    /\ \A k \in Index : cstack[k].thread \in Co =>
         LET b == baseCcalls[cstack[k].thread] IN
         b \in 1 .. k /\ cstack[b].kind = "resume" /\ cstack[b].thread = cstack[k].thread
    /\ baseCcalls[Main] = 0

\* Every activation has one below it, or is one, that catches its errors.
Caught ==
    \A k \in Index : \E j \in 1 .. k :
        /\ cstack[j].kind \in {"pcall", "resume"}
        /\ \A i \in j + 1 .. k : cstack[i].kind \notin {"pcall", "resume"}

\* nCcalls of a thread is the index of its last activation, and what an
\* activation saved is the depth at which it began.
Counts ==
    /\ \A k \in Index : cstack[k].nCcalls = k - 1
    /\ \A k \in Index : k = Len(cstack) \/ cstack[k + 1].kind = "resume"
                          => nCcalls[cstack[k].thread] = k
    /\ Len(cstack) <= ERRCCALLS
    /\ Len(cstack) = ERRCCALLS => err = "throw"

\* The calls of a thread are divided among its activations.  Each has at
\* least one, but for that of a handler, or one that failed as it began, and
\* all but the last of them are of Lua functions.
Depths ==
    /\ \A k \in Index : cstack[k].ci <= Len(frames[cstack[k].thread])
    /\ \A k \in Index : \A j \in 1 .. k :
         cstack[j].thread = cstack[k].thread => cstack[j].ci <= cstack[k].ci
    /\ \A k \in Index : cstack[k].ci <= Depth(k)
    /\ \A k \in 1 .. Len(cstack) - 1 :
         cstack[k + 1].kind # "handler" => cstack[k].ci < Depth(k)
    /\ \A k \in Index : k = Len(cstack) /\ err = "no" => cstack[k].ci < Depth(k)
    /\ \A k \in Index : \A i \in cstack[k].ci + 1 .. Depth(k) - 1 :
         frames[cstack[k].thread][i] = "lua"

\* A coroutine on the C stack is alive, and one that is not has calls only if
\* it has yielded, from a C function that Lua functions called, or has failed.
Outside ==
    /\ \A c \in Co : InChain(c) => status[c] = "ok" /\ left[c] # "none"
    /\ \A c \in Co : ~InChain(c) /\ status[c] = "ok" => frames[c] = <<>>
    /\ \A c \in Co : status[c] = "yield" =>
         \A i \in 1 .. Len(frames[c]) - 1 : frames[c][i] = "lua"
    /\ \A c \in Co : left[c] = "none" => status[c] = "ok"

\* A coroutine that waits for what it resumed has called coroutine.resume.
Waiting == \A c \in Co : InChain(c) => c = Top.thread \/ frames[c] # <<>>

IInv == TypeOK /\ Bottom /\ Segments /\ Caught /\ Counts /\ Depths /\ Outside /\ Waiting

----------------------------------------------------------------------------
(* Sequences, and what the invariant says of the top of the C stack.       *)

USE DEF vars, counts, Thread, Frame

\* A sequence with one more element.
LEMMA AppendFacts ==
    ASSUME NEW S, NEW s \in Seq(S), NEW e \in S
    PROVE  /\ Append(s, e) \in Seq(S) /\ Len(Append(s, e)) = Len(s) + 1 /\ Len(s) \in Nat
           /\ \A i \in 1 .. Len(s) : Append(s, e)[i] = s[i]
           /\ Append(s, e)[Len(s) + 1] = e
OBVIOUS

\* The first m elements of a sequence.
LEMMA PrefixFacts ==
    ASSUME NEW S, NEW s \in Seq(S), NEW m \in 0 .. Len(s)
    PROVE  /\ SubSeq(s, 1, m) \in Seq(S) /\ Len(SubSeq(s, 1, m)) = m
           /\ \A i \in 1 .. m : SubSeq(s, 1, m)[i] = s[i]
           /\ m = 0 => SubSeq(s, 1, m) = <<>>
OBVIOUS

\* A function changed at one point.
LEMMA UpdateType ==
    ASSUME NEW A, NEW B, NEW g \in [A -> B], NEW x \in A, NEW y \in B
    PROVE  [g EXCEPT ![x] = y] \in [A -> B]
OBVIOUS

\* The types of what the proofs look at.
LEMMA Types ==
    ASSUME TypeOK
    PROVE  /\ Len(cstack) \in Nat /\ DOMAIN cstack = Index
           /\ cstack = <<>> <=> Len(cstack) = 0
           /\ \A k \in Index : /\ cstack[k] \in Activation /\ cstack[k].thread \in Thread
                               /\ cstack[k].ci \in Nat /\ cstack[k].nCcalls \in Nat
                               /\ cstack[k].errfunc \in BOOLEAN
                               /\ cstack[k].kind \in {"call", "pcall", "handler", "resume"}
           /\ \A u \in Thread : frames[u] \in Seq(Frame) /\ Len(frames[u]) \in Nat
           /\ \A k \in Index : Depth(k) \in Nat
<1>1. /\ Len(cstack) \in Nat /\ DOMAIN cstack = Index
      /\ cstack = <<>> <=> Len(cstack) = 0
      /\ \A k \in Index : cstack[k] \in Activation
  BY DEF TypeOK, Index
<1>2. \A k \in Index : /\ cstack[k].thread \in Thread
                       /\ cstack[k].ci \in Nat /\ cstack[k].nCcalls \in Nat
                       /\ cstack[k].errfunc \in BOOLEAN
                       /\ cstack[k].kind \in {"call", "pcall", "handler", "resume"}
  BY <1>1 DEF Activation
<1>3. \A u \in Thread : frames[u] \in Seq(Frame) /\ Len(frames[u]) \in Nat
  BY DEF TypeOK
<1>4. ASSUME NEW k \in Index PROVE Depth(k) \in Nat
  <2>1. k < Len(cstack) => k + 1 \in Index
    BY <1>1 DEF Index
  <2> QED BY <1>2, <1>3, <2>1 DEF Depth, DepthIn
<1> QED BY <1>1, <1>2, <1>3, <1>4

\* The thread on top of the C stack: all of the C stack counts for it.
LEMMA TopFacts ==
    ASSUME IInv, cstack # <<>>
    PROVE  /\ Len(cstack) \in Nat \ {0} /\ Len(cstack) \in Index
           /\ Top = cstack[Len(cstack)] /\ Top.thread \in Thread
           /\ nCcalls[Top.thread] = Len(cstack)
           /\ Depth(Len(cstack)) = Len(frames[Top.thread])
           /\ Top.ci \in Nat /\ Top.ci <= Len(frames[Top.thread])
           /\ err = "no" => Top.ci < Len(frames[Top.thread])
<1>1. Len(cstack) \in Nat \ {0} /\ Len(cstack) \in Index
  BY Types DEF IInv, Index
<1> QED BY <1>1, Types DEF IInv, Counts, Depths, Top, Depth, DepthIn

\* An activation goes on with the thread of the one below it, unless it is a
\* lua_resume: the threads below that are not above it.
LEMMA NextSame ==
    ASSUME IInv, NEW k \in Index, k < Len(cstack)
    PROVE  /\ k + 1 \in Index
           /\ cstack[k + 1].kind # "resume" => cstack[k + 1].thread = cstack[k].thread
           /\ cstack[k + 1].kind = "resume" => cstack[k].thread # cstack[Len(cstack)].thread
<1>1. k \in Nat \ {0} /\ k + 1 \in Index /\ k \in 1 .. (k + 1) - 1 /\ k + 1 \in k .. Len(cstack)
      /\ Len(cstack) \in k + 1 .. Len(cstack)
  BY Types DEF IInv, Index
<1>2. \A m \in k + 1 .. k + 1 : m = k + 1
  BY <1>1
<1>3. cstack[k + 1].kind # "resume" => cstack[k + 1].thread = cstack[k].thread
  BY <1>1, <1>2 DEF IInv, Segments
<1>4. cstack[k + 1].kind = "resume" => cstack[k].thread # cstack[Len(cstack)].thread
  BY <1>1 DEF IInv, Segments
<1> QED BY <1>1, <1>3, <1>4

\* The calls of an activation are calls of its thread.
LEMMA DepthBound ==
    ASSUME IInv, NEW k \in Index
    PROVE  Depth(k) <= Len(frames[cstack[k].thread])
<1>1. CASE k < Len(cstack) /\ cstack[k + 1].kind # "resume"
  <2>1. k + 1 \in Index /\ cstack[k + 1].thread = cstack[k].thread
    BY <1>1, NextSame
  <2>2. Depth(k) = cstack[k + 1].ci
    BY <1>1 DEF Depth, DepthIn
  <2> QED BY <2>1, <2>2 DEF IInv, Depths
<1>2. CASE ~(k < Len(cstack) /\ cstack[k + 1].kind # "resume")
  BY <1>2, Types DEF Depth, DepthIn, IInv
<1> QED BY <1>1, <1>2

\* InChain, by index, in a state and in the next one.
LEMMA InChainIs ==
    ASSUME TypeOK
    PROVE  \A c : InChain(c) <=> \E k \in Index : cstack[k].thread = c
BY Types DEF InChain

LEMMA InChainNext ==
    ASSUME TypeOK'
    PROVE  \A c : InChain(c)' <=> \E k \in 1 .. Len(cstack') : cstack'[k].thread = c
<1>1. DOMAIN cstack' = 1 .. Len(cstack')
  BY DEF TypeOK
<1> QED BY <1>1 DEF InChain

\* A thread that was not on top still waits, with its calls.
LEMMA WaitingStep ==
    ASSUME IInv, \A c \in Co : InChain(c)' => InChain(c),
           \A c \in Co : c # Top.thread => frames'[c] = frames[c],
           \A c \in Co : InChain(c)' /\ c = Top.thread => cstack'[Len(cstack')].thread = c
    PROVE  Waiting'
BY DEF Waiting, IInv, Top

----------------------------------------------------------------------------
(* luaD_call.                                                              *)

\* What luaD_call does, point by point.
LEMMA CallFacts ==
    ASSUME IInv, cstack # <<>>, NEW f \in Frame, NEW kind \in {"call", "pcall", "handler"},
           NEW ef \in BOOLEAN, luaD_call(Top.thread, f, kind, ef)
    PROVE  LET n == Len(cstack)
               t == Top.thread
               a == cstack'[n + 1]
           IN  /\ cstack' \in Seq(Activation) /\ Len(cstack') = n + 1
               /\ \A k \in 1 .. n : cstack'[k] = cstack[k]
               /\ a.kind = kind /\ a.thread = t /\ a.ci = Len(frames[t]) /\ a.nCcalls = n
               /\ frames' \in [Thread -> Seq(Frame)]
               /\ \A u \in Thread : u # t => frames'[u] = frames[u]
               /\ Len(frames'[t]) \in {Len(frames[t]), Len(frames[t]) + 1}
               /\ err' = "no" => Len(frames'[t]) = Len(frames[t]) + 1
               /\ \A i \in 1 .. Len(frames[t]) : frames'[t][i] = frames[t][i]
               /\ nCcalls' \in [Thread -> Nat] /\ nCcalls'[t] = n + 1
               /\ \A u \in Thread : u # t => nCcalls'[u] = nCcalls[u]
               /\ errfunc' \in [Thread -> BOOLEAN]
               /\ err' \in {"no", "msg", "throw"}
               /\ n + 1 < ERRCCALLS \/ err' = "throw"
               /\ UNCHANGED <<status, left, baseCcalls>>
<1> DEFINE n == Len(cstack)
           t == Top.thread
           a == [kind |-> kind, thread |-> t, ci |-> Len(frames[t]), nCcalls |-> nCcalls[t],
                 errfunc |-> errfunc[t]]
<1>1. /\ TypeOK /\ n \in Nat \ {0} /\ t \in Thread /\ nCcalls[t] = n
      /\ frames[t] \in Seq(Frame) /\ Len(frames[t]) \in Nat
  BY TopFacts, Types DEF IInv
<1>2. a \in Activation
  BY <1>1 DEF Activation, TypeOK
<1>3. cstack' = Append(cstack, a)
  BY DEF luaD_call
<1>4. /\ cstack' \in Seq(Activation) /\ Len(cstack') = n + 1
      /\ \A k \in 1 .. n : cstack'[k] = cstack[k]
      /\ cstack'[n + 1] = a
  BY <1>1, <1>2, <1>3, AppendFacts DEF TypeOK
<1>5. /\ nCcalls' = [nCcalls EXCEPT ![t] = n + 1]
      /\ errfunc' = [errfunc EXCEPT ![t] = ef]
      /\ UNCHANGED <<status, left, baseCcalls>>
  BY <1>1 DEF luaD_call
<1>6. \/ n + 1 # MAXCCALLS /\ n + 1 < ERRCCALLS
         /\ err' = "no" /\ frames' = [frames EXCEPT ![t] = Append(@, f)]
      \/ err' = "msg" /\ n + 1 = MAXCCALLS /\ UNCHANGED frames
      \/ err' = "throw" /\ UNCHANGED frames
  BY <1>1, <1>5, DoAssumption DEF luaD_call, TypeOK
<1>7. /\ frames' \in [Thread -> Seq(Frame)]
      /\ \A u \in Thread : u # t => frames'[u] = frames[u]
      /\ Len(frames'[t]) \in {Len(frames[t]), Len(frames[t]) + 1}
      /\ err' = "no" => Len(frames'[t]) = Len(frames[t]) + 1
      /\ \A i \in 1 .. Len(frames[t]) : frames'[t][i] = frames[t][i]
  <2>1. CASE UNCHANGED frames /\ err' # "no"
    BY <1>1, <2>1 DEF TypeOK
  <2>2. CASE frames' = [frames EXCEPT ![t] = Append(@, f)]
    <3>1. frames'[t] = Append(frames[t], f) /\ \A u \in Thread : u # t => frames'[u] = frames[u]
      BY <1>1, <2>2 DEF TypeOK
    <3>2. frames' \in [Thread -> Seq(Frame)]
      BY <1>1, <2>2, AppendFacts DEF TypeOK
    <3> QED BY <1>1, <3>1, <3>2, AppendFacts
  <2> QED BY <1>6, <2>1, <2>2
<1>8. n + 1 < ERRCCALLS \/ err' = "throw"
  BY <1>1, <1>6, DoAssumption
<1> QED BY <1>1, <1>4, <1>5, <1>6, <1>7, <1>8 DEF TypeOK

\* luaD_call keeps the invariant, from a thread that runs or, for a handler,
\* from one that has failed.
LEMMA CallStep ==
    ASSUME IInv, cstack # <<>>, NEW f \in Frame, NEW kind \in {"call", "pcall", "handler"},
           NEW ef \in BOOLEAN, luaD_call(Top.thread, f, kind, ef),
           err = "no" \/ (err = "msg" /\ kind = "handler")
    PROVE  IInv'
<1> DEFINE n == Len(cstack)
           t == Top.thread
           L == Len(frames[t])
<1>1. /\ n \in Nat \ {0} /\ n \in Index /\ t = cstack[n].thread /\ t \in Thread
      /\ nCcalls[t] = n /\ Depth(n) = L /\ L \in Nat
      /\ cstack[n].ci <= L /\ (kind # "handler" => cstack[n].ci < L)
      /\ cstack[n].ci \in Nat
  BY TopFacts, Types DEF IInv
<1>2. /\ cstack' \in Seq(Activation) /\ Len(cstack') = n + 1
      /\ \A k \in 1 .. n : cstack'[k] = cstack[k]
      /\ cstack'[n + 1].kind = kind /\ cstack'[n + 1].thread = t
      /\ cstack'[n + 1].ci = L /\ cstack'[n + 1].nCcalls = n
      /\ frames' \in [Thread -> Seq(Frame)]
      /\ \A u \in Thread : u # t => frames'[u] = frames[u]
      /\ Len(frames'[t]) \in {L, L + 1}
      /\ err' = "no" => Len(frames'[t]) = L + 1
      /\ \A i \in 1 .. L : frames'[t][i] = frames[t][i]
      /\ nCcalls' \in [Thread -> Nat] /\ nCcalls'[t] = n + 1
      /\ \A u \in Thread : u # t => nCcalls'[u] = nCcalls[u]
      /\ errfunc' \in [Thread -> BOOLEAN]
      /\ err' \in {"no", "msg", "throw"}
      /\ n + 1 < ERRCCALLS \/ err' = "throw"
      /\ UNCHANGED <<status, left, baseCcalls>>
  BY CallFacts
<1> HIDE DEF n, t, L
<1>3. TypeOK'
  BY <1>2 DEF IInv, TypeOK
<1>4. /\ n \in Nat \ {0} /\ Index = 1 .. n /\ Index' = 1 .. n + 1 /\ Len(cstack) = n
      /\ Len(cstack') = n + 1
      /\ \A k \in Index' : k \in Index \/ k = n + 1
      /\ \A k \in Index : cstack'[k] = cstack[k] /\ k \in Nat /\ 1 <= k /\ k <= n
      /\ cstack'[n + 1].kind = kind /\ cstack'[n + 1].thread = t
      /\ cstack'[n + 1].ci = L /\ cstack'[n + 1].nCcalls = n /\ kind # "resume"
      /\ \A k \in Index : cstack[k].thread \in Thread /\ cstack[k].ci \in Nat
      /\ \A k \in Index : k < n => k + 1 \in Index
  BY <1>1, <1>2, Types DEF IInv, Index, n
<1>5. Bottom'
  BY <1>1, <1>2, <1>4 DEF IInv, Bottom, n
<1>6. Segments'
  <2>1. /\ \A k \in Index : cstack[k].kind = "resume" =>
             /\ cstack[k].thread \in Co /\ baseCcalls[cstack[k].thread] = k /\ cstack[k].ci = 0
             /\ \A i \in 1 .. k - 1, j \in k .. n : cstack[i].thread # cstack[j].thread
        /\ \A i \in Index : \A j \in i .. n :
             (\A k \in i + 1 .. j : cstack[k].kind # "resume") => cstack[i].thread = cstack[j].thread
        /\ \A k \in Index : cstack[k].thread \in Co =>
             LET b == baseCcalls[cstack[k].thread] IN
             b \in 1 .. k /\ cstack[b].kind = "resume" /\ cstack[b].thread = cstack[k].thread
        /\ baseCcalls[Main] = 0
    BY DEF IInv, Segments, n
  <2>2. \A k \in Index' : cstack'[k].kind = "resume" =>
             k \in Index /\ cstack'[k] = cstack[k]
    BY <1>2, <1>4
  <2>3. \A k \in Index' : cstack'[k].kind = "resume" =>
         \A i \in 1 .. k - 1, j \in k .. n + 1 : cstack'[i].thread # cstack'[j].thread
    BY <1>1, <1>2, <1>4, <2>1, <2>2
  <2>4. ASSUME NEW i \in Index', NEW j \in i .. n + 1,
               \A k \in i + 1 .. j : cstack'[k].kind # "resume"
        PROVE  cstack'[i].thread = cstack'[j].thread
    <3>1. CASE j <= n
      <4>1. i \in Index /\ j \in i .. n
        BY <1>4, <3>1
      <4>2. \A k \in i + 1 .. j : k \in Index /\ cstack[k].kind # "resume"
        BY <1>4, <2>4, <4>1
      <4> QED BY <1>4, <2>1, <4>1, <4>2
    <3>2. CASE j = n + 1 /\ i = n + 1
      BY <3>2
    <3>3. CASE j = n + 1 /\ i <= n
      <4>1. \A k \in i + 1 .. n : k \in Index /\ k \in i + 1 .. j /\ cstack[k].kind # "resume"
        BY <1>4, <2>4, <3>3
      <4> QED BY <1>1, <1>2, <1>4, <2>1, <3>3, <4>1
    <3> QED BY <1>1, <1>4, <3>1, <3>2, <3>3
  <2>5. \A k \in Index' : cstack'[k].thread \in Co =>
             LET b == baseCcalls'[cstack'[k].thread] IN
             b \in 1 .. k /\ cstack'[b].kind = "resume" /\ cstack'[b].thread = cstack'[k].thread
    <3>1. ASSUME NEW k \in Index, cstack[k].thread \in Co
          PROVE  LET b == baseCcalls'[cstack[k].thread] IN
                 b \in 1 .. k /\ cstack'[b].kind = "resume" /\ cstack'[b].thread = cstack[k].thread
      <4> DEFINE b == baseCcalls[cstack[k].thread]
      <4>1. b \in 1 .. k /\ cstack[b].kind = "resume" /\ cstack[b].thread = cstack[k].thread
        BY <2>1, <3>1
      <4>2. b \in Index /\ baseCcalls' = baseCcalls
        BY <1>2, <1>4, <4>1
      <4> QED BY <1>4, <4>1, <4>2
    <3>2. ASSUME NEW k \in Index', cstack'[k].thread \in Co
          PROVE  LET b == baseCcalls'[cstack'[k].thread] IN
                 b \in 1 .. k /\ cstack'[b].kind = "resume" /\ cstack'[b].thread = cstack'[k].thread
      <4>1. CASE k \in Index
        <5>1. cstack'[k] = cstack[k]
          BY <1>4, <4>1
        <5> QED BY <3>1, <3>2, <4>1, <5>1
      <4>2. CASE k = n + 1
        <5>1. cstack'[k].thread = cstack[n].thread /\ n \in Index /\ n < k
          BY <1>1, <1>2, <1>4, <4>2
        <5>2. \A m \in 1 .. n : m \in 1 .. k
          BY <1>4, <5>1
        <5> QED BY <3>1, <3>2, <5>1, <5>2
      <4> QED BY <1>4, <4>1, <4>2
    <3> QED BY <3>2
  <2> QED BY <1>2, <1>4, <2>1, <2>2, <2>3, <2>4, <2>5 DEF Segments
<1>7. Caught'
  <2> SUFFICES ASSUME NEW k \in Index'
               PROVE  \E j \in 1 .. k : /\ cstack'[j].kind \in {"pcall", "resume"}
                        /\ \A i \in j + 1 .. k : cstack'[i].kind \notin {"pcall", "resume"}
    BY DEF Caught
  <2>1. \A m \in Index : \E j \in 1 .. m : /\ cstack[j].kind \in {"pcall", "resume"}
                        /\ \A i \in j + 1 .. m : cstack[i].kind \notin {"pcall", "resume"}
    BY DEF IInv, Caught
  <2>2. CASE k \in Index
    <3>1. \A i \in 1 .. k : cstack'[i] = cstack[i]
      BY <1>4, <2>2
    <3>2. PICK j \in 1 .. k : /\ cstack[j].kind \in {"pcall", "resume"}
                        /\ \A i \in j + 1 .. k : cstack[i].kind \notin {"pcall", "resume"}
      BY <2>1, <2>2
    <3>3. \A i \in j + 1 .. k : i \in 1 .. k
      BY <1>4, <2>2, <3>2
    <3> QED BY <3>1, <3>2, <3>3
  <2>3. CASE k = n + 1
    <3>1. PICK j \in 1 .. n : /\ cstack[j].kind \in {"pcall", "resume"}
                        /\ \A i \in j + 1 .. n : cstack[i].kind \notin {"pcall", "resume"}
      BY <1>1, <2>1
    <3>2. CASE kind = "pcall"
      BY <1>1, <1>2, <1>4, <2>3, <3>2
    <3>3. CASE kind # "pcall"
      <4>1. j \in 1 .. k /\ cstack'[j].kind \in {"pcall", "resume"}
        BY <1>1, <1>2, <1>4, <2>3, <3>1
      <4>2. \A i \in j + 1 .. k : cstack'[i].kind \notin {"pcall", "resume"}
        BY <1>1, <1>2, <1>4, <2>3, <3>1, <3>3
      <4> QED BY <4>1, <4>2
    <3> QED BY <3>2, <3>3
  <2> QED BY <1>1, <1>4, <2>2, <2>3
<1>8. Counts'
  <2>1. /\ \A k \in Index : cstack[k].nCcalls = k - 1
        /\ \A k \in Index : k = n \/ cstack[k + 1].kind = "resume" => nCcalls[cstack[k].thread] = k
        /\ \A k \in Index : cstack[k].kind = "resume" =>
             \A i \in 1 .. k - 1, j \in k .. n : cstack[i].thread # cstack[j].thread
    BY DEF IInv, Counts, Segments, n
  <2>2. \A k \in Index' : cstack'[k].nCcalls = k - 1
    BY <1>1, <1>2, <1>4, <2>1
  <2>3. ASSUME NEW k \in Index', k = n + 1 \/ cstack'[k + 1].kind = "resume"
        PROVE  nCcalls'[cstack'[k].thread] = k
    <3>1. CASE k = n + 1
      BY <1>2, <1>4, <3>1
    <3>2. CASE k < n
      <4>1. k \in Index /\ k + 1 \in Index /\ cstack[k + 1].kind = "resume" /\ cstack'[k] = cstack[k]
        BY <1>1, <1>2, <1>4, <2>3, <3>2
      <4>2. cstack[k].thread # t /\ nCcalls[cstack[k].thread] = k
        BY <1>1, <1>4, <2>1, <4>1
      <4> QED BY <1>2, <1>4, <4>1, <4>2
    <3>3. CASE k = n
      BY <1>2, <1>4, <2>3, <3>3
    <3> QED BY <1>1, <1>4, <3>1, <3>2, <3>3
  <2>4. Len(cstack') <= ERRCCALLS /\ (Len(cstack') = ERRCCALLS => err' = "throw")
    <3>1. n <= ERRCCALLS /\ (n = ERRCCALLS => err = "throw")
      BY DEF IInv, Counts, n
    <3> QED BY <1>1, <1>2, <1>4, <3>1, DoAssumption
  <2> QED BY <1>2, <1>4, <2>2, <2>3, <2>4 DEF Counts
<1>9. /\ \A k \in 1 .. n : DepthIn(cstack', frames', k) = Depth(k)
      /\ DepthIn(cstack', frames', n + 1) = Len(frames'[t])
  <2>1. DepthIn(cstack', frames', n + 1) = Len(frames'[t])
    BY <1>2, <1>4 DEF DepthIn
  <2>2. DepthIn(cstack', frames', n) = L
    <3>1. n < n + 1 /\ cstack'[n + 1].kind # "resume" /\ cstack'[n + 1].ci = L
      BY <1>1, <1>2, <1>4
    <3> QED BY <1>2, <1>4, <3>1 DEF DepthIn
  <2>3. ASSUME NEW k \in 1 .. n, k # n PROVE DepthIn(cstack', frames', k) = Depth(k)
    <3>1. k < n /\ k + 1 \in 1 .. n /\ k < n + 1
      BY <1>1, <2>3
    <3>2. cstack'[k] = cstack[k] /\ cstack'[k + 1] = cstack[k + 1]
      BY <1>2, <1>4, <3>1
    <3>3. CASE cstack[k + 1].kind # "resume"
      BY <1>2, <1>4, <3>1, <3>2, <3>3 DEF Depth, DepthIn, n
    <3>4. CASE cstack[k + 1].kind = "resume"
      <4>1. cstack[k].thread # t
        BY <1>1, <1>4, <3>1, <3>4 DEF IInv, Segments, n
      <4>2. frames'[cstack[k].thread] = frames[cstack[k].thread]
        BY <1>2, <1>4, <3>1, <4>1
      <4> QED BY <1>2, <1>4, <3>1, <3>2, <3>4, <4>2 DEF Depth, DepthIn, n
    <3> QED BY <3>3, <3>4
  <2> QED BY <1>1, <2>1, <2>2, <2>3
<1>10. Depths'
  <2>1. /\ \A k \in Index : cstack[k].ci <= Len(frames[cstack[k].thread])
        /\ \A k \in Index : \A j \in 1 .. k :
             cstack[j].thread = cstack[k].thread => cstack[j].ci <= cstack[k].ci
        /\ \A k \in Index : cstack[k].ci <= Depth(k) /\ Depth(k) \in Nat
        /\ \A k \in 1 .. n - 1 : cstack[k + 1].kind # "handler" => cstack[k].ci < Depth(k)
        /\ \A k \in Index : \A i \in cstack[k].ci + 1 .. Depth(k) - 1 :
             frames[cstack[k].thread][i] = "lua"
        /\ \A u \in Thread : Len(frames[u]) \in Nat
    BY Types DEF IInv, Depths, n
  <2>2. ASSUME NEW k \in Index' PROVE cstack'[k].ci <= Len(frames'[cstack'[k].thread])
    <3>1. \A u \in Thread : Len(frames[u]) <= Len(frames'[u]) /\ Len(frames'[u]) \in Nat
      <4>1. Len(frames[t]) <= Len(frames'[t]) /\ Len(frames'[t]) \in Nat
        BY <1>1, <1>2 DEF L
      <4> QED BY <1>2, <2>1, <4>1
    <3>2. CASE k = n + 1
      BY <1>1, <1>2, <1>4, <3>2
    <3>3. CASE k \in Index
      <4>1. cstack[k].ci <= Len(frames[cstack[k].thread]) /\ cstack[k].thread \in Thread
        BY <1>4, <2>1, <3>3
      <4> QED BY <1>4, <2>1, <3>1, <3>3, <4>1
    <3> QED BY <1>4, <3>2, <3>3
  <2>3. \A k \in Index' : \A j \in 1 .. k :
             cstack'[j].thread = cstack'[k].thread => cstack'[j].ci <= cstack'[k].ci
    <3>1. \A j \in 1 .. n : cstack[j].thread = t => cstack[j].ci <= L
      BY <1>4, <2>1 DEF L
    <3> QED BY <1>1, <1>2, <1>4, <2>1, <3>1
  <2>4. \A k \in Index' : cstack'[k].ci <= DepthIn(cstack', frames', k)
    BY <1>1, <1>2, <1>4, <1>9, <2>1
  <2>5. \A k \in 1 .. n : cstack'[k + 1].kind # "handler" => cstack'[k].ci < DepthIn(cstack', frames', k)
    BY <1>1, <1>2, <1>4, <1>9, <2>1
  <2>6. \A k \in Index' : k = n + 1 /\ err' = "no" => cstack'[k].ci < DepthIn(cstack', frames', k)
    BY <1>1, <1>2, <1>4, <1>9
  <2>7. ASSUME NEW k \in Index', NEW i \in cstack'[k].ci + 1 .. DepthIn(cstack', frames', k) - 1
        PROVE  frames'[cstack'[k].thread][i] = "lua"
    <3>1. CASE k = n + 1
      BY <1>1, <1>2, <1>4, <1>9, <2>7, <3>1
    <3>2. CASE k \in Index
      <4>1. cstack'[k] = cstack[k] /\ i \in cstack[k].ci + 1 .. Depth(k) - 1
        BY <1>2, <1>4, <1>9, <2>7, <3>2
      <4>2. frames[cstack[k].thread][i] = "lua"
        BY <2>1, <3>2, <4>1
      <4>3. CASE cstack[k].thread = t
        <5>1. i \in 1 .. L
          BY <1>1, <1>4, <2>1, <3>2, <4>1, <4>3, DepthBound DEF L
        <5> QED BY <1>2, <1>4, <4>1, <4>2, <4>3, <5>1
      <4>4. CASE cstack[k].thread # t
        BY <1>2, <1>4, <3>2, <4>1, <4>2, <4>4
      <4> QED BY <4>3, <4>4
    <3> QED BY <1>1, <1>4, <3>1, <3>2
  <2> QED BY <1>1, <1>2, <1>4, <2>2, <2>3, <2>4, <2>5, <2>6, <2>7 DEF Depths, Depth
<1>11. Outside'
  <2>1. \A c \in Co : InChain(c)' <=> InChain(c)
    <3>1. /\ \A c : InChain(c) <=> \E k \in 1 .. n : cstack[k].thread = c
          /\ \A c : InChain(c)' <=> \E k \in 1 .. n + 1 : cstack'[k].thread = c
      BY <1>3, <1>4, InChainIs, InChainNext DEF IInv
    <3> QED BY <1>1, <1>4, <3>1
  <2>2. \A c \in Co : ~InChain(c) => frames'[c] = frames[c]
    BY <1>1, <1>2, <1>4, InChainIs DEF IInv
  <2>3. \A c \in Co : status[c] = "yield" => frames'[c] = frames[c]
    BY <2>2 DEF IInv, Outside
  <2>4. UNCHANGED <<status, left>>
    BY <1>2
  <2>5. /\ \A c \in Co : InChain(c)' => status'[c] = "ok" /\ left'[c] # "none"
        /\ \A c \in Co : ~InChain(c)' /\ status'[c] = "ok" => frames'[c] = <<>>
        /\ \A c \in Co : left'[c] = "none" => status'[c] = "ok"
    BY <2>1, <2>2, <2>4 DEF IInv, Outside
  <2>6. ASSUME NEW c \in Co, status'[c] = "yield", NEW i \in 1 .. Len(frames'[c]) - 1
        PROVE  frames'[c][i] = "lua"
    BY <2>3, <2>4, <2>6 DEF IInv, Outside
  <2> QED BY <2>5, <2>6 DEF Outside
<1>12. Waiting'
  <2>1. \A c \in Co : InChain(c)' => InChain(c)
    BY <1>1, <1>3, <1>4, InChainIs, InChainNext DEF IInv
  <2> QED BY <1>2, <1>4, <2>1, WaitingStep DEF t
<1> QED BY <1>3, <1>5, <1>6, <1>7, <1>8, <1>10, <1>11, <1>12 DEF IInv

----------------------------------------------------------------------------
(* Steps that leave the first m activations of the C stack: all of them,   *)
(* or fewer for a return, a yield and an error.                            *)

\* Such a step keeps what the invariant says of the C stack, if it changes
\* only the calls and the count of the thread that is on top by then.
LEMMA ShrinkStep ==
    ASSUME IInv, TypeOK', NEW m \in 0 .. Len(cstack), cstack' = SubSeq(cstack, 1, m),
           UNCHANGED baseCcalls,
           m = 0 => err' = "no", m = ERRCCALLS => err' = "throw",
           \A u \in Thread :
                \/ u = cstack[m].thread
                \/ \A k \in 1 .. m : cstack[k].thread # u
                \/ frames'[u] = frames[u] /\ nCcalls'[u] = nCcalls[u],
           m > 0 => LET t == cstack[m].thread IN
                /\ nCcalls'[t] = m
                /\ cstack[m].ci <= Len(frames'[t])
                /\ err' = "no" => cstack[m].ci < Len(frames'[t])
                /\ \A i \in 1 .. cstack[m].ci : frames'[t][i] = frames[t][i]
                /\ \A i \in cstack[m].ci + 1 .. Len(frames'[t]) - 1 : frames'[t][i] = "lua"
    PROVE  Bottom' /\ Segments' /\ Caught' /\ Counts' /\ Depths'
<1> DEFINE n == Len(cstack)
           t == cstack[m].thread
<1>1. /\ n \in Nat /\ m \in Nat /\ m <= n /\ Index = 1 .. n /\ Index' = 1 .. m
      /\ Len(cstack') = m
      /\ \A k \in 1 .. m : k \in Index /\ k \in Nat /\ 1 <= k /\ k <= m /\ cstack'[k] = cstack[k]
      /\ cstack' = <<>> <=> m = 0
      /\ m > 0 => cstack[m].thread \in Thread /\ m \in Index
      /\ \A k \in 1 .. m : /\ cstack[k].thread \in Thread /\ cstack[k].ci \in Nat
                           /\ cstack[k].kind \in {"call", "pcall", "handler", "resume"}
      /\ \A u \in Thread : Len(frames[u]) \in Nat /\ Len(frames'[u]) \in Nat
  <2>1. cstack \in Seq(Activation) /\ TypeOK
    BY DEF IInv, TypeOK
  <2>2. n \in Nat /\ Index = 1 .. n /\ \A u \in Thread : Len(frames[u]) \in Nat
    BY <2>1, Types DEF Index
  <2>3. /\ Len(cstack') = m /\ \A k \in 1 .. m : cstack'[k] = cstack[k]
        /\ cstack' = <<>> <=> m = 0
    <3>1. /\ Len(cstack') = m /\ \A k \in 1 .. m : cstack'[k] = cstack[k]
          /\ m = 0 => cstack' = <<>>
      BY <2>1, PrefixFacts
    <3>2. cstack' = <<>> => Len(cstack') = 0
      OBVIOUS
    <3> QED BY <3>1, <3>2
  <2>4. Index' = 1 .. m
    BY <2>3 DEF Index
  <2>5. \A u \in Thread : Len(frames'[u]) \in Nat
    BY DEF TypeOK
  <2>6. \A k \in 1 .. m : k \in Index /\ k \in Nat /\ 1 <= k /\ k <= m
    BY <2>2
  <2>7. m \in Nat /\ m <= n /\ (m > 0 => m \in 1 .. m)
    BY <2>2
  <2>8. \A k \in Index : /\ cstack[k].thread \in Thread /\ cstack[k].ci \in Nat
                         /\ cstack[k].kind \in {"call", "pcall", "handler", "resume"}
    BY <2>1, Types
  <2> QED BY <2>2, <2>3, <2>4, <2>5, <2>6, <2>7, <2>8
<1> HIDE DEF n
<1>2. Bottom'
  <2>1. m > 0 => cstack[1].kind = "pcall" /\ cstack[1].thread = Main
    BY <1>1, Types DEF IInv, Bottom, n
  <2>2. m > 0 => 1 \in 1 .. m
    BY <1>1
  <2>3. m > 0 => cstack'[1] = cstack[1]
    BY <1>1, <2>2
  <2>4. m = 0 \/ m > 0
    BY <1>1
  <2> QED BY <1>1, <2>1, <2>3, <2>4 DEF Bottom
<1>3. /\ \A k \in Index : cstack[k].kind = "resume" =>
           /\ cstack[k].thread \in Co /\ baseCcalls[cstack[k].thread] = k /\ cstack[k].ci = 0
           /\ \A i \in 1 .. k - 1, j \in k .. n : cstack[i].thread # cstack[j].thread
      /\ \A i \in Index : \A j \in i .. n :
           (\A k \in i + 1 .. j : cstack[k].kind # "resume") => cstack[i].thread = cstack[j].thread
      /\ \A k \in Index : cstack[k].thread \in Co =>
           LET b == baseCcalls[cstack[k].thread] IN
           b \in 1 .. k /\ cstack[b].kind = "resume" /\ cstack[b].thread = cstack[k].thread
      /\ baseCcalls[Main] = 0
  BY DEF IInv, Segments, n
<1>4. Segments'
  <2>1. \A k \in 1 .. m : cstack'[k].kind = "resume" =>
           /\ cstack'[k].thread \in Co /\ baseCcalls'[cstack'[k].thread] = k /\ cstack'[k].ci = 0
    BY <1>1, <1>3
  <2>2. \A k \in 1 .. m : cstack'[k].kind = "resume" =>
          \A i \in 1 .. k - 1, j \in k .. m : cstack'[i].thread # cstack'[j].thread
    <3> SUFFICES ASSUME NEW k \in 1 .. m, cstack'[k].kind = "resume",
                        NEW i \in 1 .. k - 1, NEW j \in k .. m
                 PROVE  cstack'[i].thread # cstack'[j].thread
      OBVIOUS
    <3>1. i \in 1 .. m /\ j \in 1 .. m /\ j \in k .. n
      BY <1>1
    <3> QED BY <1>1, <1>3, <3>1
  <2>3. ASSUME NEW i \in 1 .. m, NEW j \in i .. m,
               \A k \in i + 1 .. j : cstack'[k].kind # "resume"
        PROVE  cstack'[i].thread = cstack'[j].thread
    <3>1. j \in 1 .. m /\ j \in i .. n /\ \A k \in i + 1 .. j : k \in 1 .. m
      BY <1>1
    <3> QED BY <1>1, <1>3, <2>3, <3>1
  <2>4. \A k \in 1 .. m : cstack'[k].thread \in Co =>
           LET b == baseCcalls'[cstack'[k].thread] IN
           b \in 1 .. k /\ cstack'[b].kind = "resume" /\ cstack'[b].thread = cstack'[k].thread
    <3> SUFFICES ASSUME NEW k \in 1 .. m, cstack'[k].thread \in Co
                 PROVE  LET b == baseCcalls'[cstack'[k].thread] IN
                        b \in 1 .. k /\ cstack'[b].kind = "resume" /\ cstack'[b].thread = cstack'[k].thread
      OBVIOUS
    <3> DEFINE b == baseCcalls[cstack[k].thread]
    <3>1. b \in 1 .. k /\ cstack[b].kind = "resume" /\ cstack[b].thread = cstack[k].thread
      BY <1>1, <1>3
    <3>2. b \in 1 .. m
      BY <1>1, <3>1
    <3> QED BY <1>1, <3>1, <3>2
  <2> QED BY <1>1, <1>3, <2>1, <2>2, <2>3, <2>4 DEF Segments
<1>5. Caught'
  <2> SUFFICES ASSUME NEW k \in 1 .. m
               PROVE  \E j \in 1 .. k : /\ cstack'[j].kind \in {"pcall", "resume"}
                        /\ \A i \in j + 1 .. k : cstack'[i].kind \notin {"pcall", "resume"}
    BY <1>1 DEF Caught
  <2>1. PICK j \in 1 .. k : /\ cstack[j].kind \in {"pcall", "resume"}
                        /\ \A i \in j + 1 .. k : cstack[i].kind \notin {"pcall", "resume"}
    BY <1>1 DEF IInv, Caught
  <2>2. j \in 1 .. m /\ \A i \in j + 1 .. k : i \in 1 .. m
    BY <1>1
  <2> QED BY <1>1, <2>1, <2>2
<1>6. \A k \in 1 .. m : cstack[k].thread = t
         \/ /\ frames'[cstack[k].thread] = frames[cstack[k].thread]
            /\ nCcalls'[cstack[k].thread] = nCcalls[cstack[k].thread]
  BY <1>1
<1>7. ASSUME NEW k \in 1 .. m, k < m
      PROVE  /\ k + 1 \in 1 .. m /\ m > 0
             /\ cstack[k + 1].kind # "resume" => cstack[k + 1].thread = cstack[k].thread
             /\ cstack[k + 1].kind = "resume" => cstack[k].thread # t
  <2>1. k + 1 \in 1 .. m /\ k < n /\ m > 0 /\ k \in 1 .. (k + 1) - 1 /\ m \in k + 1 .. n
    BY <1>1, <1>7
  <2>2. cstack[k + 1].kind # "resume" => cstack[k + 1].thread = cstack[k].thread
    BY <1>1, <2>1, NextSame DEF n
  <2>3. cstack[k + 1].kind = "resume" => cstack[k].thread # t
    BY <1>1, <1>3, <2>1
  <2> QED BY <2>1, <2>2, <2>3
<1>8. Counts'
  <2>1. /\ \A k \in Index : cstack[k].nCcalls = k - 1
        /\ \A k \in Index : k = n \/ cstack[k + 1].kind = "resume" => nCcalls[cstack[k].thread] = k
        /\ n <= ERRCCALLS
    BY DEF IInv, Counts, n
  <2>2. ASSUME NEW k \in 1 .. m, k = m \/ cstack'[k + 1].kind = "resume"
        PROVE  nCcalls'[cstack'[k].thread] = k
    <3>1. CASE k = m
      BY <1>1, <3>1
    <3>2. CASE k < m
      <4>1. k + 1 \in 1 .. m /\ k \in Index
        BY <1>1, <3>2
      <4>2. cstack[k + 1].kind = "resume"
        BY <1>1, <2>2, <3>2, <4>1
      <4>3. cstack[k].thread # t
        BY <1>7, <3>2, <4>2
      <4>4. nCcalls'[cstack[k].thread] = nCcalls[cstack[k].thread]
        BY <1>6, <4>3
      <4>5. nCcalls[cstack[k].thread] = k /\ cstack'[k] = cstack[k]
        BY <1>1, <2>1, <4>1, <4>2
      <4> QED BY <4>4, <4>5
    <3> QED BY <1>1, <3>1, <3>2
  <2>3. m <= ERRCCALLS
    BY <1>1, <2>1, DoAssumption
  <2> QED BY <1>1, <2>1, <2>2, <2>3 DEF Counts
<1>9. Depths'
  <2>1. /\ \A k \in Index : cstack[k].ci <= Len(frames[cstack[k].thread])
        /\ \A k \in Index : \A j \in 1 .. k :
             cstack[j].thread = cstack[k].thread => cstack[j].ci <= cstack[k].ci
        /\ \A k \in Index : cstack[k].ci <= Depth(k) /\ Depth(k) \in Nat
        /\ \A k \in 1 .. n - 1 : cstack[k + 1].kind # "handler" => cstack[k].ci < Depth(k)
        /\ \A k \in Index : \A i \in cstack[k].ci + 1 .. Depth(k) - 1 :
             frames[cstack[k].thread][i] = "lua"
    BY Types DEF IInv, Depths, n
  <2> DEFINE D(k) == DepthIn(cstack', frames', k)
  <2>2. ASSUME NEW k \in 1 .. m, k < m PROVE D(k) = Depth(k)
    <3>1. k < n /\ k + 1 \in 1 .. m
      BY <1>1, <1>7, <2>2
    <3>2. CASE cstack[k + 1].kind # "resume"
      BY <1>1, <2>2, <3>1, <3>2 DEF Depth, DepthIn, n
    <3>3. CASE cstack[k + 1].kind = "resume"
      <4>1. frames'[cstack[k].thread] = frames[cstack[k].thread]
        BY <1>6, <1>7, <2>2, <3>3
      <4> QED BY <1>1, <2>2, <3>1, <3>3, <4>1 DEF Depth, DepthIn, n
    <3> QED BY <3>2, <3>3
  <2>3. m > 0 => D(m) = Len(frames'[t])
    BY <1>1 DEF DepthIn
  <2> HIDE DEF D
  <2>4. ASSUME NEW k \in 1 .. m PROVE cstack'[k].ci <= Len(frames'[cstack'[k].thread])
    <3>1. CASE cstack[k].thread = t
      <4>1. cstack[k].ci <= cstack[m].ci /\ cstack[m].ci <= Len(frames'[t]) /\ m > 0
        BY <1>1, <2>1, <3>1
      <4> QED BY <1>1, <3>1, <4>1
    <3>2. CASE cstack[k].thread # t
      <4>1. frames'[cstack[k].thread] = frames[cstack[k].thread]
        BY <1>6, <3>2
      <4>2. cstack[k].ci <= Len(frames[cstack[k].thread])
        BY <1>1, <2>1
      <4> QED BY <1>1, <4>1, <4>2
    <3> QED BY <3>1, <3>2
  <2>5. \A k \in 1 .. m : \A j \in 1 .. k :
             cstack'[j].thread = cstack'[k].thread => cstack'[j].ci <= cstack'[k].ci
    <3>1. \A k \in 1 .. m : \A j \in 1 .. k : j \in 1 .. m
      BY <1>1
    <3> QED BY <1>1, <2>1, <3>1
  <2>6. ASSUME NEW k \in 1 .. m PROVE cstack'[k].ci <= D(k)
    <3>1. CASE k = m
      BY <1>1, <2>3, <3>1
    <3>2. CASE k < m
      BY <1>1, <2>1, <2>2, <3>2
    <3> QED BY <1>1, <3>1, <3>2
  <2>7. ASSUME NEW k \in 1 .. m - 1, cstack'[k + 1].kind # "handler" PROVE cstack'[k].ci < D(k)
    <3>1. k \in 1 .. m /\ k < m /\ k + 1 \in 1 .. m /\ k \in 1 .. n - 1
      BY <1>1
    <3> QED BY <1>1, <2>1, <2>2, <2>7, <3>1
  <2>8. \A k \in 1 .. m : k = m /\ err' = "no" => cstack'[k].ci < D(k)
    BY <1>1, <2>3
  <2>9. ASSUME NEW k \in 1 .. m, NEW i \in cstack'[k].ci + 1 .. D(k) - 1
        PROVE  frames'[cstack'[k].thread][i] = "lua"
    <3>1. CASE k = m
      <4>1. m > 0 /\ cstack'[k] = cstack[m]
        BY <1>1, <3>1
      <4>2. i \in cstack[m].ci + 1 .. Len(frames'[t]) - 1
        BY <2>3, <2>9, <3>1, <4>1
      <4> QED BY <4>1, <4>2
    <3>2. CASE k < m
      <4>1. i \in cstack[k].ci + 1 .. Depth(k) - 1 /\ frames[cstack[k].thread][i] = "lua"
        BY <1>1, <2>1, <2>2, <2>9, <3>2
      <4>2. CASE cstack[k].thread = t
        <5>1. /\ k + 1 \in 1 .. m /\ k < n /\ cstack[k + 1].kind # "resume"
              /\ cstack[k + 1].thread = t
          <6>1. k + 1 \in 1 .. m /\ k < n /\ k + 1 \in Index
            BY <1>1, <3>2
          <6> QED BY <1>7, <3>2, <4>2, <6>1
        <5>2. Depth(k) = cstack[k + 1].ci
          BY <5>1 DEF Depth, DepthIn, n
        <5>3. cstack[k + 1].ci <= cstack[m].ci
          <6>1. m \in Index /\ cstack[m].thread = t
            BY <1>1, <5>1
          <6> QED BY <2>1, <5>1, <6>1
        <5>4. cstack[m].ci \in Nat /\ cstack[k].ci \in Nat /\ cstack[k + 1].ci \in Nat /\ m > 0
              /\ cstack'[k] = cstack[k]
          BY <1>1, <5>1
        <5>5. i \in 1 .. cstack[m].ci
          <6>1. i \in cstack[k].ci + 1 .. cstack[k + 1].ci - 1
            BY <4>1, <5>2
          <6>2. i \in Nat /\ cstack[k].ci + 1 <= i /\ i <= cstack[k + 1].ci - 1
            BY <5>4, <6>1
          <6>3. i \in Nat /\ 1 <= i /\ i <= cstack[m].ci
            BY <5>3, <5>4, <6>2
          <6> QED BY <5>4, <6>3
        <5>6. frames'[t][i] = frames[t][i]
          BY <5>4, <5>5
        <5> QED BY <4>1, <4>2, <5>4, <5>6
      <4>3. CASE cstack[k].thread # t
        BY <1>1, <1>6, <4>1, <4>3
      <4> QED BY <4>2, <4>3
    <3> QED BY <1>1, <3>1, <3>2
  <2> QED BY <1>1, <2>4, <2>5, <2>6, <2>7, <2>8, <2>9 DEF Depths, Depth, D
<1> QED BY <1>2, <1>4, <1>5, <1>8, <1>9

----------------------------------------------------------------------------
(* The other operations.                                                   *)

\* The step that only errors, sets aside a coroutine or does nothing.
LEMMA IdleStep ==
    ASSUME IInv, TypeOK', UNCHANGED <<cstack, frames, baseCcalls, status>>,
           \A u \in Thread : InChain(u) => nCcalls'[u] = nCcalls[u],
           err' = "no" => err = "no", cstack = <<>> => err' = "no",
           Len(cstack) = ERRCCALLS => err' = "throw",
           \A c \in Co : left'[c] = "none" => left[c] = "none"
    PROVE  IInv'
<1> DEFINE n == Len(cstack)
<1>1. /\ TypeOK /\ n \in Nat /\ n \in 0 .. n /\ cstack' = SubSeq(cstack, 1, n)
      /\ (n = 0 <=> cstack = <<>>) /\ Index = 1 .. n
  <2>1. cstack \in Seq(Activation)
    BY DEF IInv, TypeOK
  <2>2. n \in Nat /\ n \in 0 .. n /\ (n = 0 <=> cstack = <<>>) /\ Index = 1 .. n
    BY <2>1 DEF Index
  <2>3. SubSeq(cstack, 1, n) = cstack
    BY <2>1
  <2> QED BY <2>2, <2>3 DEF IInv
<1> HIDE DEF n
<1>2. \A u \in Thread : \/ \A k \in 1 .. n : cstack[k].thread # u
                        \/ frames'[u] = frames[u] /\ nCcalls'[u] = nCcalls[u]
  BY <1>1, InChainIs
<1>3. ASSUME n > 0
      PROVE  LET t == cstack[n].thread IN
             /\ nCcalls'[t] = n
             /\ cstack[n].ci <= Len(frames'[t])
             /\ err' = "no" => cstack[n].ci < Len(frames'[t])
             /\ \A i \in 1 .. cstack[n].ci : frames'[t][i] = frames[t][i]
             /\ \A i \in cstack[n].ci + 1 .. Len(frames'[t]) - 1 : frames'[t][i] = "lua"
  <2> DEFINE t == cstack[n].thread
  <2>1. /\ n \in Index /\ n \in 1 .. n /\ t \in Thread /\ nCcalls[t] = n
        /\ Depth(n) = Len(frames[t])
        /\ cstack[n].ci <= Len(frames[t]) /\ (err = "no" => cstack[n].ci < Len(frames[t]))
    BY <1>1, <1>3, TopFacts DEF n
  <2>2. \A i \in cstack[n].ci + 1 .. Len(frames[t]) - 1 : frames[t][i] = "lua"
    BY <2>1 DEF IInv, Depths
  <2>3. nCcalls'[t] = n
    BY <1>1, <2>1, InChainIs
  <2> QED BY <2>1, <2>2, <2>3
<1>4. Bottom' /\ Segments' /\ Caught' /\ Counts' /\ Depths'
  <2>1. n \in 0 .. Len(cstack) /\ (n = 0 => err' = "no") /\ (n = ERRCCALLS => err' = "throw")
    BY <1>1 DEF n
  <2>2. \A u \in Thread :
                \/ u = cstack[n].thread
                \/ \A k \in 1 .. n : cstack[k].thread # u
                \/ frames'[u] = frames[u] /\ nCcalls'[u] = nCcalls[u]
    BY <1>2
  <2> QED BY <1>1, <1>3, <2>1, <2>2, ShrinkStep
<1>5. Outside'
  <2>1. \A c \in Co : InChain(c)' <=> InChain(c)
    BY <1>1, InChainIs, InChainNext DEF n
  <2> QED BY <2>1 DEF IInv, Outside
<1>6. Waiting'
  <2>1. \A c \in Co : InChain(c)' <=> InChain(c)
    BY <1>1, InChainIs, InChainNext DEF n
  <2> QED BY <2>1, WaitingStep DEF Top
<1> QED BY <1>4, <1>5, <1>6 DEF IInv

\* A call in the same luaV_execute: the caller is a Lua function.
LEMMA CallLuaStep ==
    ASSUME IInv, NEW t \in Thread, NEW f \in Frame, Call(t, f)
    PROVE  IInv'
<1> DEFINE n == Len(cstack)
           L == Len(frames[t])
<1>1. /\ cstack # <<>> /\ err = "no" /\ t = Top.thread /\ frames[t] # <<>> /\ frames[t][L] = "lua"
      /\ frames' = [frames EXCEPT ![t] = Append(@, f)]
      /\ UNCHANGED <<cstack, status, left, nCcalls, baseCcalls, errfunc, err>>
  BY DEF Call, Runs, Last
<1>2. /\ TypeOK /\ n \in Nat \ {0} /\ n \in 0 .. n /\ cstack' = SubSeq(cstack, 1, n) /\ n \in Index
      /\ t = cstack[n].thread /\ nCcalls[t] = n /\ Depth(n) = L /\ Index = 1 .. n
      /\ cstack[n].ci \in Nat /\ cstack[n].ci < L /\ L \in Nat /\ frames[t] \in Seq(Frame)
  <2>1. SubSeq(cstack, 1, n) = cstack
    BY DEF IInv, TypeOK
  <2> QED BY <1>1, <2>1, TopFacts, Types DEF IInv, Index
<1>3. /\ frames'[t] = Append(frames[t], f) /\ \A u \in Thread : u # t => frames'[u] = frames[u]
      /\ frames' \in [Thread -> Seq(Frame)]
  BY <1>1, <1>2, AppendFacts DEF TypeOK
<1>4. /\ Len(frames'[t]) = L + 1 /\ \A i \in 1 .. L : frames'[t][i] = frames[t][i]
  BY <1>2, <1>3, AppendFacts
<1>5. TypeOK'
  BY <1>1, <1>2, <1>3 DEF TypeOK
<1>6. n = ERRCCALLS => err' = "throw"
  BY <1>1 DEF IInv, Counts
<1> HIDE DEF n, L
<1>7. \A i \in cstack[n].ci + 1 .. L - 1 : frames[t][i] = "lua"
  BY <1>2 DEF IInv, Depths
<1>8. \A i \in cstack[n].ci + 1 .. Len(frames'[t]) - 1 : frames'[t][i] = "lua"
  <2> SUFFICES ASSUME NEW i \in cstack[n].ci + 1 .. Len(frames'[t]) - 1
               PROVE  frames'[t][i] = "lua"
    OBVIOUS
  <2>1. i \in 1 .. L /\ (i = L \/ i \in cstack[n].ci + 1 .. L - 1)
    BY <1>2, <1>4
  <2>2. frames[t][i] = "lua"
    BY <1>1, <1>7, <2>1
  <2> QED BY <1>4, <2>1, <2>2
<1>9. Bottom' /\ Segments' /\ Caught' /\ Counts' /\ Depths'
  <2>1. n > 0 => LET u == cstack[n].thread IN
                /\ nCcalls'[u] = n
                /\ cstack[n].ci <= Len(frames'[u])
                /\ err' = "no" => cstack[n].ci < Len(frames'[u])
                /\ \A i \in 1 .. cstack[n].ci : frames'[u][i] = frames[u][i]
                /\ \A i \in cstack[n].ci + 1 .. Len(frames'[u]) - 1 : frames'[u][i] = "lua"
    <3> DEFINE u == cstack[n].thread
    <3>1. u = t /\ nCcalls'[u] = n
      BY <1>1, <1>2
    <3>2. cstack[n].ci < L + 1 /\ cstack[n].ci <= L + 1
      BY <1>2
    <3>3. \A i \in 1 .. cstack[n].ci : i \in 1 .. L
      BY <1>2
    <3>4. \A i \in 1 .. cstack[n].ci : frames'[u][i] = frames[u][i]
      BY <1>4, <3>1, <3>3
    <3> QED BY <1>4, <1>8, <3>1, <3>2, <3>4
  <2>2. \A u \in Thread :
                \/ u = cstack[n].thread
                \/ \A k \in 1 .. n : cstack[k].thread # u
                \/ frames'[u] = frames[u] /\ nCcalls'[u] = nCcalls[u]
    BY <1>1, <1>2, <1>3
  <2> QED BY <1>1, <1>2, <1>5, <1>6, <2>1, <2>2, ShrinkStep DEF n
<1>10. Outside'
  <2>1. \A c \in Co : InChain(c)' <=> InChain(c)
    BY <1>1, <1>2, <1>5, InChainIs, InChainNext DEF n
  <2>2. InChain(t)
    BY <1>2, InChainIs
  <2>3. \A c \in Co : status[c] = "yield" => c # t
    BY <2>2 DEF IInv, Outside
  <2> QED BY <1>1, <1>3, <2>1, <2>2, <2>3 DEF IInv, Outside
<1>11. Waiting'
  <2>1. \A c \in Co : InChain(c)' <=> InChain(c)
    BY <1>1, <1>2, <1>5, InChainIs, InChainNext DEF n
  <2> QED BY <1>1, <1>2, <1>3, <2>1, WaitingStep DEF n
<1> QED BY <1>5, <1>9, <1>10, <1>11 DEF IInv

\* Activation k ends, and with it the ones above, of the same thread.  A
\* thread that was called goes on below, as it was at the call; a coroutine
\* that was resumed leaves the C stack.
LEMMA UnwindStep ==
    ASSUME IInv, TypeOK', NEW k \in Index, cstack' = SubSeq(cstack, 1, k - 1),
           UNCHANGED baseCcalls,
           \A i \in k + 1 .. Len(cstack) : cstack[i].kind # "resume",
           cstack[k].kind # "resume" =>
               /\ frames'[Top.thread] = SubSeq(frames[Top.thread], 1, cstack[k].ci)
               /\ nCcalls'[Top.thread] = k - 1,
           \A u \in Thread : u # Top.thread =>
               frames'[u] = frames[u] /\ nCcalls'[u] = nCcalls[u],
           err' = "no" => cstack[k].kind # "handler", k = 1 => err' = "no"
    PROVE  /\ Bottom' /\ Segments' /\ Caught' /\ Counts' /\ Depths' /\ Waiting'
           /\ cstack[k].thread = Top.thread
           /\ \A c \in Co : InChain(c)' <=>
                InChain(c) /\ ~(cstack[k].kind = "resume" /\ c = Top.thread)
<1> DEFINE n == Len(cstack)
           t == Top.thread
           m == k - 1
<1>1. /\ TypeOK /\ n \in Nat \ {0} /\ k \in 1 .. n /\ Index = 1 .. n /\ t = cstack[n].thread
      /\ n \in Index /\ m \in 0 .. n /\ m < n /\ t \in Thread /\ n \in k .. n /\ k \in k .. n
      /\ \A i \in Index : cstack[i].ci \in Nat /\ cstack[i].thread \in Thread
      /\ frames[t] \in Seq(Frame) /\ Len(frames[t]) \in Nat
  <2>1. n \in Nat /\ k \in 1 .. n /\ Index = 1 .. n
    BY Types DEF IInv, Index
  <2>2. cstack # <<>>
    BY <2>1, Types DEF IInv
  <2> QED BY <2>1, <2>2, TopFacts, Types DEF IInv
<1> HIDE DEF n, t, m
<1>2. \A i \in k .. n : cstack[i].thread = t
  <2> SUFFICES ASSUME NEW i \in k .. n PROVE cstack[i].thread = t
    OBVIOUS
  <2>1. i \in Index /\ n \in i .. n /\ \A j \in i + 1 .. n : j \in k + 1 .. n
    BY <1>1
  <2>2. \A j \in i + 1 .. n : cstack[j].kind # "resume"
    BY <2>1 DEF n
  <2>3. (\A j \in i + 1 .. n : cstack[j].kind # "resume") => cstack[i].thread = cstack[n].thread
    BY <2>1 DEF IInv, Segments, n
  <2> QED BY <1>1, <2>2, <2>3
<1>3. cstack[k].thread = t
  BY <1>1, <1>2
<1>4. m > 0 => /\ m \in Index /\ m < n /\ m + 1 = k
               /\ cstack[k].kind # "resume" => cstack[m].thread = t
               /\ cstack[k].kind = "resume" => cstack[m].thread # t
  <2>1. m > 0 => m \in Index /\ m < n /\ m + 1 = k
    BY <1>1 DEF m
  <2> QED BY <1>1, <1>3, <2>1, NextSame DEF n
<1>5. cstack[k].kind = "resume" => \A i \in 1 .. m : cstack[i].thread # t
  BY <1>1 DEF IInv, Segments, m, n
<1>6. m > 0 => LET u == cstack[m].thread IN
          /\ nCcalls'[u] = m
          /\ cstack[m].ci <= Len(frames'[u])
          /\ err' = "no" => cstack[m].ci < Len(frames'[u])
          /\ \A i \in 1 .. cstack[m].ci : frames'[u][i] = frames[u][i]
          /\ \A i \in cstack[m].ci + 1 .. Len(frames'[u]) - 1 : frames'[u][i] = "lua"
  <2> SUFFICES ASSUME m > 0
               PROVE  LET u == cstack[m].thread IN
          /\ nCcalls'[u] = m
          /\ cstack[m].ci <= Len(frames'[u])
          /\ err' = "no" => cstack[m].ci < Len(frames'[u])
          /\ \A i \in 1 .. cstack[m].ci : frames'[u][i] = frames[u][i]
          /\ \A i \in cstack[m].ci + 1 .. Len(frames'[u]) - 1 : frames'[u][i] = "lua"
    OBVIOUS
  <2> DEFINE u == cstack[m].thread
  <2>1. /\ m \in Index /\ cstack[m].ci \in Nat /\ Depth(m) \in Nat /\ u \in Thread
        /\ cstack[m].ci <= Depth(m)
        /\ cstack[m + 1].kind # "handler" => cstack[m].ci < Depth(m)
        /\ \A i \in cstack[m].ci + 1 .. Depth(m) - 1 : frames[u][i] = "lua"
    <3>1. m \in 1 .. n - 1
      BY <1>1, <1>4
    <3> QED BY <1>1, <1>4, <3>1, Types DEF IInv, Depths, n
  <2>2. Depth(m) = Len(frames'[u]) /\ \A i \in 1 .. Depth(m) : frames'[u][i] = frames[u][i]
    <3>1. CASE cstack[k].kind # "resume"
      <4>1. u = t /\ Depth(m) = cstack[k].ci
        BY <1>4, <3>1 DEF Depth, DepthIn, n
      <4>2. cstack[k].ci \in 0 .. Len(frames[t])
        BY <1>1, <1>3 DEF IInv, Depths
      <4>3. frames'[u] = SubSeq(frames[t], 1, cstack[k].ci)
        BY <3>1, <4>1 DEF t
      <4> QED BY <1>1, <4>1, <4>2, <4>3, PrefixFacts
    <3>2. CASE cstack[k].kind = "resume"
      <4>1. frames'[u] = frames[u]
        BY <1>4, <2>1, <3>2 DEF t
      <4> QED BY <1>4, <3>2, <4>1 DEF Depth, DepthIn, n
    <3> QED BY <3>1, <3>2
  <2>3. nCcalls'[u] = m
    <3>1. CASE cstack[k].kind # "resume"
      BY <1>4, <3>1 DEF t, m
    <3>2. CASE cstack[k].kind = "resume"
      <4>1. nCcalls'[u] = nCcalls[u]
        BY <1>4, <2>1, <3>2 DEF t
      <4> QED BY <1>4, <3>2, <4>1 DEF IInv, Counts
    <3> QED BY <3>1, <3>2
  <2>4. err' = "no" => cstack[m].ci < Depth(m)
    BY <1>4, <2>1
  <2>5. \A i \in 1 .. cstack[m].ci : i \in 1 .. Depth(m)
    BY <2>1
  <2>6. \A i \in cstack[m].ci + 1 .. Depth(m) - 1 : i \in 1 .. Depth(m)
    BY <2>1
  <2> QED BY <2>1, <2>2, <2>3, <2>4, <2>5, <2>6
<1>7. Bottom' /\ Segments' /\ Caught' /\ Counts' /\ Depths'
  <2>1. m \in 0 .. Len(cstack) /\ cstack' = SubSeq(cstack, 1, m)
    BY <1>1 DEF m, n
  <2>2. (m = 0 => err' = "no") /\ (m = ERRCCALLS => err' = "throw")
    BY <1>1, DoAssumption DEF m, n, IInv, Counts
  <2>3. \A u \in Thread :
                \/ u = cstack[m].thread
                \/ \A i \in 1 .. m : cstack[i].thread # u
                \/ frames'[u] = frames[u] /\ nCcalls'[u] = nCcalls[u]
    <3> SUFFICES ASSUME m > 0, cstack[m].thread # t
                 PROVE  \A i \in 1 .. m : cstack[i].thread # t
      BY <1>1 DEF t, m
    <3> QED BY <1>4, <1>5
  <2> QED BY <1>6, <2>1, <2>2, <2>3, ShrinkStep
<1>8. ASSUME NEW c \in Co
      PROVE  InChain(c)' <=> InChain(c) /\ ~(cstack[k].kind = "resume" /\ c = t)
  <2>1. Len(cstack') = m /\ \A i \in 1 .. m : cstack'[i] = cstack[i] /\ i \in Index
    <3>1. cstack \in Seq(Activation) /\ m \in 0 .. Len(cstack) /\ cstack' = SubSeq(cstack, 1, m)
      BY <1>1 DEF m, n, TypeOK
    <3>2. /\ Len(SubSeq(cstack, 1, m)) = m
          /\ \A i \in 1 .. m : SubSeq(cstack, 1, m)[i] = cstack[i]
      BY <3>1, PrefixFacts
    <3>3. \A i \in 1 .. m : i \in Index
      BY <1>1
    <3> QED BY <3>1, <3>2, <3>3
  <2>2. InChain(c)' <=> \E i \in 1 .. m : cstack[i].thread = c
    <3>1. InChain(c)' <=> \E i \in 1 .. Len(cstack') : cstack'[i].thread = c
      BY InChainNext
    <3>2. \A i \in 1 .. m : cstack'[i].thread = cstack[i].thread
      BY <2>1
    <3> QED BY <2>1, <3>1, <3>2
  <2>3. InChain(c) <=> \E i \in 1 .. n : cstack[i].thread = c
    BY <1>1, InChainIs
  <2>4. \A i \in 1 .. n : i \in 1 .. m \/ i \in k .. n
    BY <1>1 DEF m
  <2>5. CASE cstack[k].kind = "resume"
    BY <1>1, <1>2, <1>5, <2>1, <2>2, <2>3, <2>4, <2>5
  <2>6. CASE cstack[k].kind # "resume"
    <3>1. CASE m > 0
      <4>1. m \in 1 .. m /\ cstack[m].thread = t
        BY <1>1, <1>4, <2>6, <3>1
      <4> QED BY <1>1, <1>2, <2>1, <2>2, <2>3, <2>4, <2>6, <4>1
    <3>2. CASE m = 0
      <4>1. t = Main
        <5>1. k = 1 /\ cstack # <<>>
          BY <1>1, <3>2, Types DEF m
        <5> QED BY <1>3, <5>1 DEF IInv, Bottom
      <4> QED BY <1>1, <1>2, <2>1, <2>2, <2>3, <2>4, <2>6, <3>2, <4>1, DoAssumption
    <3> QED BY <1>1, <3>1, <3>2
  <2> QED BY <2>5, <2>6
<1>9. Waiting'
  <2>1. ASSUME NEW c \in Co, InChain(c)', c = t PROVE cstack'[Len(cstack')].thread = c
    <3>1. cstack[k].kind # "resume"
      BY <1>8, <2>1
    <3>2. /\ Len(cstack') = m /\ \A i \in 1 .. m : cstack'[i] = cstack[i]
      <4>1. cstack \in Seq(Activation) /\ k - 1 \in 0 .. Len(cstack)
        BY <1>1 DEF n, TypeOK
      <4> QED BY <4>1, PrefixFacts DEF m
    <3>3. m > 0 /\ m \in 1 .. m
      BY <1>1, <2>1, <3>2, InChainNext
    <3> QED BY <1>4, <2>1, <3>1, <3>2, <3>3
  <2> QED BY <1>8, <2>1, WaitingStep DEF t
<1> QED BY <1>3, <1>7, <1>8, <1>9 DEF t

\* What a running function's thread looks like.
LEMMA RunsFacts ==
    ASSUME IInv, NEW t, NEW f, Runs(t, f)
    PROVE  /\ cstack # <<>> /\ err = "no" /\ t = Top.thread /\ t \in Thread
           /\ Len(cstack) \in Nat \ {0} /\ Len(cstack) \in Index /\ t = cstack[Len(cstack)].thread
           /\ Top = cstack[Len(cstack)]
           /\ nCcalls[t] = Len(cstack) /\ InChain(t)
           /\ frames[t] \in Seq(Frame) /\ Len(frames[t]) \in Nat
           /\ Top.ci \in Nat /\ Top.ci < Len(frames[t])
           /\ Pop(frames[t]) \in Seq(Frame) /\ Len(Pop(frames[t])) = Len(frames[t]) - 1
           /\ \A i \in 1 .. Len(frames[t]) - 1 : Pop(frames[t])[i] = frames[t][i]
           /\ Pop(cstack) \in Seq(Activation)
           /\ \A i \in Top.ci + 1 .. Len(frames[t]) - 1 : frames[t][i] = "lua"
<1>1. TypeOK /\ cstack # <<>> /\ err = "no" /\ t = Top.thread
  BY DEF Runs, IInv
<1>2. /\ t \in Thread /\ Len(cstack) \in Nat \ {0} /\ Len(cstack) \in Index
      /\ t = cstack[Len(cstack)].thread /\ nCcalls[t] = Len(cstack)
      /\ Top = cstack[Len(cstack)]
      /\ Top.ci \in Nat /\ Top.ci < Len(frames[t]) /\ Depth(Len(cstack)) = Len(frames[t])
  BY <1>1, TopFacts
<1>3. frames[t] \in Seq(Frame) /\ Len(frames[t]) \in Nat /\ cstack \in Seq(Activation)
  BY <1>1, <1>2 DEF TypeOK
<1>4. Len(frames[t]) - 1 \in 0 .. Len(frames[t]) /\ Len(cstack) - 1 \in 0 .. Len(cstack)
  BY <1>2, <1>3
<1>5. /\ Pop(frames[t]) \in Seq(Frame) /\ Len(Pop(frames[t])) = Len(frames[t]) - 1
      /\ \A i \in 1 .. Len(frames[t]) - 1 : Pop(frames[t])[i] = frames[t][i]
      /\ Pop(cstack) \in Seq(Activation)
  BY <1>3, <1>4, PrefixFacts DEF Pop
<1>6. InChain(t)
  BY <1>1, <1>2, InChainIs
<1>7. \A i \in Top.ci + 1 .. Len(frames[t]) - 1 : frames[t][i] = "lua"
  BY <1>2 DEF IInv, Depths
<1> QED BY <1>1, <1>2, <1>3, <1>5, <1>6, <1>7

\* A return within an activation.
LEMMA ReturnLuaStep ==
    ASSUME IInv, NEW t \in Thread, Return(t), Len(frames[t]) - 1 # Top.ci
    PROVE  IInv'
<1> DEFINE n == Len(cstack)
           L == Len(frames[t])
<1>1. PICK g \in Frame : Runs(t, g)
  BY DEF Return
<1>2. /\ cstack # <<>> /\ t = Top.thread /\ n \in Nat \ {0} /\ n \in Index /\ t = cstack[n].thread
      /\ n \in 0 .. Len(cstack) /\ Index = 1 .. n /\ TypeOK
      /\ Top = cstack[n] /\ nCcalls[t] = n /\ InChain(t) /\ L \in Nat
      /\ cstack[n].ci \in Nat /\ cstack[n].ci < L - 1
      /\ Pop(frames[t]) \in Seq(Frame) /\ Len(Pop(frames[t])) = L - 1
      /\ \A i \in 1 .. L - 1 : Pop(frames[t])[i] = frames[t][i]
      /\ \A i \in cstack[n].ci + 1 .. L - 1 : frames[t][i] = "lua"
  <2>1. TypeOK /\ Index = 1 .. n
    BY DEF Index, IInv
  <2>2. n \in 0 .. Len(cstack)
    BY <1>1, RunsFacts
  <2>3. /\ cstack[n].ci \in Nat /\ cstack[n].ci < L /\ L \in Nat /\ cstack[n].ci # L - 1
    BY <1>1, RunsFacts
  <2>4. cstack[n].ci < L - 1
    BY <2>3
  <2>5. /\ cstack # <<>> /\ t = Top.thread /\ n \in Nat \ {0} /\ n \in Index /\ t = cstack[n].thread
        /\ Top = cstack[n] /\ nCcalls[t] = n /\ InChain(t)
    BY <1>1, RunsFacts
  <2>6. /\ Pop(frames[t]) \in Seq(Frame) /\ Len(Pop(frames[t])) = L - 1
        /\ \A i \in 1 .. L - 1 : Pop(frames[t])[i] = frames[t][i]
        /\ \A i \in cstack[n].ci + 1 .. L - 1 : frames[t][i] = "lua"
    BY <1>1, RunsFacts
  <2> QED BY <2>1, <2>2, <2>3, <2>4, <2>5, <2>6
<1>3. /\ frames' = [frames EXCEPT ![t] = Pop(@)] /\ err' = "no"
      /\ UNCHANGED <<cstack, nCcalls, errfunc, status, left, baseCcalls>>
  BY DEF Return
<1>4. /\ frames'[t] = Pop(frames[t]) /\ \A u \in Thread : u # t => frames'[u] = frames[u]
      /\ frames' \in [Thread -> Seq(Frame)]
  BY <1>2, <1>3 DEF TypeOK
<1>5. TypeOK' /\ cstack' = SubSeq(cstack, 1, n)
  <2>1. SubSeq(cstack, 1, n) = cstack
    BY DEF IInv, TypeOK
  <2> QED BY <1>2, <1>3, <1>4, <2>1 DEF TypeOK
<1>6. n = ERRCCALLS => err' = "throw"
  BY <1>1 DEF IInv, Counts, Runs
<1> HIDE DEF n, L
<1>7. Bottom' /\ Segments' /\ Caught' /\ Counts' /\ Depths'
  <2>1. n > 0 => LET u == cstack[n].thread IN
                /\ nCcalls'[u] = n
                /\ cstack[n].ci <= Len(frames'[u])
                /\ err' = "no" => cstack[n].ci < Len(frames'[u])
                /\ \A i \in 1 .. cstack[n].ci : frames'[u][i] = frames[u][i]
                /\ \A i \in cstack[n].ci + 1 .. Len(frames'[u]) - 1 : frames'[u][i] = "lua"
    <3>1. /\ \A i \in 1 .. cstack[n].ci : i \in 1 .. L - 1
          /\ \A i \in cstack[n].ci + 1 .. (L - 1) - 1 : i \in 1 .. L - 1 /\ i \in cstack[n].ci + 1 .. L - 1
      BY <1>2
    <3>2. /\ \A i \in 1 .. cstack[n].ci : frames'[t][i] = frames[t][i]
          /\ \A i \in cstack[n].ci + 1 .. (L - 1) - 1 : frames'[t][i] = "lua"
      BY <1>2, <1>4, <3>1
    <3>3. Len(frames'[t]) = L - 1 /\ nCcalls'[t] = n /\ cstack[n].ci <= L - 1
      BY <1>2, <1>3, <1>4
    <3> QED BY <1>2, <3>2, <3>3
  <2>2. \A u \in Thread :
                \/ u = cstack[n].thread
                \/ \A k \in 1 .. n : cstack[k].thread # u
                \/ frames'[u] = frames[u] /\ nCcalls'[u] = nCcalls[u]
    BY <1>2, <1>3, <1>4
  <2>3. n = 0 => err' = "no"
    BY <1>2
  <2> QED BY <1>2, <1>3, <1>5, <1>6, <2>1, <2>2, <2>3, ShrinkStep
<1>8. Outside'
  <2>1. \A c \in Co : InChain(c)' <=> InChain(c)
    BY <1>2, <1>3, <1>5, InChainIs, InChainNext DEF n
  <2>2. \A c \in Co : status[c] = "yield" => c # t
    BY <1>2 DEF IInv, Outside
  <2> QED BY <1>2, <1>3, <1>4, <2>1, <2>2 DEF IInv, Outside
<1>9. Waiting'
  <2>1. \A c \in Co : InChain(c)' <=> InChain(c)
    BY <1>2, <1>3, <1>5, InChainIs, InChainNext DEF n
  <2> QED BY <1>2, <1>3, <1>4, <2>1, WaitingStep DEF n
<1> QED BY <1>5, <1>7, <1>8, <1>9 DEF IInv

\* A return that ends an activation.
LEMMA ReturnEndStep ==
    ASSUME IInv, NEW t \in Thread, Return(t), Len(frames[t]) - 1 = Top.ci
    PROVE  /\ IInv'
           /\ \A c \in Co : InChain(c)' <=> InChain(c) /\ ~(Top.kind = "resume" /\ c = t)
<1> DEFINE n == Len(cstack)
<1>1. PICK g \in Frame : Runs(t, g)
  BY DEF Return
<1>2. /\ cstack # <<>> /\ t = Top.thread /\ n \in Nat \ {0} /\ n \in Index /\ t = cstack[n].thread
      /\ Index = 1 .. n /\ TypeOK /\ Top = cstack[n] /\ nCcalls[t] = n /\ InChain(t)
      /\ Len(frames[t]) = Top.ci + 1 /\ Top.ci \in Nat
      /\ Pop(frames[t]) \in Seq(Frame) /\ Len(Pop(frames[t])) = Top.ci
      /\ Pop(frames[t]) = SubSeq(frames[t], 1, Top.ci)
      /\ Pop(cstack) \in Seq(Activation) /\ Pop(cstack) = SubSeq(cstack, 1, n - 1)
  BY <1>1, RunsFacts DEF Index, IInv, Pop
<1>3. /\ frames' = [frames EXCEPT ![t] = Pop(@)] /\ cstack' = Pop(cstack)
      /\ nCcalls' = [nCcalls EXCEPT ![t] = @ - 1]
      /\ errfunc' = [errfunc EXCEPT ![t] = Top.errfunc]
      /\ UNCHANGED <<status, baseCcalls>>
  BY DEF Return
<1>4. /\ Top.kind = "resume" => \/ left' = [left EXCEPT ![t] = "empty"] /\ UNCHANGED err
                                \/ left' = [left EXCEPT ![t] = "results"] /\ err' = "msg"
      /\ Top.kind # "resume" => /\ err' = (IF Top.kind = "handler" THEN "throw" ELSE "no")
                                /\ UNCHANGED left
  BY DEF Return
<1>5. err = "no" /\ \A i \in n + 1 .. n : FALSE
  BY <1>1, <1>2, RunsFacts
<1>6. /\ frames'[t] = SubSeq(frames[t], 1, Top.ci)
      /\ \A u \in Thread : u # t => frames'[u] = frames[u] /\ nCcalls'[u] = nCcalls[u]
      /\ nCcalls'[t] = n - 1
      /\ frames' \in [Thread -> Seq(Frame)] /\ nCcalls' \in [Thread -> Nat]
  BY <1>2, <1>3 DEF TypeOK
<1>7. TypeOK'
  <2>1. errfunc' \in [Thread -> BOOLEAN]
    BY <1>2, <1>3, Types DEF TypeOK
  <2>2. left' \in [Thread -> {"none", "empty", "function", "results"}] /\ err' \in {"no", "msg", "throw"}
    BY <1>2, <1>4, <1>5 DEF TypeOK
  <2> QED BY <1>2, <1>3, <1>6, <2>1, <2>2 DEF TypeOK
<1>8. n = 1 => err' = "no"
  <2>1. n = 1 => Top.kind = "pcall"
    BY <1>2 DEF IInv, Bottom
  <2> QED BY <1>4, <2>1
<1>9. err' = "no" => Top.kind # "handler"
  BY <1>4
<1>10. /\ Bottom' /\ Segments' /\ Caught' /\ Counts' /\ Depths' /\ Waiting'
       /\ \A c \in Co : InChain(c)' <=> InChain(c) /\ ~(Top.kind = "resume" /\ c = t)
  <2>1. /\ \A i \in n + 1 .. Len(cstack) : cstack[i].kind # "resume"
        /\ cstack' = SubSeq(cstack, 1, n - 1)
    BY <1>2, <1>3, <1>5
  <2>2. /\ frames'[Top.thread] = SubSeq(frames[Top.thread], 1, cstack[n].ci)
        /\ nCcalls'[Top.thread] = n - 1
        /\ \A u \in Thread : u # Top.thread =>
               frames'[u] = frames[u] /\ nCcalls'[u] = nCcalls[u]
        /\ err' = "no" => cstack[n].kind # "handler"
        /\ n \in Index /\ UNCHANGED baseCcalls
    BY <1>2, <1>3, <1>6, <1>9
  <2> HIDE DEF n
  <2>3. /\ Bottom' /\ Segments' /\ Caught' /\ Counts' /\ Depths' /\ Waiting'
        /\ \A c \in Co : InChain(c)' <=>
                InChain(c) /\ ~(cstack[n].kind = "resume" /\ c = Top.thread)
    BY <1>7, <1>8, <2>1, <2>2, UnwindStep
  <2> QED BY <1>2, <2>3
<1>11. Outside'
  <2>1. Top.kind = "resume" => t \in Co /\ Top.ci = 0 /\ frames'[t] = <<>>
    BY <1>2, <1>6, PrefixFacts DEF IInv, Segments
  <2>2. \A c \in Co : status[c] = "yield" => c # t
    BY <1>2 DEF IInv, Outside
  <2>3. \A c \in Thread : \/ left'[c] = left[c]
                          \/ Top.kind = "resume" /\ c = t /\ left'[c] # "none"
    BY <1>2, <1>4 DEF TypeOK
  <2>4. /\ \A c \in Co : InChain(c) => status[c] = "ok" /\ left[c] # "none"
        /\ \A c \in Co : ~InChain(c) /\ status[c] = "ok" => frames[c] = <<>>
        /\ \A c \in Co : status[c] = "yield" =>
             \A i \in 1 .. Len(frames[c]) - 1 : frames[c][i] = "lua"
        /\ \A c \in Co : left[c] = "none" => status[c] = "ok"
    BY DEF IInv, Outside
  <2>5. \A c \in Co : c # t => frames'[c] = frames[c]
    BY <1>6
  <2>6. \A c \in Co : InChain(c)' => status[c] = "ok" /\ left'[c] # "none"
    BY <1>10, <2>3, <2>4
  <2>7. \A c \in Co : ~InChain(c)' /\ status[c] = "ok" => frames'[c] = <<>>
    BY <1>2, <1>10, <2>1, <2>4, <2>5
  <2>8. \A c \in Co : status[c] = "yield" =>
             \A i \in 1 .. Len(frames'[c]) - 1 : frames'[c][i] = "lua"
    BY <2>2, <2>4, <2>5
  <2>9. \A c \in Co : left'[c] = "none" => status[c] = "ok"
    BY <2>3, <2>4
  <2> QED BY <1>3, <2>6, <2>7, <2>8, <2>9 DEF Outside
<1> QED BY <1>7, <1>10, <1>11 DEF IInv

\* Only the activation of its lua_resume is on top of a thread that can yield.
LEMMA YieldFacts ==
    ASSUME IInv, NEW t, Runs(t, "c"), Yieldable(t)
    PROVE  Top.kind = "resume" /\ t \in Co /\ Top.ci = 0
<1> DEFINE n == Len(cstack)
<1>1. /\ n \in Nat \ {0} /\ n \in Index /\ t = cstack[n].thread /\ t \in Thread /\ nCcalls[t] = n
      /\ Top = cstack[n]
  BY RunsFacts
<1>2. baseCcalls[t] \in Nat /\ n <= baseCcalls[t]
  BY <1>1 DEF Yieldable, IInv, TypeOK
<1>3. t \in Co
  BY <1>1, <1>2 DEF IInv, Segments
<1>4. LET b == baseCcalls[t] IN b \in 1 .. n /\ cstack[b].kind = "resume"
  BY <1>1, <1>3 DEF IInv, Segments
<1>5. baseCcalls[t] = n
  BY <1>1, <1>2, <1>4
<1>6. cstack[n].kind = "resume"
  BY <1>4, <1>5
<1> QED BY <1>1, <1>3, <1>6 DEF IInv, Segments

\* A coroutine that yields leaves the C stack, and has no activation there.
LEMMA YieldStep ==
    ASSUME IInv, NEW t \in Thread, Yield(t), Yieldable(t)
    PROVE  /\ IInv'
           /\ \A c \in Co : InChain(c)' <=> InChain(c) /\ c # t
<1> DEFINE n == Len(cstack)
<1>0. Runs(t, "c")
  BY DEF Yield
<1>1. /\ t = Top.thread /\ n \in Nat \ {0} /\ n \in Index /\ Index = 1 .. n /\ TypeOK /\ Top = cstack[n]
      /\ nCcalls[t] = n /\ Pop(cstack) \in Seq(Activation) /\ Pop(cstack) = SubSeq(cstack, 1, n - 1)
      /\ \A i \in Top.ci + 1 .. Len(frames[t]) - 1 : frames[t][i] = "lua"
      /\ err = "no" /\ cstack # <<>>
  BY <1>0, RunsFacts DEF Index, IInv, Pop
<1>2. Top.kind = "resume" /\ t \in Co /\ Top.ci = 0
  BY <1>0, YieldFacts
<1>3. /\ status' = [status EXCEPT ![t] = "yield"] /\ cstack' = Pop(cstack)
      /\ nCcalls' = [nCcalls EXCEPT ![t] = @ - 1]
      /\ UNCHANGED <<frames, left, baseCcalls, errfunc, err>>
  BY DEF Yield
<1>4. \A u \in Thread : u # t => nCcalls'[u] = nCcalls[u] /\ status'[u] = status[u]
  BY <1>3 DEF IInv, TypeOK
<1>5. TypeOK' /\ status'[t] = "yield"
  BY <1>1, <1>3 DEF TypeOK
<1>6. /\ Bottom' /\ Segments' /\ Caught' /\ Counts' /\ Depths' /\ Waiting'
      /\ \A c \in Co : InChain(c)' <=> InChain(c) /\ c # t
  <2>1. /\ \A i \in n + 1 .. Len(cstack) : cstack[i].kind # "resume"
        /\ cstack' = SubSeq(cstack, 1, n - 1)
        /\ cstack[n].kind = "resume"
        /\ \A u \in Thread : u # Top.thread =>
               frames'[u] = frames[u] /\ nCcalls'[u] = nCcalls[u]
        /\ n = 1 => err' = "no"
    BY <1>1, <1>2, <1>3, <1>4
  <2> HIDE DEF n
  <2>2. /\ Bottom' /\ Segments' /\ Caught' /\ Counts' /\ Depths' /\ Waiting'
        /\ \A c \in Co : InChain(c)' <=>
                InChain(c) /\ ~(cstack[n].kind = "resume" /\ c = Top.thread)
    BY <1>1, <1>3, <1>5, <2>1, UnwindStep
  <2> QED BY <1>1, <2>1, <2>2
<1>7. Outside'
  <2>1. /\ \A c \in Co : InChain(c) => status[c] = "ok" /\ left[c] # "none"
        /\ \A c \in Co : ~InChain(c) /\ status[c] = "ok" => frames[c] = <<>>
        /\ \A c \in Co : status[c] = "yield" =>
             \A i \in 1 .. Len(frames[c]) - 1 : frames[c][i] = "lua"
        /\ \A c \in Co : left[c] = "none" => status[c] = "ok"
    BY DEF IInv, Outside
  <2>2. InChain(t)
    BY <1>0, RunsFacts
  <2>3. \A i \in 1 .. Len(frames[t]) - 1 : frames[t][i] = "lua"
    BY <1>1, <1>2
  <2>4. \A c \in Co : status'[c] = "yield" =>
             \A i \in 1 .. Len(frames[c]) - 1 : frames[c][i] = "lua"
    BY <1>4, <2>1, <2>3
  <2>5. \A c \in Co : InChain(c)' => status'[c] = "ok" /\ left[c] # "none"
    BY <1>4, <1>6, <2>1
  <2>6. \A c \in Co : ~InChain(c)' /\ status'[c] = "ok" => frames[c] = <<>>
    BY <1>4, <1>5, <1>6, <2>1
  <2>7. \A c \in Co : left[c] = "none" => status'[c] = "ok"
    BY <1>2, <1>4, <2>1, <2>2
  <2> QED BY <1>3, <2>4, <2>5, <2>6, <2>7 DEF Outside
<1> QED BY <1>5, <1>6, <1>7 DEF IInv

\* Where an error is caught: no resume is passed over.
LEMMA CatchFacts ==
    ASSUME IInv, cstack # <<>>
    PROVE  /\ Catch \in Index /\ cstack[Catch].kind \in {"pcall", "resume"}
           /\ \A i \in Catch + 1 .. Len(cstack) : cstack[i].kind \notin {"pcall", "resume"}
           /\ cstack[Catch].thread = Top.thread
<1> DEFINE n == Len(cstack)
<1>1. n \in Index /\ DOMAIN cstack = Index /\ Index = 1 .. n /\ n \in Nat /\ Top = cstack[n]
  BY TopFacts, Types DEF IInv, Index
<1>2. \E k \in DOMAIN cstack :
            /\ cstack[k].kind \in {"pcall", "resume"}
            /\ \A j \in k + 1 .. Len(cstack) : cstack[j].kind \notin {"pcall", "resume"}
  BY <1>1 DEF IInv, Caught
<1>3. /\ Catch \in Index /\ cstack[Catch].kind \in {"pcall", "resume"}
      /\ \A i \in Catch + 1 .. n : cstack[i].kind \notin {"pcall", "resume"}
  BY <1>1, <1>2 DEF Catch
<1> HIDE DEF n
<1>4. n \in Catch .. n /\ \A i \in Catch + 1 .. n : cstack[i].kind # "resume"
  BY <1>1, <1>3
<1>5. cstack[Catch].thread = cstack[n].thread
  BY <1>3, <1>4 DEF IInv, Segments, n
<1> QED BY <1>1, <1>3, <1>5 DEF n

\* luaD_throw: the thread of a protected call is as it was, a coroutine that
\* was resumed is dead.
LEMMA ThrowStep ==
    ASSUME IInv, luaD_throw
    PROVE  /\ IInv' /\ cstack # <<>>
           /\ \A c \in Co : InChain(c)' <=>
                InChain(c) /\ ~(cstack[Catch].kind = "resume" /\ c = Top.thread)
<1> DEFINE n == Len(cstack)
           k == Catch
           t == Top.thread
<1>1. /\ TypeOK /\ cstack # <<>> /\ k \in Index /\ cstack[k].kind \in {"pcall", "resume"}
      /\ \A i \in k + 1 .. Len(cstack) : cstack[i].kind # "resume"
      /\ cstack[k].thread = t /\ t \in Thread /\ n \in Nat \ {0} /\ nCcalls[t] = n /\ Index = 1 .. n
      /\ cstack[k].ci \in Nat /\ cstack[k].nCcalls \in Nat /\ cstack[k].errfunc \in BOOLEAN
      /\ n \in Index /\ t = cstack[n].thread
  <2>1. cstack # <<>> /\ TypeOK
    BY DEF luaD_throw, IInv, Bottom
  <2> QED BY <2>1, CatchFacts, TopFacts, Types DEF Index
<1>2. InChain(t)
  BY <1>1, InChainIs
<1>3. err' = "no" /\ cstack' = SubSeq(cstack, 1, k - 1) /\ UNCHANGED <<left, baseCcalls>>
  BY DEF luaD_throw
<1> HIDE DEF k, n, t
<1>4. /\ cstack[k].kind = "pcall" =>
           /\ frames' = [frames EXCEPT ![t] = SubSeq(@, 1, cstack[k].ci)]
           /\ nCcalls' = [nCcalls EXCEPT ![t] = k - 1]
           /\ errfunc' = [errfunc EXCEPT ![t] = cstack[k].errfunc]
           /\ UNCHANGED status
      /\ cstack[k].kind = "resume" =>
           /\ status' = [status EXCEPT ![t] = "error"]
           /\ nCcalls' = [nCcalls EXCEPT ![t] = n - 1]
           /\ UNCHANGED <<frames, errfunc>>
  <2>1. cstack[k].nCcalls = k - 1
    BY <1>1 DEF IInv, Counts
  <2> QED BY <1>1, <2>1 DEF luaD_throw, luaD_pcall, lua_resume_error, k
<1>5. cstack[k].ci \in 0 .. Len(frames[t]) /\ SubSeq(frames[t], 1, cstack[k].ci) \in Seq(Frame)
  <2>1. frames[t] \in Seq(Frame) /\ Len(frames[t]) \in Nat
    BY <1>1 DEF TypeOK
  <2>2. cstack[k].ci \in 0 .. Len(frames[t])
    BY <1>1, <2>1 DEF IInv, Depths
  <2> QED BY <2>1, <2>2, PrefixFacts
<1>6. /\ \A u \in Thread : u # t => /\ frames'[u] = frames[u] /\ nCcalls'[u] = nCcalls[u]
                                    /\ status'[u] = status[u]
      /\ cstack[k].kind = "pcall" => /\ frames'[t] = SubSeq(frames[t], 1, cstack[k].ci)
                                     /\ nCcalls'[t] = k - 1 /\ UNCHANGED status
      /\ cstack[k].kind = "resume" => status'[t] = "error"
  BY <1>1, <1>4 DEF TypeOK
<1>7. TypeOK'
  <2>1. k - 1 \in 0 .. n /\ k - 1 \in Nat /\ n - 1 \in Nat
    BY <1>1
  <2>2. cstack' \in Seq(Activation)
    BY <1>3, <2>1, PrefixFacts DEF IInv, TypeOK, n
  <2>3. frames' \in [Thread -> Seq(Frame)] /\ nCcalls' \in [Thread -> Nat]
        /\ errfunc' \in [Thread -> BOOLEAN] /\ status' \in [Thread -> {"ok", "yield", "error"}]
    <3>1. /\ frames \in [Thread -> Seq(Frame)] /\ nCcalls \in [Thread -> Nat] /\ t \in Thread
          /\ errfunc \in [Thread -> BOOLEAN] /\ status \in [Thread -> {"ok", "yield", "error"}]
          /\ cstack[k].errfunc \in BOOLEAN /\ cstack[k].kind \in {"pcall", "resume"}
      BY <1>1 DEF TypeOK
    <3> HIDE DEF Thread, Frame
    <3>2. CASE cstack[k].kind = "pcall"
      <4>1. frames' \in [Thread -> Seq(Frame)]
        <5>1. frames' = [frames EXCEPT ![t] = SubSeq(frames[t], 1, cstack[k].ci)]
          BY <1>4, <3>2
        <5>2. SubSeq(frames[t], 1, cstack[k].ci) \in Seq(Frame)
          BY <1>5
        <5>3. frames \in [Thread -> Seq(Frame)] /\ t \in Thread
          BY <3>1
        <5>4. [frames EXCEPT ![t] = SubSeq(frames[t], 1, cstack[k].ci)] \in [Thread -> Seq(Frame)]
          BY <5>2, <5>3, UpdateType
        <5> QED BY <5>1, <5>4
      <4>2. nCcalls' \in [Thread -> Nat] /\ status' = status
        <5>1. nCcalls' = [nCcalls EXCEPT ![t] = k - 1] /\ status' = status
          BY <1>4, <3>2
        <5>2. nCcalls \in [Thread -> Nat] /\ t \in Thread /\ k - 1 \in Nat
          BY <2>1, <3>1
        <5>3. [nCcalls EXCEPT ![t] = k - 1] \in [Thread -> Nat]
          BY <5>2, UpdateType
        <5> QED BY <5>1, <5>3
      <4>3. errfunc' \in [Thread -> BOOLEAN]
        BY <1>4, <3>1, <3>2, Zenon
      <4> QED BY <3>1, <4>1, <4>2, <4>3
    <3>3. CASE cstack[k].kind = "resume"
      <4>1. UNCHANGED <<frames, errfunc>>
        BY <1>4, <3>3
      <4>2. nCcalls' \in [Thread -> Nat]
        BY <1>4, <2>1, <3>1, <3>3
      <4>3. status' \in [Thread -> {"ok", "yield", "error"}]
        BY <1>4, <3>1, <3>3
      <4> QED BY <3>1, <4>1, <4>2, <4>3
    <3> QED BY <3>1, <3>2, <3>3
  <2> QED BY <1>1, <1>3, <2>2, <2>3 DEF TypeOK
<1>8. /\ Bottom' /\ Segments' /\ Caught' /\ Counts' /\ Depths' /\ Waiting'
      /\ \A c \in Co : InChain(c)' <=> InChain(c) /\ ~(cstack[k].kind = "resume" /\ c = t)
  <2>1. /\ cstack[k].kind # "resume" =>
             frames'[t] = SubSeq(frames[t], 1, cstack[k].ci) /\ nCcalls'[t] = k - 1
        /\ \A u \in Thread : u # t => frames'[u] = frames[u] /\ nCcalls'[u] = nCcalls[u]
        /\ cstack[k].kind # "handler"
    BY <1>1, <1>6
  <2> QED BY <1>1, <1>3, <1>7, <2>1, UnwindStep DEF t
<1>9. Outside'
  <2>1. /\ \A c \in Co : InChain(c) => status[c] = "ok" /\ left[c] # "none"
        /\ \A c \in Co : ~InChain(c) /\ status[c] = "ok" => frames[c] = <<>>
        /\ \A c \in Co : status[c] = "yield" =>
             \A i \in 1 .. Len(frames[c]) - 1 : frames[c][i] = "lua"
        /\ \A c \in Co : left[c] = "none" => status[c] = "ok"
    BY DEF IInv, Outside
  <2>2. \A c \in Co : \/ c # t /\ frames'[c] = frames[c] /\ status'[c] = status[c]
                      \/ c = t /\ cstack[k].kind = "pcall" /\ status'[c] = "ok" /\ left[c] # "none"
                      \/ c = t /\ cstack[k].kind = "resume" /\ status'[c] = "error" /\ left[c] # "none"
    BY <1>1, <1>2, <1>6, <2>1
  <2>3. \A c \in Co : InChain(c)' => status'[c] = "ok" /\ left[c] # "none"
    BY <1>8, <2>1, <2>2
  <2>4. \A c \in Co : ~InChain(c)' /\ status'[c] = "ok" => frames'[c] = <<>>
    BY <1>2, <1>8, <2>1, <2>2
  <2>5. \A c \in Co : status'[c] = "yield" =>
             \A i \in 1 .. Len(frames'[c]) - 1 : frames'[c][i] = "lua"
    BY <2>1, <2>2
  <2>6. \A c \in Co : left[c] = "none" => status'[c] = "ok"
    BY <2>1, <2>2
  <2> QED BY <1>3, <2>3, <2>4, <2>5, <2>6 DEF Outside
<1> QED BY <1>1, <1>7, <1>8, <1>9 DEF IInv, k, t

----------------------------------------------------------------------------
(* lua_resume.                                                             *)

\* coroutine.status is right, of a coroutine c, for the thread on top.
LEMMA CostatusIs ==
    ASSUME IInv, cstack # <<>>, NEW c \in Co
    PROVE  costatus(Top.thread, c) \in {"running", "normal"} <=> InChain(c)
<1>1. Len(cstack) \in Index /\ Top = cstack[Len(cstack)]
  BY TopFacts
<1>2. InChain(c) => status[c] = "ok" /\ (c = Top.thread \/ frames[c] # <<>>)
  BY DEF IInv, Outside, Waiting
<1>3. ~InChain(c) => /\ c # Top.thread
                     /\ status[c] = "ok" => frames[c] = <<>>
  BY <1>1, InChainIs DEF IInv, Outside
<1>4. status[c] \in {"ok", "yield", "error"}
  BY DEF IInv, TypeOK
<1> QED BY <1>2, <1>3, <1>4 DEF costatus

\* A coroutine that can be resumed is not on the C stack.
LEMMA SuspendedFacts ==
    ASSUME IInv, cstack # <<>>, NEW c \in Co, left[c] # "none",
           costatus(Top.thread, c) = "suspended"
    PROVE  /\ ~InChain(c) /\ c # Top.thread
           /\ \A k \in Index : cstack[k].thread # c
           /\ \/ status[c] = "yield" /\ \A i \in 1 .. Len(frames[c]) - 1 : frames[c][i] = "lua"
              \/ status[c] = "ok" /\ frames[c] = <<>> /\ left[c] \in {"function", "results"}
<1>1. ~InChain(c)
  BY CostatusIs
<1>2. \A k \in Index : cstack[k].thread # c
  BY <1>1, InChainIs DEF IInv
<1>3. c # Top.thread
  BY <1>2, TopFacts
<1>4. status[c] = "yield" => \A i \in 1 .. Len(frames[c]) - 1 : frames[c][i] = "lua"
  BY DEF IInv, Outside
<1>5. status[c] # "yield" =>
          status[c] = "ok" /\ frames[c] = <<>> /\ left[c] \in {"function", "results"}
  BY <1>1, <1>3 DEF costatus, IInv, TypeOK, Outside
<1> QED BY <1>1, <1>2, <1>3, <1>4, <1>5

\* What a resume does, point by point.
LEMMA ResumeFacts ==
    ASSUME IInv, NEW t \in Thread, NEW c \in Co, Resume(t, c)
    PROVE  LET n == Len(cstack)
           IN  /\ Runs(t, "c") /\ ~InChain(c) /\ \A k \in Index : cstack[k].thread # c
               /\ c # t /\ left[c] # "none"
               /\ cstack' \in Seq(Activation) /\ Len(cstack') = n + 1
               /\ \A k \in 1 .. n : cstack'[k] = cstack[k]
               /\ cstack'[n + 1].kind = "resume" /\ cstack'[n + 1].thread = c
               /\ cstack'[n + 1].ci = 0 /\ cstack'[n + 1].nCcalls = n
               /\ frames' \in [Thread -> Seq(Frame)]
               /\ \A u \in Thread : u # c =>
                    /\ frames'[u] = frames[u] /\ nCcalls'[u] = nCcalls[u]
                    /\ baseCcalls'[u] = baseCcalls[u] /\ status'[u] = status[u]
                    /\ left'[u] = left[u]
               /\ err' = "no" => 0 < Len(frames'[c])
               /\ \A i \in 1 .. Len(frames'[c]) - 1 : frames'[c][i] = "lua"
               /\ nCcalls' \in [Thread -> Nat] /\ nCcalls'[c] = n + 1
               /\ baseCcalls' \in [Thread -> Nat] /\ baseCcalls'[c] = n + 1
               /\ err' \in {"no", "msg"} /\ n + 1 < ERRCCALLS
               /\ status' \in [Thread -> {"ok", "yield", "error"}] /\ status'[c] = "ok"
               /\ left' \in [Thread -> {"none", "empty", "function", "results"}]
               /\ left'[c] # "none"
               /\ UNCHANGED errfunc
<1> DEFINE n == Len(cstack)
           a == [kind |-> "resume", thread |-> c, ci |-> 0, nCcalls |-> n, errfunc |-> FALSE]
<1>1. Runs(t, "c") /\ c # t /\ left[c] # "none" /\ costatus(t, c) = "suspended"
  BY DEF Resume
<1>2. /\ cstack # <<>> /\ err = "no" /\ t = Top.thread /\ n \in Nat \ {0} /\ nCcalls[t] = n
      /\ TypeOK /\ c \in Thread
  BY <1>1, RunsFacts DEF IInv
<1>3. /\ ~InChain(c) /\ \A k \in Index : cstack[k].thread # c
      /\ \/ status[c] = "yield" /\ \A i \in 1 .. Len(frames[c]) - 1 : frames[c][i] = "lua"
         \/ status[c] = "ok" /\ frames[c] = <<>> /\ left[c] \in {"function", "results"}
  BY <1>1, <1>2, SuspendedFacts
<1>4. /\ nCcalls' = [nCcalls EXCEPT ![c] = n + 1] /\ baseCcalls' = [baseCcalls EXCEPT ![c] = n + 1]
      /\ cstack' = Append(cstack, a) /\ UNCHANGED errfunc /\ n < MAXCCALLS
  BY <1>2 DEF Resume, Level
<1>5. /\ status[c] = "ok" =>
           /\ left' = [left EXCEPT ![c] = "empty"] /\ UNCHANGED status
           /\ \/ \E f \in Frame : frames' = [frames EXCEPT ![c] = <<f>>] /\ err' = "no"
              \/ err' = "msg" /\ UNCHANGED frames
      /\ status[c] # "ok" =>
           /\ Len(frames[c]) > 1 /\ status' = [status EXCEPT ![c] = "ok"]
           /\ frames' = [frames EXCEPT ![c] = Pop(@)] /\ UNCHANGED left /\ err' = "no"
  BY <1>2 DEF Resume
<1>6. a \in Activation
  BY <1>2 DEF Activation
<1>7. /\ cstack' \in Seq(Activation) /\ Len(cstack') = n + 1
      /\ \A k \in 1 .. n : cstack'[k] = cstack[k]
      /\ cstack'[n + 1] = a
  BY <1>2, <1>4, <1>6, AppendFacts DEF TypeOK
<1>8. n + 1 < ERRCCALLS
  BY <1>2, <1>4, DoAssumption
<1>9. /\ nCcalls' \in [Thread -> Nat] /\ nCcalls'[c] = n + 1
      /\ baseCcalls' \in [Thread -> Nat] /\ baseCcalls'[c] = n + 1
      /\ \A u \in Thread : u # c => nCcalls'[u] = nCcalls[u] /\ baseCcalls'[u] = baseCcalls[u]
  BY <1>2, <1>4 DEF TypeOK
<1>10. /\ frames' \in [Thread -> Seq(Frame)] /\ err' \in {"no", "msg"}
       /\ \A u \in Thread : u # c => frames'[u] = frames[u]
       /\ err' = "no" => 0 < Len(frames'[c])
       /\ \A i \in 1 .. Len(frames'[c]) - 1 : frames'[c][i] = "lua"
  <2>1. frames \in [Thread -> Seq(Frame)] /\ frames[c] \in Seq(Frame) /\ Len(frames[c]) \in Nat
    BY <1>2 DEF TypeOK
  <2>2. CASE status[c] # "ok"
    <3>1. frames' = [frames EXCEPT ![c] = Pop(frames[c])] /\ err' = "no" /\ Len(frames[c]) > 1
      BY <1>5, <2>2
    <3>2. Len(frames[c]) - 1 \in 0 .. Len(frames[c])
      BY <2>1, <3>1
    <3>3. /\ Pop(frames[c]) \in Seq(Frame) /\ Len(Pop(frames[c])) = Len(frames[c]) - 1
          /\ \A i \in 1 .. Len(frames[c]) - 1 : Pop(frames[c])[i] = frames[c][i]
      BY <2>1, <3>2, PrefixFacts DEF Pop
    <3>4. frames'[c] = Pop(frames[c])
      BY <1>2, <2>1, <3>1
    <3>5. \A i \in 1 .. Len(frames[c]) - 1 : frames[c][i] = "lua"
      BY <1>3, <2>2
    <3>6. \A i \in 1 .. (Len(frames[c]) - 1) - 1 : frames'[c][i] = "lua"
      BY <2>1, <3>3, <3>4, <3>5
    <3> QED BY <1>2, <2>1, <3>1, <3>3, <3>4, <3>6
  <2>3. CASE \E f \in Frame : frames' = [frames EXCEPT ![c] = <<f>>] /\ err' = "no"
    <3>1. PICK f \in Frame : frames' = [frames EXCEPT ![c] = <<f>>] /\ err' = "no"
      BY <2>3
    <3>2. /\ frames' \in [Thread -> Seq(Frame)] /\ frames'[c] = <<f>>
          /\ \A u \in Thread : u # c => frames'[u] = frames[u]
      BY <1>2, <2>1, <3>1
    <3>3. Len(frames'[c]) = 1
      BY <3>2
    <3> QED BY <3>1, <3>2, <3>3
  <2>4. CASE status[c] = "ok" /\ err' = "msg" /\ UNCHANGED frames
    BY <1>2, <1>3, <2>1, <2>4
  <2> QED BY <1>5, <2>2, <2>3, <2>4
<1>11. /\ status' \in [Thread -> {"ok", "yield", "error"}] /\ status'[c] = "ok"
       /\ left' \in [Thread -> {"none", "empty", "function", "results"}] /\ left'[c] # "none"
       /\ \A u \in Thread : u # c => status'[u] = status[u] /\ left'[u] = left[u]
  BY <1>1, <1>2, <1>5 DEF TypeOK
<1> QED BY <1>1, <1>3, <1>4, <1>7, <1>8, <1>9, <1>10, <1>11

\* A resume keeps the invariant: the coroutine has a segment of its own.
LEMMA ResumeStep ==
    ASSUME IInv, NEW t \in Thread, NEW c \in Co, Resume(t, c)
    PROVE  /\ IInv'
           /\ \A d \in Co : InChain(d)' <=> InChain(d) \/ d = c
<1> DEFINE n == Len(cstack)
           L == Len(frames[t])
<1>1. /\ Runs(t, "c") /\ ~InChain(c) /\ \A k \in Index : cstack[k].thread # c
      /\ c # t /\ left[c] # "none"
      /\ cstack' \in Seq(Activation) /\ Len(cstack') = n + 1
      /\ \A k \in 1 .. n : cstack'[k] = cstack[k]
      /\ cstack'[n + 1].kind = "resume" /\ cstack'[n + 1].thread = c
      /\ cstack'[n + 1].ci = 0 /\ cstack'[n + 1].nCcalls = n
      /\ frames' \in [Thread -> Seq(Frame)]
      /\ \A u \in Thread : u # c =>
           /\ frames'[u] = frames[u] /\ nCcalls'[u] = nCcalls[u]
           /\ baseCcalls'[u] = baseCcalls[u] /\ status'[u] = status[u]
           /\ left'[u] = left[u]
      /\ err' = "no" => 0 < Len(frames'[c])
      /\ \A i \in 1 .. Len(frames'[c]) - 1 : frames'[c][i] = "lua"
      /\ nCcalls' \in [Thread -> Nat] /\ nCcalls'[c] = n + 1
      /\ baseCcalls' \in [Thread -> Nat] /\ baseCcalls'[c] = n + 1
      /\ err' \in {"no", "msg"} /\ n + 1 < ERRCCALLS
      /\ status' \in [Thread -> {"ok", "yield", "error"}] /\ status'[c] = "ok"
      /\ left' \in [Thread -> {"none", "empty", "function", "results"}]
      /\ left'[c] # "none"
      /\ UNCHANGED errfunc
  BY ResumeFacts
<1>2. /\ n \in Nat \ {0} /\ n \in Index /\ t = cstack[n].thread /\ nCcalls[t] = n /\ Depth(n) = L
      /\ L \in Nat /\ cstack[n].ci < L /\ cstack[n].ci \in Nat /\ t = Top.thread
  BY <1>1, RunsFacts, TopFacts
<1> HIDE DEF n, L
<1>3. TypeOK'
  BY <1>1 DEF IInv, TypeOK
<1>4. /\ Index = 1 .. n /\ Index' = 1 .. n + 1 /\ Len(cstack) = n /\ Len(cstack') = n + 1
      /\ \A k \in Index' : k \in Index \/ k = n + 1
      /\ \A k \in Index : /\ cstack'[k] = cstack[k] /\ k \in Nat /\ 1 <= k /\ k <= n
                          /\ cstack[k].thread \in Thread /\ cstack[k].ci \in Nat
                          /\ cstack[k].thread # c
      /\ \A k \in Index : k < n => k + 1 \in Index
      /\ TypeOK /\ c # Main
  <2>1. Index = 1 .. n /\ Len(cstack) = n /\ Len(cstack') = n + 1 /\ Index' = 1 .. n + 1
    BY <1>1 DEF Index, n
  <2>2. TypeOK /\ c # Main
    BY DoAssumption DEF IInv
  <2>3. \A k \in Index : /\ cstack[k].thread \in Thread /\ cstack[k].ci \in Nat
                         /\ cstack[k].thread # c
    BY <1>1, <2>2, Types
  <2>4. \A k \in Index : cstack'[k] = cstack[k]
    BY <1>1, <2>1
  <2>5. /\ \A k \in Index' : k \in Index \/ k = n + 1
        /\ \A k \in Index : k \in Nat /\ 1 <= k /\ k <= n /\ (k < n => k + 1 \in Index)
    BY <1>2, <2>1
  <2> QED BY <2>1, <2>2, <2>3, <2>4, <2>5
<1>20. /\ cstack'[n + 1].kind = "resume" /\ cstack'[n + 1].thread = c
       /\ cstack'[n + 1].ci = 0 /\ cstack'[n + 1].nCcalls = n
       /\ nCcalls'[c] = n + 1 /\ baseCcalls'[c] = n + 1
  BY <1>1
<1>21. \A k \in Index : frames'[cstack[k].thread] = frames[cstack[k].thread]
                     /\ nCcalls'[cstack[k].thread] = nCcalls[cstack[k].thread]
                     /\ baseCcalls'[cstack[k].thread] = baseCcalls[cstack[k].thread]
  BY <1>1, <1>4
<1>5. Bottom'
  <2>1. cstack[1].kind = "pcall" /\ cstack[1].thread = Main /\ 1 \in Index
    BY <1>2, <1>4, Types DEF IInv, Bottom
  <2> QED BY <1>1, <1>2, <1>4, <2>1 DEF Bottom
<1>6. Segments'
  <2>1. /\ \A k \in Index : cstack[k].kind = "resume" =>
             /\ cstack[k].thread \in Co /\ baseCcalls[cstack[k].thread] = k /\ cstack[k].ci = 0
             /\ \A i \in 1 .. k - 1, j \in k .. n : cstack[i].thread # cstack[j].thread
        /\ \A i \in Index : \A j \in i .. n :
             (\A k \in i + 1 .. j : cstack[k].kind # "resume") => cstack[i].thread = cstack[j].thread
        /\ \A k \in Index : cstack[k].thread \in Co =>
             LET b == baseCcalls[cstack[k].thread] IN
             b \in 1 .. k /\ cstack[b].kind = "resume" /\ cstack[b].thread = cstack[k].thread
        /\ baseCcalls[Main] = 0
    BY DEF IInv, Segments, n
  <2>2. \A k \in Index : baseCcalls'[cstack[k].thread] = baseCcalls[cstack[k].thread]
    BY <1>21
  <2>3. ASSUME NEW k \in Index', cstack'[k].kind = "resume"
        PROVE  cstack'[k].thread \in Co /\ baseCcalls'[cstack'[k].thread] = k /\ cstack'[k].ci = 0
    <3>1. CASE k = n + 1
      BY <1>20, <3>1
    <3>2. CASE k \in Index
      <4>1. cstack'[k] = cstack[k]
        BY <1>4, <3>2
      <4> QED BY <2>1, <2>2, <2>3, <3>2, <4>1
    <3> QED BY <1>4, <3>1, <3>2
  <2>4. ASSUME NEW k \in Index', cstack'[k].kind = "resume",
               NEW i \in 1 .. k - 1, NEW j \in k .. n + 1
        PROVE  cstack'[i].thread # cstack'[j].thread
    <3>1. i \in Index /\ (j = n + 1 \/ (j \in Index /\ j \in k .. n /\ k \in Index))
      BY <1>2, <1>4
    <3>2. CASE j = n + 1
      BY <1>1, <1>4, <3>1, <3>2
    <3>3. CASE j \in Index /\ j \in k .. n /\ k \in Index
      BY <1>4, <2>1, <2>4, <3>1, <3>3
    <3> QED BY <3>1, <3>2, <3>3
  <2>5. ASSUME NEW i \in Index', NEW j \in i .. n + 1,
               \A k \in i + 1 .. j : cstack'[k].kind # "resume"
        PROVE  cstack'[i].thread = cstack'[j].thread
    <3>1. CASE j = n + 1
      <4>1. i = n + 1 \/ n + 1 \in i + 1 .. j
        BY <1>2, <1>4, <3>1
      <4> QED BY <1>1, <2>5, <3>1, <4>1
    <3>2. CASE j # n + 1
      <4>1. i \in Index /\ j \in Index /\ j \in i .. n /\ \A k \in i + 1 .. j : k \in Index
        BY <1>2, <1>4, <3>2
      <4>2. \A k \in i + 1 .. j : cstack[k].kind # "resume"
        BY <1>4, <2>5, <4>1
      <4>3. cstack[i].thread = cstack[j].thread
        BY <2>1, <4>1, <4>2
      <4>4. cstack'[i] = cstack[i] /\ cstack'[j] = cstack[j]
        BY <1>4, <4>1
      <4> QED BY <4>3, <4>4
    <3> QED BY <3>1, <3>2
  <2>6. ASSUME NEW k \in Index', cstack'[k].thread \in Co
        PROVE  LET b == baseCcalls'[cstack'[k].thread] IN
             b \in 1 .. k /\ cstack'[b].kind = "resume" /\ cstack'[b].thread = cstack'[k].thread
    <3>1. CASE k = n + 1
      BY <1>1, <1>2, <3>1
    <3>2. CASE k \in Index
      <4> DEFINE b == baseCcalls[cstack[k].thread]
      <4>1. b \in 1 .. k /\ cstack[b].kind = "resume" /\ cstack[b].thread = cstack[k].thread
        BY <1>4, <2>1, <2>6, <3>2
      <4>2. b \in Index
        BY <1>4, <3>2, <4>1
      <4> QED BY <1>4, <2>2, <3>2, <4>1, <4>2
    <3> QED BY <1>4, <3>1, <3>2
  <2>7. baseCcalls'[Main] = 0
    BY <1>1, <1>4, <2>1
  <2>8. Len(cstack') = n + 1
    BY <1>4
  <2> QED BY <2>3, <2>4, <2>5, <2>6, <2>7, <2>8 DEF Segments
<1>7. Caught'
  <2> SUFFICES ASSUME NEW k \in Index'
               PROVE  \E j \in 1 .. k : /\ cstack'[j].kind \in {"pcall", "resume"}
                        /\ \A i \in j + 1 .. k : cstack'[i].kind \notin {"pcall", "resume"}
    BY DEF Caught
  <2>1. CASE k = n + 1
    BY <1>1, <1>2, <2>1
  <2>2. CASE k \in Index
    <3>1. PICK j \in 1 .. k : /\ cstack[j].kind \in {"pcall", "resume"}
                        /\ \A i \in j + 1 .. k : cstack[i].kind \notin {"pcall", "resume"}
      BY <2>2 DEF IInv, Caught
    <3>2. j \in Index /\ \A i \in j + 1 .. k : i \in Index
      BY <1>4, <2>2
    <3> QED BY <1>4, <3>1, <3>2
  <2> QED BY <1>4, <2>1, <2>2
<1>8. Counts'
  <2>1. /\ \A k \in Index : cstack[k].nCcalls = k - 1
        /\ \A k \in Index : k = n \/ cstack[k + 1].kind = "resume" => nCcalls[cstack[k].thread] = k
    BY DEF IInv, Counts, n
  <2>2. \A k \in Index' : cstack'[k].nCcalls = k - 1
    BY <1>1, <1>2, <1>4, <2>1
  <2>3. ASSUME NEW k \in Index', k = n + 1 \/ cstack'[k + 1].kind = "resume"
        PROVE  nCcalls'[cstack'[k].thread] = k
    <3>1. CASE k = n + 1
      BY <1>20, <3>1
    <3>2. CASE k \in Index
      <4>1. k = n \/ (k < n /\ k + 1 \in Index /\ cstack[k + 1].kind = "resume")
        BY <1>2, <1>4, <2>3, <3>2
      <4>2. nCcalls[cstack[k].thread] = k
        BY <2>1, <3>2, <4>1
      <4>3. cstack'[k] = cstack[k]
        BY <1>4, <3>2
      <4> QED BY <1>21, <3>2, <4>2, <4>3
    <3> QED BY <1>4, <3>1, <3>2
  <2>4. n + 1 <= ERRCCALLS /\ n + 1 # ERRCCALLS
    BY <1>1, <1>2, DoAssumption
  <2> QED BY <1>4, <2>2, <2>3, <2>4 DEF Counts
<1>9. /\ \A k \in Index : DepthIn(cstack', frames', k) = Depth(k)
      /\ DepthIn(cstack', frames', n + 1) = Len(frames'[c])
  <2>1. DepthIn(cstack', frames', n + 1) = Len(frames'[c])
    BY <1>1, <1>2 DEF DepthIn
  <2>2. ASSUME NEW k \in Index PROVE DepthIn(cstack', frames', k) = Depth(k)
    <3>1. frames'[cstack[k].thread] = frames[cstack[k].thread] /\ cstack'[k] = cstack[k]
      BY <1>4, <1>21
    <3>2. CASE k = n
      <4>1. DepthIn(cstack', frames', k) = Len(frames'[cstack'[k].thread])
        BY <1>20, <3>2 DEF DepthIn
      <4>2. Depth(k) = Len(frames[t]) /\ cstack[k].thread = t
        BY <1>2, <3>2 DEF L
      <4> QED BY <3>1, <4>1, <4>2
    <3>3. CASE k < n
      <4>1. k + 1 \in Index /\ k < n + 1
        BY <1>2, <1>4, <3>3
      <4> QED BY <1>4, <3>1, <3>3, <4>1 DEF DepthIn, Depth
    <3> QED BY <1>2, <1>4, <3>2, <3>3
  <2> QED BY <2>1, <2>2
<1>10. Depths'
  <2>1. /\ \A k \in Index : cstack[k].ci <= Len(frames[cstack[k].thread])
        /\ \A k \in Index : \A j \in 1 .. k :
             cstack[j].thread = cstack[k].thread => cstack[j].ci <= cstack[k].ci
        /\ \A k \in Index : cstack[k].ci <= Depth(k) /\ Depth(k) \in Nat
        /\ \A k \in 1 .. n - 1 : cstack[k + 1].kind # "handler" => cstack[k].ci < Depth(k)
        /\ \A k \in Index : \A i \in cstack[k].ci + 1 .. Depth(k) - 1 :
             frames[cstack[k].thread][i] = "lua"
    BY <1>4, Types DEF IInv, Depths, n
  <2>2. Len(frames'[c]) \in Nat /\ \A k \in Index : frames'[cstack[k].thread] = frames[cstack[k].thread]
    <3>1. frames' \in [Thread -> Seq(Frame)] /\ c \in Thread
      BY <1>1
    <3>2. frames'[c] \in Seq(Frame)
      BY <3>1
    <3> QED BY <1>21, <3>2
  <2>3. ASSUME NEW k \in Index' PROVE cstack'[k].ci <= Len(frames'[cstack'[k].thread])
    <3>1. CASE k = n + 1
      BY <1>20, <2>2, <3>1
    <3>2. CASE k \in Index
      <4>1. cstack'[k] = cstack[k]
        BY <1>4, <3>2
      <4> QED BY <2>1, <2>2, <3>2, <4>1
    <3> QED BY <1>4, <3>1, <3>2
  <2>4. ASSUME NEW k \in Index', NEW j \in 1 .. k, cstack'[j].thread = cstack'[k].thread
        PROVE  cstack'[j].ci <= cstack'[k].ci
    <3>1. CASE k \in Index
      <4>1. j \in Index
        BY <1>4, <3>1
      <4> QED BY <1>4, <2>1, <2>4, <3>1, <4>1
    <3>2. CASE k = n + 1 /\ j = n + 1
      BY <1>1, <3>2
    <3>3. CASE k = n + 1 /\ j # n + 1
      <4>1. j \in Index
        BY <1>2, <1>4, <3>3
      <4> QED BY <1>1, <1>4, <2>4, <3>3, <4>1
    <3> QED BY <1>4, <3>1, <3>2, <3>3
  <2>5. ASSUME NEW k \in Index' PROVE cstack'[k].ci <= DepthIn(cstack', frames', k)
    <3>1. CASE k = n + 1
      BY <1>9, <1>20, <2>2, <3>1
    <3>2. CASE k \in Index
      <4>1. cstack'[k] = cstack[k]
        BY <1>4, <3>2
      <4> QED BY <1>9, <2>1, <3>2, <4>1
    <3> QED BY <1>4, <3>1, <3>2
  <2>6. ASSUME NEW k \in 1 .. n, cstack'[k + 1].kind # "handler"
        PROVE  cstack'[k].ci < DepthIn(cstack', frames', k)
    <3>1. CASE k = n
      BY <1>2, <1>4, <1>9, <3>1
    <3>2. CASE k < n
      <4>1. k \in 1 .. n - 1 /\ k \in Index /\ k + 1 \in Index
        BY <1>2, <1>4, <3>2
      <4> QED BY <1>4, <1>9, <2>1, <2>6, <4>1
    <3> QED BY <1>2, <3>1, <3>2
  <2>7. \A k \in Index' : k = n + 1 /\ err' = "no" => cstack'[k].ci < DepthIn(cstack', frames', k)
    BY <1>1, <1>9
  <2>8. ASSUME NEW k \in Index', NEW i \in cstack'[k].ci + 1 .. DepthIn(cstack', frames', k) - 1
        PROVE  frames'[cstack'[k].thread][i] = "lua"
    <3>1. CASE k = n + 1
      <4>1. i \in 1 .. Len(frames'[c]) - 1
        BY <1>9, <1>20, <2>8, <3>1
      <4>2. \A m \in 1 .. Len(frames'[c]) - 1 : frames'[c][m] = "lua"
        BY <1>1
      <4> QED BY <1>20, <3>1, <4>1, <4>2
    <3>2. CASE k \in Index
      <4>1. cstack'[k] = cstack[k]
        BY <1>4, <3>2
      <4>2. i \in cstack[k].ci + 1 .. Depth(k) - 1
        BY <1>9, <2>8, <3>2, <4>1
      <4> QED BY <2>1, <2>2, <3>2, <4>1, <4>2
    <3> QED BY <1>4, <3>1, <3>2
  <2>9. Len(cstack') - 1 = n
    BY <1>2, <1>4
  <2> QED BY <2>3, <2>4, <2>5, <2>6, <2>7, <2>8, <2>9, <1>4 DEF Depths, Depth
<1>11. \A d \in Co : InChain(d)' <=> InChain(d) \/ d = c
  <2>1. /\ \A d : InChain(d) <=> \E k \in Index : cstack[k].thread = d
        /\ \A d : InChain(d)' <=> \E k \in 1 .. n + 1 : cstack'[k].thread = d
    BY <1>3, <1>4, InChainIs, InChainNext
  <2>2. n + 1 \in 1 .. n + 1 /\ \A k \in 1 .. n + 1 : k \in Index \/ k = n + 1
    BY <1>2, <1>4
  <2>3. ASSUME NEW d \in Co, NEW k \in 1 .. n + 1, cstack'[k].thread = d
        PROVE  InChain(d) \/ d = c
    <3>1. CASE k \in Index
      <4>1. cstack'[k] = cstack[k]
        BY <1>4, <3>1
      <4> QED BY <2>1, <2>3, <3>1, <4>1
    <3>2. CASE k = n + 1
      BY <1>20, <2>3, <3>2
    <3> QED BY <2>2, <3>1, <3>2
  <2>4. ASSUME NEW d \in Co, NEW k \in Index, cstack[k].thread = d
        PROVE  k \in 1 .. n + 1 /\ cstack'[k].thread = d
    <3>1. cstack'[k] = cstack[k] /\ k \in 1 .. n + 1
      BY <1>2, <1>4
    <3> QED BY <2>4, <3>1
  <2> QED BY <1>20, <2>1, <2>2, <2>3, <2>4
<1>12. Outside'
  <2>1. /\ \A d \in Co : InChain(d) => status[d] = "ok" /\ left[d] # "none"
        /\ \A d \in Co : ~InChain(d) /\ status[d] = "ok" => frames[d] = <<>>
        /\ \A d \in Co : status[d] = "yield" =>
             \A i \in 1 .. Len(frames[d]) - 1 : frames[d][i] = "lua"
        /\ \A d \in Co : left[d] = "none" => status[d] = "ok"
    BY DEF IInv, Outside
  <2>2. \A d \in Co : d # c =>
             frames'[d] = frames[d] /\ status'[d] = status[d] /\ left'[d] = left[d]
    BY <1>1
  <2>3. status'[c] = "ok" /\ left'[c] # "none"
    BY <1>1
  <2>4. \A d \in Co : InChain(d)' => status'[d] = "ok" /\ left'[d] # "none"
    BY <1>11, <2>1, <2>2, <2>3
  <2>5. \A d \in Co : ~InChain(d)' /\ status'[d] = "ok" => frames'[d] = <<>>
    BY <1>11, <2>1, <2>2
  <2>6. \A d \in Co : status'[d] = "yield" =>
             \A i \in 1 .. Len(frames'[d]) - 1 : frames'[d][i] = "lua"
    BY <2>1, <2>2, <2>3
  <2>7. \A d \in Co : left'[d] = "none" => status'[d] = "ok"
    BY <2>1, <2>2, <2>3
  <2> QED BY <2>4, <2>5, <2>6, <2>7 DEF Outside
<1>13. Waiting'
  <2>1. \A d \in Co : InChain(d) => d = t \/ frames[d] # <<>>
    BY <1>2 DEF IInv, Waiting
  <2>2. frames[t] # <<>> /\ \A d \in Co : d # c => frames'[d] = frames[d]
    BY <1>1, <1>2 DEF Runs
  <2>3. cstack'[Len(cstack')].thread = c
    BY <1>1, <1>4
  <2> QED BY <1>11, <2>1, <2>2, <2>3 DEF Waiting, Top
<1> QED BY <1>3, <1>5, <1>6, <1>7, <1>8, <1>10, <1>11, <1>12, <1>13 DEF IInv

----------------------------------------------------------------------------
(* The invariant.                                                          *)

\* main() has called pmain: one activation.
LEMMA InitIInv ==
    ASSUME Init
    PROVE  IInv /\ \A c \in Co : ~InChain(c)
<1> DEFINE a == [kind |-> "pcall", thread |-> Main, ci |-> 0, nCcalls |-> 0, errfunc |-> FALSE]
<1>1. /\ cstack = <<a>> /\ Len(cstack) = 1 /\ cstack[1] = a /\ Index = 1 .. 1
      /\ cstack # <<>> /\ err = "no"
  BY DEF Init, Index
<1>2. /\ \A k \in Index : k = 1
      /\ a.kind = "pcall" /\ a.thread = Main /\ a.ci = 0 /\ a.nCcalls = 0
  BY <1>1
<1>3. /\ frames \in [Thread -> Seq(Frame)] /\ frames[Main] = <<"c">>
      /\ \A c \in Co : frames[c] = <<>>
  BY DoAssumption DEF Init
<1>4. Len(frames[Main]) = 1
  BY <1>3
<1>5. TypeOK
  <2>1. a \in Activation
    BY DEF Activation
  <2>2. cstack \in Seq(Activation)
    BY <1>1, <2>1
  <2> QED BY <1>3, <2>2 DEF Init, TypeOK
<1>6. Depth(1) = 1 /\ Depth(1) \in Nat
  BY <1>1, <1>2, <1>4 DEF Depth, DepthIn
<1>7. \A c \in Co : ~InChain(c)
  BY <1>1, <1>2, <1>5, InChainIs, DoAssumption
<1>8. Bottom
  BY <1>1, <1>2 DEF Bottom
<1>9. Segments
  <2>1. baseCcalls[Main] = 0
    BY DEF Init
  <2>2. \A i \in Index : \A j \in i .. Len(cstack) : i = 1 /\ j = 1
    BY <1>1
  <2>3. \A k \in Index : cstack[k].kind # "resume" /\ cstack[k].thread \notin Co
    BY <1>1, <1>2, DoAssumption
  <2> QED BY <2>1, <2>2, <2>3 DEF Segments
<1>10. Caught
  <2>1. 1 \in 1 .. 1 /\ \A i \in 1 + 1 .. 1 : FALSE
    OBVIOUS
  <2> QED BY <1>1, <1>2, <2>1 DEF Caught
<1>11. Counts
  <2>1. nCcalls[Main] = 1
    BY DEF Init
  <2> QED BY <1>1, <1>2, <2>1, DoAssumption DEF Counts
<1>12. Depths
  <2>1. \A k \in 1 .. Len(cstack) - 1 : FALSE
    BY <1>1
  <2>2. \A i \in 0 + 1 .. 1 - 1 : FALSE
    OBVIOUS
  <2>3. \A k \in Index : k = 1 /\ cstack[k] = a /\ Depth(k) = 1 /\ \A j \in 1 .. k : j = 1
    BY <1>1, <1>2, <1>6
  <2> QED BY <1>2, <1>4, <2>1, <2>2, <2>3 DEF Depths
<1>13. Outside
  <2>1. \A c \in Co : status[c] = "ok"
    BY DEF Init
  <2> QED BY <1>3, <1>7, <2>1 DEF Outside
<1>14. Waiting
  BY <1>7 DEF Waiting
<1> QED BY <1>5, <1>7, <1>8, <1>9, <1>10, <1>11, <1>12, <1>13, <1>14 DEF IInv

\* A step that leaves the C stack and the calls: an error begins, a thread is
\* created, or a coroutine that the C stack has no room for loses its function.
LEMMA QuietStep ==
    ASSUME IInv, NEW t \in Thread,
           \/ Error(t)
           \/ errormsg(t) /\ ~errfunc[t]
           \/ Yield(t) /\ ~Yieldable(t)
           \/ \E c \in Co : Create(t, c) \/ ResumeOverflow(t, c)
           \/ UNCHANGED vars
    PROVE  IInv' /\ UNCHANGED <<cstack, frames>>
<1>1. TypeOK
  BY DEF IInv
<1>2. Len(cstack) = ERRCCALLS => err = "throw"
  BY DEF IInv, Counts
<1>3. cstack = <<>> => err = "no"
  BY DEF IInv, Bottom
<1>4. CASE Error(t)
  <2>1. PICK g \in Frame : Runs(t, g)
    BY <1>4 DEF Error
  <2>2. TypeOK'
    BY <1>1, <1>4 DEF Error, TypeOK
  <2> QED BY <1>2, <1>4, <2>1, <2>2, IdleStep DEF Error, Runs
<1>5. CASE errormsg(t) /\ ~errfunc[t]
  <2>1. err = "msg" /\ err' = "throw" /\ UNCHANGED <<cstack, frames, status, left, counts, errfunc>>
    BY <1>5 DEF errormsg
  <2>2. TypeOK'
    BY <1>1, <2>1 DEF TypeOK
  <2> QED BY <1>3, <2>1, <2>2, IdleStep
<1>6. CASE Yield(t) /\ ~Yieldable(t)
  <2>1. err' = "msg" /\ UNCHANGED <<cstack, frames, status, left, counts, errfunc>>
    BY <1>6 DEF Yield
  <2>2. TypeOK'
    BY <1>1, <2>1 DEF TypeOK
  <2>3. cstack # <<>> /\ err = "no"
    BY <1>6 DEF Yield, Runs
  <2> QED BY <1>2, <2>1, <2>2, <2>3, IdleStep
<1>7. ASSUME NEW c \in Co, Create(t, c) PROVE IInv' /\ UNCHANGED <<cstack, frames>>
  <2>1. /\ left' = [left EXCEPT ![c] = "function"]
        /\ UNCHANGED <<cstack, frames, status, counts, errfunc, err>>
    BY <1>7 DEF Create
  <2>2. TypeOK'
    BY <1>1, <2>1 DEF TypeOK
  <2>3. \A d \in Co : left'[d] = "none" => left[d] = "none"
    BY <1>1, <2>1 DEF TypeOK
  <2> QED BY <1>2, <1>3, <2>1, <2>2, <2>3, IdleStep
<1>8. ASSUME NEW c \in Co, ResumeOverflow(t, c) PROVE IInv' /\ UNCHANGED <<cstack, frames>>
  <2>1. /\ left' = [left EXCEPT ![c] = "empty"] /\ nCcalls' = [nCcalls EXCEPT ![c] = nCcalls[t]]
        /\ UNCHANGED <<cstack, frames, status, baseCcalls, errfunc, err>>
        /\ Runs(t, "c") /\ left[c] # "none" /\ costatus(t, c) = "suspended"
    BY <1>8 DEF ResumeOverflow, Level
  <2>2. TypeOK'
    BY <1>1, <2>1 DEF TypeOK
  <2>3. \A d \in Co : left'[d] = "none" => left[d] = "none"
    BY <1>1, <2>1 DEF TypeOK
  <2>4. ~InChain(c)
    BY <2>1, SuspendedFacts DEF Runs
  <2>5. \A u \in Thread : InChain(u) => nCcalls'[u] = nCcalls[u]
    BY <1>1, <2>1, <2>4 DEF TypeOK
  <2> QED BY <1>2, <1>3, <2>1, <2>2, <2>3, <2>5, IdleStep
<1>9. CASE UNCHANGED vars
  <2>1. TypeOK'
    BY <1>1, <1>9 DEF TypeOK
  <2> QED BY <1>2, <1>3, <1>9, <2>1, IdleStep
<1> QED BY <1>4, <1>5, <1>6, <1>7, <1>8, <1>9

\* Every step keeps the invariant.
LEMMA NextIInv ==
    ASSUME IInv, [Next]_vars
    PROVE  IInv'
<1>1. ASSUME NEW t \in Thread, NEW f \in Frame, Call(t, f) PROVE IInv'
  BY <1>1, CallLuaStep
<1>2. ASSUME NEW t \in Thread, NEW f \in Frame, CallInC(t, f) PROVE IInv'
  <2>1. /\ cstack # <<>> /\ err = "no" /\ t = Top.thread /\ luaD_call(t, f, "call", errfunc[t])
    BY <1>2 DEF CallInC, Runs
  <2>2. errfunc[t] \in BOOLEAN
    BY DEF IInv, TypeOK
  <2> QED BY <2>1, <2>2, CallStep
<1>3. ASSUME NEW t \in Thread, NEW f \in Frame, NEW ef \in BOOLEAN, ProtectedCall(t, f, ef)
      PROVE  IInv'
  BY <1>3, CallStep DEF ProtectedCall, Runs
<1>4. ASSUME NEW t \in Thread, Return(t) PROVE IInv'
  BY <1>4, ReturnLuaStep, ReturnEndStep
<1>5. ASSUME NEW t \in Thread, errormsg(t), errfunc[t] PROVE IInv'
  <2>1. PICK f \in Frame : luaD_call(t, f, "handler", TRUE)
    BY <1>5 DEF errormsg
  <2>2. err = "msg" /\ t = Top.thread /\ cstack # <<>>
    BY <1>5 DEF errormsg, IInv, Bottom
  <2> QED BY <2>1, <2>2, CallStep
<1>6. ASSUME NEW t \in Thread, Yield(t), Yieldable(t) PROVE IInv'
  BY <1>6, YieldStep
<1>7. ASSUME NEW t \in Thread, NEW c \in Co, Resume(t, c) PROVE IInv'
  BY <1>7, ResumeStep
<1>8. CASE luaD_throw
  BY <1>8, ThrowStep
<1> QED BY <1>1, <1>2, <1>3, <1>4, <1>5, <1>6, <1>7, <1>8, QuietStep DEF Next

LEMMA IInvThm == Spec => []IInv
<1>1. Init => IInv
  BY InitIInv
<1>2. IInv /\ [Next]_vars => IInv'
  BY NextIInv
<1> QED BY <1>1, <1>2, PTL DEF Spec

\* The variables keep their types.
THEOREM TypeCorrect == Spec => []TypeOK
<1>1. IInv => TypeOK
  BY DEF IInv
<1> QED BY <1>1, IInvThm, PTL

\* nCcalls of the running thread is the depth of the C stack, which is never
\* above the limit luaD_call enforces.
THEOREM CCallsExactThm == Spec => []CCallsExact
<1>1. IInv => CCallsExact
  BY TopFacts DEF IInv, Counts, CCallsExact
<1> QED BY <1>1, IInvThm, PTL

\* What lua_yield's test lets through: a coroutine with nothing on the C stack.
THEOREM SuspendedCleanThm == Spec => []SuspendedClean
<1>1. IInv => SuspendedClean
  BY DEF IInv, Outside, SuspendedClean
<1> QED BY <1>1, IInvThm, PTL

\* costatus, which looks at the status and the calls of a thread, tells
\* whether it is on the C stack.
THEOREM StatusExactThm == Spec => []StatusExact
<1>1. IInv => StatusExact
  BY CostatusIs DEF StatusExact
<1> QED BY <1>1, IInvThm, PTL

----------------------------------------------------------------------------
(* Do implements asymmetric coroutines (module Coroutines).                *)

\* What the states of the coroutines are, from those of each.
LEMMA StateSame ==
    ASSUME NEW c \in Co, left'[c] = left[c], status'[c] = status[c], InChain(c)' <=> InChain(c)
    PROVE  State(c)' = State(c)
BY DEF State

LEMMA StatesSame ==
    ASSUME \A c \in Co : State(c)' = State(c)
    PROVE  States' = States
BY DEF States

LEMMA StatesBut ==
    ASSUME NEW c \in Co, NEW s, State(c)' = s, \A d \in Co : d # c => State(d)' = State(d)
    PROVE  States' = [States EXCEPT ![c] = s] /\ States[c] = State(c)
BY DEF States

\* Where the segment of a coroutine begins, and who is below it.
LEMMA BaseFacts ==
    ASSUME IInv, NEW c \in Co, InChain(c)
    PROVE  /\ baseCcalls[c] \in Index /\ baseCcalls[c] - 1 \in Index
           /\ c \in DOMAIN Resumers /\ Resumers[c] = cstack[baseCcalls[c] - 1].thread
<1>1. PICK k \in Index : cstack[k].thread = c
  BY InChainIs DEF IInv
<1>2. baseCcalls[c] \in 1 .. k /\ cstack[baseCcalls[c]].kind = "resume"
  BY <1>1 DEF IInv, Segments
<1>3. k \in Nat /\ k <= Len(cstack) /\ Len(cstack) \in Nat /\ cstack # <<>> /\ Index = 1 .. Len(cstack)
  BY <1>1, Types DEF IInv, Index
<1>4. cstack[1].kind = "pcall"
  BY <1>3 DEF IInv, Bottom
<1>5. baseCcalls[c] # 1
  BY <1>2, <1>4
<1>6. baseCcalls[c] \in Index /\ baseCcalls[c] - 1 \in Index
  BY <1>2, <1>3, <1>5
<1> QED BY <1>6 DEF Resumers, Resumer

BasesIn == \A c \in Co : InChain(c) => baseCcalls[c] - 1 \in Index

LEMMA BaseIndex == IInv => BasesIn
BY BaseFacts DEF BasesIn

\* The resumer of a coroutine that stays on the C stack.
LEMMA ResumerSame ==
    ASSUME IInv, IInv', NEW c \in Co, InChain(c), InChain(c)', baseCcalls'[c] = baseCcalls[c],
           \A k \in Index : k <= Len(cstack') => cstack'[k] = cstack[k]
    PROVE  Resumer(c)' = Resumer(c)
<1>1. baseCcalls[c] - 1 \in Index
  BY BaseFacts
<1>2. IInv' => BasesIn'
  BY BaseIndex, PTL
<1>3. baseCcalls[c] - 1 <= Len(cstack')
  BY <1>2 DEF BasesIn, Index
<1>4. cstack'[baseCcalls[c] - 1] = cstack[baseCcalls[c] - 1]
  BY <1>1, <1>3
<1> QED BY <1>4 DEF Resumer

\* The resumers, when no coroutine joins or leaves the C stack.
LEMMA ResumersSame ==
    ASSUME IInv, IInv', \A c \in Co : InChain(c)' <=> InChain(c),
           \A c \in Co : InChain(c) => baseCcalls'[c] = baseCcalls[c],
           \A k \in Index : k <= Len(cstack') => cstack'[k] = cstack[k]
    PROVE  Resumers' = Resumers
<1>1. \A c \in Co : InChain(c) => Resumer(c)' = Resumer(c)
  BY ResumerSame
<1> QED BY <1>1 DEF Resumers

\* A step that no thread notices but the one that runs; or its last.
LEMMA KeepStep ==
    ASSUME IInv, IInv', cstack # <<>>, \A c \in Co : InChain(c)' <=> InChain(c),
           UNCHANGED <<status, left, baseCcalls>>,
           \A k \in Index : k <= Len(cstack') => cstack'[k] = cstack[k],
           IF cstack' = <<>> THEN Top.thread = Main
                             ELSE cstack'[Len(cstack')].thread = Top.thread
    PROVE  [C!Next]_(C!vars)
<1>1. Resumers' = Resumers
  BY ResumersSame
<1>2. States' = States
  BY StateSame, StatesSame
<1>3. Running' = Running
  BY DEF Running, Top
<1>4. CASE cstack' = <<>>
  <2>1. Running = Main
    BY <1>4 DEF Running
  <2> QED BY <1>1, <1>2, <1>3, <1>4, <2>1 DEF C!Next, C!Exit
<1>5. CASE cstack' # <<>>
  BY <1>1, <1>2, <1>3, <1>5 DEF C!vars
<1> QED BY <1>4, <1>5

\* A step that leaves the C stack to the resumer of the thread on top of it.
LEMMA LeaveStep ==
    ASSUME IInv, IInv', NEW t \in Co, t = Top.thread, cstack # <<>>,
           NEW k \in Index, cstack[k].kind = "resume", cstack[k].thread = t,
           cstack' = SubSeq(cstack, 1, k - 1),
           \A c \in Co : InChain(c)' <=> InChain(c) /\ c # t,
           UNCHANGED baseCcalls,
           \A c \in Co : c # t => left'[c] = left[c] /\ status'[c] = status[c],
           NEW s, State(t)' = s
    PROVE  C!Leave(t, s)
<1>1. /\ cstack \in Seq(Activation) /\ k \in Nat \ {0} /\ k - 1 \in 0 .. Len(cstack)
      /\ Index = 1 .. Len(cstack) /\ Len(cstack) \in Nat /\ InChain(t)
  <2>1. InChain(t)
    BY InChainIs DEF IInv
  <2> QED BY <2>1 DEF IInv, TypeOK, Index
<1>2. /\ Len(cstack') = k - 1 /\ \A i \in 1 .. k - 1 : cstack'[i] = cstack[i]
  BY <1>1, PrefixFacts
<1>3. baseCcalls[t] = k
  BY DEF IInv, Segments
<1>4. k - 1 \in Index /\ Resumers[t] = cstack[k - 1].thread
  BY <1>1, <1>3, BaseFacts
<1>5. cstack' # <<>> /\ Running = t /\ Running' = Resumers[t]
  <2>1. Len(cstack') # 0
    BY <1>1, <1>2, <1>4
  <2>2. cstack' # <<>>
    BY <2>1
  <2>3. cstack'[k - 1] = cstack[k - 1]
    BY <1>1, <1>2, <1>4
  <2> QED BY <1>2, <1>4, <2>2, <2>3 DEF Running, Top
<1>6. States' = [States EXCEPT ![t] = s]
  <2>1. \A c \in Co : c # t => State(c)' = State(c)
    BY StateSame
  <2> QED BY <2>1, StatesBut
<1>7. Resumers' = [d \in DOMAIN Resumers \ {t} |-> Resumers[d]]
  <2>1. \A i \in Index : i <= Len(cstack') => cstack'[i] = cstack[i]
    BY <1>1, <1>2
  <2>2. \A c \in Co : InChain(c)' => Resumer(c)' = Resumer(c)
    BY <2>1, ResumerSame
  <2>3. {d \in Co : InChain(d)'} = {d \in Co : InChain(d)} \ {t}
    OBVIOUS
  <2> QED BY <2>2, <2>3 DEF Resumers
<1> QED BY <1>5, <1>6, <1>7 DEF C!Leave

\* Calls, returns within an activation and errors: the same coroutine runs.
LEMMA SameStack ==
    ASSUME IInv, IInv', cstack # <<>>, UNCHANGED <<cstack, status, left, baseCcalls>>
    PROVE  [C!Next]_(C!vars)
<1>1. \A c \in Co : InChain(c)' <=> InChain(c)
  BY DEF InChain
<1>2. cstack'[Len(cstack')].thread = Top.thread
  BY DEF Top
<1> QED BY <1>1, <1>2, KeepStep

\* luaD_call: the new activation is of the same thread.
LEMMA CallKeeps ==
    ASSUME IInv, IInv', cstack # <<>>, NEW f \in Frame, NEW kind \in {"call", "pcall", "handler"},
           NEW ef \in BOOLEAN, luaD_call(Top.thread, f, kind, ef)
    PROVE  [C!Next]_(C!vars)
<1> DEFINE n == Len(cstack)
<1>1. /\ Len(cstack') = n + 1 /\ \A k \in 1 .. n : cstack'[k] = cstack[k]
      /\ cstack'[n + 1].thread = Top.thread /\ UNCHANGED <<status, left, baseCcalls>>
  BY CallFacts
<1>2. n \in Nat \ {0} /\ n \in Index /\ Top = cstack[n] /\ Index = 1 .. n
  BY TopFacts DEF Index
<1>3. cstack' # <<>>
  BY <1>1, <1>2
<1>4. \A c \in Co : InChain(c)' <=> InChain(c)
  <2>1. /\ \A c : InChain(c) <=> \E k \in Index : cstack[k].thread = c
        /\ \A c : InChain(c)' <=> \E k \in 1 .. n + 1 : cstack'[k].thread = c
    BY <1>1, InChainIs, InChainNext DEF IInv
  <2>2. \A k \in 1 .. n + 1 : k \in 1 .. n \/ k = n + 1
    BY <1>2
  <2>3. \A k \in 1 .. n : k \in 1 .. n + 1
    BY <1>2
  <2> QED BY <1>1, <1>2, <2>1, <2>2, <2>3
<1> QED BY <1>1, <1>2, <1>3, <1>4, KeepStep

\* The end of an activation that is not a lua_resume: the one below it is of
\* the same thread, or there is none, and it is the main thread's.
LEMMA BelowFacts ==
    ASSUME IInv, cstack # <<>>, NEW k \in Index, cstack[k].kind # "resume",
           cstack[k].thread = Top.thread, cstack' = SubSeq(cstack, 1, k - 1)
    PROVE  /\ \A i \in Index : i <= Len(cstack') => cstack'[i] = cstack[i]
           /\ IF cstack' = <<>> THEN Top.thread = Main
                                ELSE cstack'[Len(cstack')].thread = Top.thread
<1>1. /\ cstack \in Seq(Activation) /\ k \in Nat \ {0} /\ k - 1 \in 0 .. Len(cstack)
      /\ Index = 1 .. Len(cstack) /\ Len(cstack) \in Nat /\ k <= Len(cstack)
  BY DEF IInv, TypeOK, Index
<1>2. /\ Len(cstack') = k - 1 /\ \A i \in 1 .. k - 1 : cstack'[i] = cstack[i]
      /\ k - 1 = 0 => cstack' = <<>>
  BY <1>1, PrefixFacts
<1>3. \A i \in Index : i <= Len(cstack') => cstack'[i] = cstack[i]
  BY <1>1, <1>2
<1>4. CASE k = 1
  <2>1. cstack[1].thread = Main
    BY DEF IInv, Bottom
  <2>2. k - 1 = 0
    BY <1>4
  <2>3. cstack' = <<>>
    BY <1>2, <2>2
  <2> QED BY <1>3, <1>4, <2>1, <2>3
<1>5. CASE k # 1
  <2>1. k - 1 \in Index /\ k - 1 < Len(cstack) /\ k - 1 + 1 = k /\ k - 1 # 0 /\ k - 1 \in 1 .. k - 1
    BY <1>1, <1>5
  <2>2. cstack[k].thread = cstack[k - 1].thread
    BY <2>1, NextSame
  <2>3. cstack' # <<>>
    BY <1>2, <2>1
  <2> QED BY <1>2, <1>3, <2>1, <2>2, <2>3
<1> QED BY <1>4, <1>5

\* The coroutine on top of the C stack is active, and is no more when it leaves.
LEMMA TopActive ==
    ASSUME IInv, cstack # <<>>, Top.thread \in Co
    PROVE  InChain(Top.thread) /\ status[Top.thread] = "ok" /\ left[Top.thread] # "none"
<1>1. InChain(Top.thread)
  BY TopFacts, InChainIs DEF IInv
<1> QED BY <1>1 DEF IInv, Outside

LEMMA ReturnRefines ==
    ASSUME IInv, IInv', NEW t \in Thread, Return(t)
    PROVE  [C!Next]_(C!vars)
<1> DEFINE n == Len(cstack)
<1>1. PICK g \in Frame : Runs(t, g)
  BY DEF Return
<1>2. /\ cstack # <<>> /\ t = Top.thread /\ n \in Nat \ {0} /\ n \in Index /\ Index = 1 .. n
      /\ Top = cstack[n] /\ TypeOK
  BY <1>1, RunsFacts DEF Index, IInv
<1>3. UNCHANGED <<status, baseCcalls>>
  BY DEF Return
<1>4. CASE Len(frames[t]) - 1 # Top.ci
  BY <1>2, <1>3, <1>4, SameStack DEF Return
<1>5. CASE Len(frames[t]) - 1 = Top.ci /\ Top.kind # "resume"
  <2>1. cstack' = SubSeq(cstack, 1, n - 1) /\ UNCHANGED left
    BY <1>5 DEF Return, Pop
  <2>2. \A c \in Co : InChain(c)' <=> InChain(c)
    BY <1>5, ReturnEndStep
  <2>3. /\ \A i \in Index : i <= Len(cstack') => cstack'[i] = cstack[i]
        /\ IF cstack' = <<>> THEN Top.thread = Main
                             ELSE cstack'[Len(cstack')].thread = Top.thread
    BY <1>2, <1>5, <2>1, BelowFacts
  <2> QED BY <1>2, <1>3, <2>1, <2>2, <2>3, KeepStep
<1>6. CASE Len(frames[t]) - 1 = Top.ci /\ Top.kind = "resume"
  <2>1. /\ cstack' = SubSeq(cstack, 1, n - 1)
        /\ \E s \in {"empty", "results"} : left' = [left EXCEPT ![t] = s]
    BY <1>6 DEF Return, Pop
  <2>2. t \in Co
    BY <1>2, <1>6 DEF IInv, Segments
  <2>3. \A c \in Co : InChain(c)' <=> InChain(c) /\ c # t
    BY <1>6, ReturnEndStep
  <2>4. \A c \in Co : c # t => left'[c] = left[c] /\ status'[c] = status[c]
    BY <1>2, <1>3, <2>1 DEF TypeOK
  <2>5. status'[t] = "ok" /\ left'[t] \in {"empty", "results"}
    BY <1>2, <1>3, <2>1, <2>2, TopActive DEF TypeOK
  <2>6. State(t)' \in {"dead", "spoiled"}
    BY <2>2, <2>3, <2>5 DEF State
  <2>7. C!Leave(t, State(t)')
    BY <1>2, <1>3, <1>6, <2>1, <2>2, <2>3, <2>4, LeaveStep
  <2> QED BY <2>2, <2>6, <2>7 DEF C!Next, C!End
<1> QED BY <1>4, <1>5, <1>6

LEMMA YieldRefines ==
    ASSUME IInv, IInv', NEW t \in Thread, Yield(t), Yieldable(t)
    PROVE  [C!Next]_(C!vars)
<1> DEFINE n == Len(cstack)
<1>1. Runs(t, "c")
  BY DEF Yield
<1>2. /\ cstack # <<>> /\ t = Top.thread /\ n \in Index /\ Top = cstack[n] /\ TypeOK
  BY <1>1, RunsFacts DEF IInv
<1>3. Top.kind = "resume" /\ t \in Co
  BY <1>1, YieldFacts
<1>4. /\ cstack' = SubSeq(cstack, 1, n - 1) /\ UNCHANGED <<left, baseCcalls>>
      /\ status' = [status EXCEPT ![t] = "yield"]
  BY DEF Yield, Pop
<1>5. \A c \in Co : InChain(c)' <=> InChain(c) /\ c # t
  BY YieldStep
<1>6. status'[t] = "yield" /\ \A c \in Co : c # t => status'[c] = status[c]
  BY <1>2, <1>4 DEF TypeOK
<1>7. left'[t] # "none"
  BY <1>2, <1>3, <1>4, TopActive
<1>8. State(t)' = "suspended"
  BY <1>3, <1>5, <1>6, <1>7 DEF State
<1>9. C!Leave(t, "suspended")
  BY <1>2, <1>3, <1>4, <1>5, <1>6, <1>8, LeaveStep
<1> QED BY <1>3, <1>9 DEF C!Next, C!Yield

LEMMA ThrowRefines ==
    ASSUME IInv, IInv', luaD_throw
    PROVE  [C!Next]_(C!vars)
<1>0. PICK t : t = Top.thread
  OBVIOUS
<1>1. /\ cstack # <<>> /\ TypeOK /\ Catch \in Index /\ cstack[Catch].thread = t
      /\ cstack[Catch].kind \in {"pcall", "resume"}
  BY <1>0, ThrowStep, CatchFacts DEF IInv
<1>2. cstack' = SubSeq(cstack, 1, Catch - 1) /\ UNCHANGED <<left, baseCcalls>>
  BY DEF luaD_throw
<1>3. \A c \in Co : InChain(c)' <=> InChain(c) /\ ~(cstack[Catch].kind = "resume" /\ c = t)
  BY <1>0, ThrowStep
<1>4. CASE cstack[Catch].kind = "pcall"
  <2>1. UNCHANGED status /\ \A c \in Co : InChain(c)' <=> InChain(c)
    BY <1>3, <1>4 DEF luaD_throw, luaD_pcall
  <2>2. /\ \A i \in Index : i <= Len(cstack') => cstack'[i] = cstack[i]
        /\ IF cstack' = <<>> THEN Top.thread = Main
                             ELSE cstack'[Len(cstack')].thread = Top.thread
    BY <1>0, <1>1, <1>2, <1>4, BelowFacts
  <2> QED BY <1>1, <1>2, <2>1, <2>2, KeepStep
<1>5. CASE cstack[Catch].kind = "resume"
  <2>1. t \in Co /\ \A c \in Co : InChain(c)' <=> InChain(c) /\ c # t
    BY <1>1, <1>3, <1>5 DEF IInv, Segments
  <2>2. status' = [status EXCEPT ![t] = "error"]
    BY <1>1, <1>5 DEF luaD_throw, lua_resume_error
  <2>3. status'[t] = "error" /\ \A c \in Co : c # t => status'[c] = status[c]
    BY <1>1, <2>1, <2>2 DEF TypeOK
  <2>4. left'[t] # "none"
    BY <1>0, <1>1, <1>2, <2>1, TopActive
  <2>5. State(t)' = "dead"
    BY <2>1, <2>3, <2>4 DEF State
  <2>6. C!Leave(t, "dead")
    BY <1>0, <1>1, <1>2, <1>5, <2>1, <2>3, <2>5, LeaveStep
  <2> QED BY <2>1, <2>6 DEF C!Next, C!End
<1> QED BY <1>1, <1>4, <1>5

LEMMA ResumeRefines ==
    ASSUME IInv, IInv', NEW t \in Thread, NEW c \in Co, Resume(t, c)
    PROVE  [C!Next]_(C!vars)
<1> DEFINE n == Len(cstack)
<1>1. /\ Runs(t, "c") /\ ~InChain(c) /\ c # t /\ left[c] # "none" /\ Len(cstack') = n + 1
      /\ \A k \in 1 .. n : cstack'[k] = cstack[k]
      /\ cstack'[n + 1].thread = c
      /\ \A u \in Thread : u # c =>
           baseCcalls'[u] = baseCcalls[u] /\ status'[u] = status[u] /\ left'[u] = left[u]
      /\ baseCcalls'[c] = n + 1 /\ left'[c] # "none"
  BY ResumeFacts
<1>2. /\ cstack # <<>> /\ t = Top.thread /\ n \in Nat \ {0} /\ n \in Index /\ Top = cstack[n]
      /\ Index = 1 .. n /\ costatus(Top.thread, c) = "suspended"
  BY <1>1, RunsFacts DEF Index, Resume
<1>3. \A d \in Co : InChain(d)' <=> InChain(d) \/ d = c
  BY ResumeStep
<1>4. cstack' # <<>> /\ Running' = c /\ Running = t
  <2>1. cstack' # <<>>
    BY <1>1, <1>2
  <2> QED BY <1>1, <1>2, <2>1 DEF Running, Top
<1>5. States' = [States EXCEPT ![c] = "active"] /\ States[c] \in {"fresh", "suspended", "spoiled"}
  <2>1. State(c)' = "active"
    BY <1>1, <1>3 DEF State
  <2>2. \A d \in Co : d # c => State(d)' = State(d)
    BY <1>1, <1>3, StateSame
  <2>3. \/ status[c] = "yield"
        \/ status[c] = "ok" /\ left[c] \in {"function", "results"}
    BY <1>1, <1>2, SuspendedFacts
  <2>4. State(c) \in {"fresh", "suspended", "spoiled"}
    BY <1>1, <2>3 DEF State
  <2> QED BY <2>1, <2>2, <2>4, StatesBut
<1>6. Resumers' = [d \in DOMAIN Resumers \cup {c} |-> IF d = c THEN Running ELSE Resumers[d]]
  <2>1. \A k \in Index : k <= Len(cstack') => cstack'[k] = cstack[k]
    BY <1>1, <1>2
  <2>2. \A d \in Co : InChain(d) => d # c /\ Resumer(d)' = Resumer(d)
    BY <1>1, <1>3, <2>1, ResumerSame
  <2>3. Resumer(c)' = Running
    <3>1. baseCcalls'[c] - 1 = n /\ cstack'[n] = cstack[n]
      BY <1>1, <1>2
    <3> QED BY <1>2, <1>4, <3>1 DEF Resumer
  <2>4. {d \in Co : InChain(d)'} = {d \in Co : InChain(d)} \cup {c}
    BY <1>3
  <2> QED BY <2>2, <2>3, <2>4 DEF Resumers
<1> QED BY <1>2, <1>4, <1>5, <1>6 DEF C!Next, C!Resume

LEMMA QuietRefines ==
    ASSUME IInv, IInv', NEW t \in Thread, NEW c \in Co, Create(t, c) \/ ResumeOverflow(t, c)
    PROVE  [C!Next]_(C!vars)
<1>1. /\ cstack # <<>> /\ t = Top.thread /\ UNCHANGED <<cstack, frames, baseCcalls, status>> /\ TypeOK
  BY DEF Create, ResumeOverflow, Runs, IInv
<1>2. \A d \in Co : InChain(d)' <=> InChain(d)
  BY <1>1 DEF InChain
<1>3. Resumers' = Resumers
  BY <1>1, <1>2, ResumersSame
<1>4. Running' = Running /\ cstack' # <<>>
  BY <1>1 DEF Running, Top
<1>5. CASE Create(t, c)
  <2>1. left[c] = "none" /\ left' = [left EXCEPT ![c] = "function"]
    BY <1>5 DEF Create
  <2>2. ~InChain(c) /\ status[c] = "ok"
    BY <2>1 DEF IInv, Outside
  <2>3. left'[c] = "function" /\ \A d \in Co : d # c => left'[d] = left[d]
    BY <1>1, <2>1 DEF TypeOK
  <2>4. State(c) = "none" /\ State(c)' = "fresh"
    BY <1>1, <1>2, <2>1, <2>2, <2>3 DEF State
  <2>5. \A d \in Co : d # c => State(d)' = State(d)
    BY <1>1, <1>2, <2>3, StateSame
  <2>6. States' = [States EXCEPT ![c] = "fresh"] /\ States[c] = "none"
    BY <2>4, <2>5, StatesBut
  <2> QED BY <1>1, <1>3, <1>4, <2>6 DEF C!Next, C!Create
<1>6. CASE ResumeOverflow(t, c)
  <2>1. /\ left[c] # "none" /\ left' = [left EXCEPT ![c] = "empty"]
        /\ costatus(Top.thread, c) = "suspended"
    BY <1>1, <1>6 DEF ResumeOverflow
  <2>2. /\ ~InChain(c)
        /\ status[c] = "yield" \/ (status[c] = "ok" /\ left[c] \in {"function", "results"})
    BY <1>1, <2>1, SuspendedFacts
  <2>3. left'[c] = "empty" /\ \A d \in Co : d # c => left'[d] = left[d]
    BY <1>1, <2>1 DEF TypeOK
  <2>4. \A d \in Co : d # c => State(d)' = State(d)
    BY <1>1, <1>2, <2>3, StateSame
  <2>5. CASE status[c] = "yield"
    <3>1. State(c)' = State(c)
      BY <1>1, <1>2, <2>1, <2>2, <2>3, <2>5 DEF State
    <3>2. States' = States
      BY <2>4, <3>1, StatesSame
    <3> QED BY <1>1, <1>3, <1>4, <3>2 DEF C!vars
  <2>6. CASE status[c] = "ok" /\ left[c] \in {"function", "results"}
    <3>1. State(c) \in {"fresh", "spoiled"} /\ State(c)' = "dead"
      BY <1>1, <1>2, <2>2, <2>3, <2>6 DEF State
    <3>2. States' = [States EXCEPT ![c] = "dead"] /\ States[c] \in {"fresh", "spoiled"}
      BY <2>4, <3>1, StatesBut
    <3> QED BY <1>1, <1>3, <1>4, <3>2 DEF C!Next, C!Lose
  <2> QED BY <2>2, <2>5, <2>6
<1> QED BY <1>5, <1>6

\* Every step is one of asymmetric coroutines, or none.
LEMMA NextRefines ==
    ASSUME IInv, IInv', [Next]_vars
    PROVE  [C!Next]_(C!vars)
<1>1. ASSUME NEW t \in Thread, NEW f \in Frame, Call(t, f) PROVE [C!Next]_(C!vars)
  BY <1>1, SameStack DEF Call, Runs
<1>2. ASSUME NEW t \in Thread, NEW f \in Frame, CallInC(t, f) PROVE [C!Next]_(C!vars)
  <2>1. errfunc[t] \in BOOLEAN
    BY DEF IInv, TypeOK
  <2> QED BY <1>2, <2>1, CallKeeps DEF CallInC, Runs
<1>3. ASSUME NEW t \in Thread, NEW f \in Frame, NEW ef \in BOOLEAN, ProtectedCall(t, f, ef)
      PROVE  [C!Next]_(C!vars)
  BY <1>3, CallKeeps DEF ProtectedCall, Runs
<1>4. ASSUME NEW t \in Thread, Return(t) PROVE [C!Next]_(C!vars)
  BY <1>4, ReturnRefines
<1>5. ASSUME NEW t \in Thread, Error(t) PROVE [C!Next]_(C!vars)
  BY <1>5, SameStack DEF Error, Runs
<1>6. ASSUME NEW t \in Thread, errormsg(t) PROVE [C!Next]_(C!vars)
  <2>1. cstack # <<>> /\ t = Top.thread
    BY <1>6 DEF errormsg, IInv, Bottom
  <2>2. CASE errfunc[t]
    BY <1>6, <2>1, <2>2, CallKeeps DEF errormsg
  <2>3. CASE ~errfunc[t]
    BY <1>6, <2>1, <2>3, SameStack DEF errormsg
  <2> QED BY <2>2, <2>3
<1>7. ASSUME NEW t \in Thread, Yield(t) PROVE [C!Next]_(C!vars)
  <2>1. CASE Yieldable(t)
    BY <1>7, <2>1, YieldRefines
  <2>2. CASE ~Yieldable(t)
    BY <1>7, <2>2, SameStack DEF Yield, Runs
  <2> QED BY <2>1, <2>2
<1>8. ASSUME NEW t \in Thread, NEW c \in Co, Resume(t, c) PROVE [C!Next]_(C!vars)
  BY <1>8, ResumeRefines
<1>9. ASSUME NEW t \in Thread, NEW c \in Co, Create(t, c) \/ ResumeOverflow(t, c)
      PROVE  [C!Next]_(C!vars)
  BY <1>9, QuietRefines
<1>10. CASE luaD_throw
  BY <1>10, ThrowRefines
<1>11. CASE UNCHANGED vars
  <2>1. Running' = Running
    BY <1>11 DEF Running, Top
  <2>2. \A c \in Co : InChain(c)' <=> InChain(c)
    BY <1>11 DEF InChain
  <2>3. Resumers' = Resumers
    BY <1>11, <2>2, ResumersSame
  <2>4. States' = States
    BY <1>11, <2>2, StateSame, StatesSame
  <2> QED BY <1>11, <2>1, <2>3, <2>4 DEF C!vars
<1> QED BY <1>1, <1>2, <1>3, <1>4, <1>5, <1>6, <1>7, <1>8, <1>9, <1>10, <1>11 DEF Next

\* Whatever a program does with calls, errors, resumes and yields, control is
\* handed over as asymmetric coroutines hand it.
THEOREM AsymmetricCoroutinesThm == Spec => AsymmetricCoroutines
<1>1. Init => C!Init
  <2> SUFFICES ASSUME Init PROVE C!Init
    OBVIOUS
  <2>1. IInv /\ \A c \in Co : ~InChain(c)
    BY InitIInv
  <2>2. cstack # <<>> /\ Top.thread = Main /\ \A c \in Co : left[c] = "none"
    <3>1. cstack = <<[kind |-> "pcall", thread |-> Main, ci |-> 0, nCcalls |-> 0,
                      errfunc |-> FALSE]>> /\ \A c \in Co : left[c] = "none"
      BY DEF Init
    <3> QED BY <3>1 DEF Top
  <2>3. Running = Main
    BY <2>2 DEF Running
  <2>4. Resumers = [c \in {} |-> Main]
    BY <2>1 DEF Resumers
  <2>5. States = [c \in Co |-> "none"]
    BY <2>2 DEF States, State
  <2> QED BY <2>2, <2>3, <2>4, <2>5 DEF C!Init
<1>2. IInv /\ IInv' /\ [Next]_vars => [C!Next]_(C!vars)
  BY NextRefines
<1> QED BY <1>1, <1>2, IInvThm, PTL DEF Spec, AsymmetricCoroutines, C!Spec
=============================================================================
