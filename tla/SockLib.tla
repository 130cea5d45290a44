------------------------------ MODULE SockLib ------------------------------
(***************************************************************************)
(* The `socket' library of Lua Server (src/lua/lsocklib.cpp) above the     *)
(* portable socket layer (src/socket/socket.cpp), with the parts of the    *)
(* world it touches: the C heap that holds the SocketInfo records, the     *)
(* descriptor table of the process, the clients at the other end of the    *)
(* connections, and the garbage collector, which closes the descriptors of *)
(* the values it finalizes.                                                *)
(*                                                                         *)
(* The script is arbitrary except for one discipline, the one of           *)
(* test/main.lua: it calls no method on a value it has closed.  `obj'      *)
(* records the kernel object that a script variable was given, so that the *)
(* properties can say whether the pointer still leads to that object.      *)
(***************************************************************************)
EXTENDS Integers, Sequences, FiniteSets, FiniteSetsExt, SequencesExt

CONSTANTS Var,       \* script variables that hold sockets or files
          Ptr,       \* addresses malloc and lua_newuserdata can return
          Handle,    \* descriptors of the process
          Peer,      \* clients; each connects at most once
          Byte,      \* what a client sends, one at a time
          Port,      \* the port arguments of bind that are tried
          MaxObj,    \* bound: kernel objects created in one run
          MaxSent,   \* bound: bytes a client sends
          None

ASSUME SockAssumption ==
    /\ None \notin Ptr \cup Handle \cup Peer
    /\ IsFiniteSet(Peer)
    /\ Port \subseteq Int
    /\ MaxObj \in Nat
    /\ MaxSent \in Nat

VARIABLES SocketsInitialized, \* the static flag of lsocklib.cpp
          heap,    \* heap[p]: the record at p, see Box
          var,     \* var[v]: the userdata value (an address) in variable v
          obj,     \* obj[v]: the kernel object v was given, None once closed
          fd,      \* fd[h]: the kernel object behind a descriptor
          nextObj, \* identity of the next kernel object
          peer,    \* peer[c]: state of client c
          sent,    \* sent[c]: everything client c has sent
          stream,  \* stream[c]: the part of it no recv has taken
          got      \* got[i]: what the script received through object i

script == <<heap, var, obj>>
kernel == <<fd, nextObj>>
clients == <<peer, sent, stream>>
vars == <<SocketsInitialized, script, kernel, clients, got>>

----------------------------------------------------------------------------
(* The kernel side: external code, as src/socket/socket.cpp uses it.       *)

MAX_PORT == 2 * 65536

\* uint16_t, and the conversion to it, which keeps the low 16 bits
Width16 == 65536
uint16 == 0 .. Width16 - 1
uint16_t(n) == n % Width16

Free == [st |-> "free"]
Ids == 1 .. MaxObj
KObject ==
    {Free}
      \cup [st : {"file", "open"}, id : Ids]
      \cup [st : {"bound"}, id : Ids, port : uint16]
      \cup [st : {"listening"}, id : Ids, queue : SeqOf(Peer, Cardinality(Peer))]
      \cup [st : {"conn"}, id : Ids, peer : Peer]

(* A SocketInfo (kind "light": malloc'd, pushed as light userdata) or the  *)
(* userdata of liolib (kind "full").  A freed record keeps what it held.   *)
Box == [kind : {"light", "full"}, live : BOOLEAN, h : Handle \cup {None}]

\* A script value is nil or a userdata: its kind and the address in it.
Value == {"light", "full"} \X Ptr

ASSUME NoneAssumption == None \notin Box \cup Value \cup Ids

Live(p) == heap[p] # None /\ heap[p].live
Address == {p \in Ptr : ~Live(p)}

\* luaL_checkudata: the value has the metatable of its library, and (the
\* script's discipline) it has not been closed
checkudata(v, kind) == /\ obj[v] # None
                       /\ var[v][1] = kind

HandleOf(v) == heap[var[v][2]].h
KernelOf(v) == IF HandleOf(v) = None THEN Free ELSE fd[HandleOf(v)]

TypeOK ==
    /\ SocketsInitialized \in BOOLEAN
    /\ heap \in [Ptr -> Box \cup {None}]
    /\ var \in [Var -> Value \cup {None}]
    /\ obj \in [Var -> Ids \cup {None}]
    /\ fd \in [Handle -> KObject]
    /\ nextObj \in 1 .. MaxObj + 1
    /\ peer \in [Peer -> {"idle", "queued", "open", "done", "refused"}]
    /\ sent \in [Peer -> SeqOf(Byte, MaxSent)]
    /\ stream \in [Peer -> SeqOf(Byte, MaxSent)]
    /\ got \in [Ids -> SeqOf(Byte, MaxSent)]

Init ==
    /\ SocketsInitialized = FALSE
    /\ heap = [p \in Ptr |-> None]
    /\ var = [v \in Var |-> None]
    /\ obj = [v \in Var |-> None]
    /\ fd = [h \in Handle |-> Free]
    /\ nextObj = 1
    /\ peer = [c \in Peer |-> "idle"]
    /\ sent = [c \in Peer |-> <<>>]
    /\ stream = [c \in Peer |-> <<>>]
    /\ got = [i \in Ids |-> <<>>]

----------------------------------------------------------------------------
(* Library functions.                                                      *)

\* SOCKLIB_FUNC_HEADER: Winsock is started by the first call of any function
Header == SocketsInitialized' = TRUE

\* a new record of the given kind for handle h, assigned to variable v
NewBox(v, kind, h, id) ==
    \E p \in Address :
        /\ heap' = [heap EXCEPT ![p] = [kind |-> kind, live |-> TRUE, h |-> h]]
        /\ var' = [var EXCEPT ![v] = <<kind, p>>]
        /\ obj' = [obj EXCEPT ![v] = id]

\* init_socket_instance: INVALID_SOCKET raises before anything is allocated
init_socket_instance(v, h, id) == NewBox(v, "light", h, id)

FreeHandles == {h \in Handle : fd[h] = Free}

\* v = socket.create()
socklib_create(v) ==
    /\ Header
    /\ UNCHANGED <<clients, got>>
    /\ nextObj <= MaxObj
    /\ IF FreeHandles = {}
         THEN UNCHANGED <<script, kernel>>      \* "error ... while creating"
         ELSE \E h \in FreeHandles :
                /\ fd' = [fd EXCEPT ![h] = [st |-> "open", id |-> nextObj]]
                /\ nextObj' = nextObj + 1
                /\ init_socket_instance(v, h, nextObj)

\* Mutant: the port is stored without the conversion to uint16_t.
bind_NoTruncation(v, port) ==
    /\ checkudata(v, "light")
    /\ Header
    /\ UNCHANGED <<script, nextObj, clients, got>>
    /\ IF port <= MAX_PORT /\ KernelOf(v).st = "open"
         THEN fd' = [fd EXCEPT ![HandleOf(v)] =
                       [st |-> "bound", id |-> @.id, port |-> port]]
         ELSE UNCHANGED fd

\* v:bind(ip, port): the port is converted to uint16_t
socklib_bind(v, port) ==
    /\ checkudata(v, "light")
    /\ Header
    /\ UNCHANGED <<script, nextObj, clients, got>>
    /\ IF port <= MAX_PORT /\ KernelOf(v).st = "open"
         THEN fd' = [fd EXCEPT ![HandleOf(v)] =
                       [st |-> "bound", id |-> @.id, port |-> uint16_t(port)]]
         ELSE UNCHANGED fd                      \* "port may be in range", "while binding"

\* v:listen(): the result of listen(2) is dropped
socklib_listen(v) ==
    /\ checkudata(v, "light")
    /\ Header
    /\ UNCHANGED <<script, nextObj, clients, got>>
    /\ IF KernelOf(v).st = "bound"
         THEN fd' = [fd EXCEPT ![HandleOf(v)] =
                       [st |-> "listening", id |-> @.id, queue |-> <<>>]]
         ELSE UNCHANGED fd

\* Mutant: the new instance keeps the listening descriptor.
accept_SameHandle(v, w) ==
    /\ checkudata(v, "light")
    /\ Header
    /\ nextObj <= MaxObj
    /\ KernelOf(v).st = "listening" /\ KernelOf(v).queue # <<>>
    /\ \E h \in FreeHandles :
         LET c == Head(KernelOf(v).queue) IN
         /\ fd' = [fd EXCEPT ![HandleOf(v)].queue = Tail(@),
                             ![h] = [st |-> "conn", id |-> nextObj, peer |-> c]]
         /\ peer' = [peer EXCEPT ![c] = "open"]
         /\ nextObj' = nextObj + 1
         /\ init_socket_instance(w, HandleOf(v), nextObj)
    /\ UNCHANGED <<sent, stream, got>>

\* w = v:accept(): blocks until a client is in the queue
socklib_accept(v, w) ==
    /\ checkudata(v, "light")
    /\ Header
    /\ UNCHANGED <<sent, stream, got>>
    /\ nextObj <= MaxObj
    /\ IF KernelOf(v).st # "listening" \/ FreeHandles = {}
         THEN UNCHANGED <<script, kernel, peer>>
         ELSE /\ KernelOf(v).queue # <<>>
              /\ \E h \in FreeHandles :
                   LET c == Head(KernelOf(v).queue) IN
                   /\ fd' = [fd EXCEPT ![HandleOf(v)].queue = Tail(@),
                                       ![h] = [st |-> "conn", id |-> nextObj, peer |-> c]]
                   /\ peer' = [peer EXCEPT ![c] = "open"]
                   /\ nextObj' = nextObj + 1
                   /\ init_socket_instance(w, h, nextObj)

\* Mutant: the string ends at the first zero byte (lua_pushstring).
recv_StopsAtZero(v, size) ==
    /\ checkudata(v, "light")
    /\ Header
    /\ UNCHANGED <<script, kernel, peer, sent>>
    /\ KernelOf(v).st = "conn"
    /\ LET c == KernelOf(v).peer
           n == IF Len(stream[c]) < size THEN Len(stream[c]) ELSE size
           text == {k \in 0 .. n : \A j \in 1 .. k : stream[c][j] # 0} IN
       /\ stream[c] # <<>>
       /\ got' = [got EXCEPT ![obj[v]] = @ \o SubSeq(stream[c], 1, Max(text))]
       /\ stream' = [stream EXCEPT ![c] = SubSeq(@, n + 1, Len(@))]

\* v:recv(size): blocks until the client has sent something or has finished
socklib_recv(v, size) ==
    /\ checkudata(v, "light")
    /\ Header
    /\ UNCHANGED <<script, kernel, peer, sent>>
    /\ IF KernelOf(v).st # "conn"
         THEN UNCHANGED <<stream, got>>         \* "error ... while receiving"
         ELSE LET c == KernelOf(v).peer IN
              /\ stream[c] # <<>> \/ peer[c] = "done"
              /\ \E n \in 0 .. Len(stream[c]) :
                   /\ n <= size
                   /\ n = 0 <=> stream[c] = <<>>
                   /\ got' = [got EXCEPT ![obj[v]] = @ \o SubSeq(stream[c], 1, n)]
                   /\ stream' = [stream EXCEPT ![c] = SubSeq(@, n + 1, Len(@))]

\* closing a listening descriptor refuses the clients still in its queue
Refuse(k) ==
    peer' = [c \in Peer |-> IF k.st = "listening" /\ c \in ToSet(k.queue)
                              THEN "refused" ELSE peer[c]]

\* socket_Close: close(2) of whatever the descriptor leads to
socket_Close(h) == /\ fd' = [fd EXCEPT ![h] = Free]
                   /\ Refuse(fd[h])

\* the variables of the script that denote the object of v
SameObject(v) == {w \in Var : obj[w] = obj[v]}

\* Mutant: the record is freed and its descriptor forgotten.
close_KeepsHandle(v) ==
    /\ checkudata(v, "light")
    /\ Header
    /\ heap' = [heap EXCEPT ![var[v][2]].live = FALSE]
    /\ obj' = [w \in Var |-> IF w \in SameObject(v) THEN None ELSE obj[w]]
    /\ UNCHANGED <<var, kernel, clients, got>>

\* v:close(), or the __gc metamethod called by the script: the descriptor is
\* closed and the record freed; every variable keeps the freed address
socklib_close(v) ==
    /\ checkudata(v, "light")
    /\ Header
    /\ socket_Close(HandleOf(v))
    /\ heap' = [heap EXCEPT ![var[v][2]].live = FALSE]
    /\ obj' = [w \in Var |-> IF w \in SameObject(v) THEN None ELSE obj[w]]
    /\ UNCHANGED <<var, nextObj, sent, stream, got>>

----------------------------------------------------------------------------
(* The io library shares the descriptor table, and boxes a descriptor the  *)
(* other way: in full userdata the collector owns.                         *)

\* v = io.open(name)
io_open(v) ==
    /\ nextObj <= MaxObj
    /\ \E h \in FreeHandles :
         /\ fd' = [fd EXCEPT ![h] = [st |-> "file", id |-> nextObj]]
         /\ nextObj' = nextObj + 1
         /\ NewBox(v, "full", h, nextObj)
    /\ UNCHANGED <<SocketsInitialized, clients, got>>

\* v:close() of a file: the box stays, marked closed by *p = NULL
io_fclose(v) ==
    /\ checkudata(v, "full")
    /\ HandleOf(v) # None
    /\ socket_Close(HandleOf(v))
    /\ heap' = [heap EXCEPT ![var[v][2]].h = None]
    /\ obj' = [w \in Var |-> IF w \in SameObject(v) THEN None ELSE obj[w]]
    /\ UNCHANGED <<SocketsInitialized, var, nextObj, sent, stream, got>>

Lost(kind, p) == /\ Live(p)
                 /\ heap[p].kind = kind
                 /\ \A v \in Var : var[v] # <<kind, p>>

\* Mutant: the finalizer skips the files that are still open.
Collect_SkipsOpen(p) ==
    /\ Lost("full", p)
    /\ heap[p].h = None
    /\ heap' = [heap EXCEPT ![p].live = FALSE]
    /\ UNCHANGED <<SocketsInitialized, var, obj, kernel, clients, got>>

\* A collection finalizes (io_gc) and frees an unreachable full userdata.
\* A light userdata is a plain address to the collector: there is nothing
\* in it to finalize or free (luaC_separateudata walks TUSERDATA objects).
Collect(p) ==
    /\ Lost("full", p)
    /\ heap' = [heap EXCEPT ![p].live = FALSE]
    /\ IF heap[p].h = None THEN UNCHANGED <<fd, peer>> ELSE socket_Close(heap[p].h)
    /\ UNCHANGED <<SocketsInitialized, var, obj, nextObj, sent, stream, got>>

----------------------------------------------------------------------------
(* The script's own assignments, and the clients.                          *)

Forget(v) ==
    /\ var[v] # None
    /\ var' = [var EXCEPT ![v] = None]
    /\ obj' = [obj EXCEPT ![v] = None]
    /\ UNCHANGED <<SocketsInitialized, heap, kernel, clients, got>>

Assign(v, w) ==
    /\ var' = [var EXCEPT ![v] = var[w]]
    /\ obj' = [obj EXCEPT ![v] = obj[w]]
    /\ UNCHANGED <<SocketsInitialized, heap, kernel, clients, got>>

PeerConnect(c) ==
    /\ peer[c] = "idle"
    /\ \E h \in Handle :
         /\ fd[h].st = "listening"
         /\ fd' = [fd EXCEPT ![h].queue = Append(@, c)]
    /\ peer' = [peer EXCEPT ![c] = "queued"]
    /\ UNCHANGED <<SocketsInitialized, script, nextObj, sent, stream, got>>

PeerSend(c) ==
    /\ peer[c] \in {"queued", "open"}
    /\ Len(sent[c]) < MaxSent
    /\ \E b \in Byte : /\ sent' = [sent EXCEPT ![c] = Append(@, b)]
                       /\ stream' = [stream EXCEPT ![c] = Append(@, b)]
    /\ UNCHANGED <<SocketsInitialized, script, kernel, peer, got>>

PeerFinish(c) ==
    /\ peer[c] = "open"
    /\ peer' = [peer EXCEPT ![c] = "done"]
    /\ UNCHANGED <<SocketsInitialized, script, kernel, sent, stream, got>>

ScriptNext ==
    \E v \in Var :
        \/ socklib_create(v)
        \/ \E port \in Port : socklib_bind(v, port)
        \/ socklib_listen(v)
        \/ \E w \in Var : socklib_accept(v, w)
        \/ \E size \in 1 .. MaxSent : socklib_recv(v, size)
        \/ socklib_close(v)
        \/ io_open(v)
        \/ io_fclose(v)
        \/ Forget(v)
        \/ \E w \in Var : Assign(v, w)

PeerNext == \E c \in Peer : PeerConnect(c) \/ PeerSend(c) \/ PeerFinish(c)

Next == ScriptNext \/ PeerNext \/ \E p \in Ptr : Collect(p)

(* The collector runs again and again while the script allocates.          *)
Fairness == \A p \in Ptr : WF_vars(Collect(p))

Spec == Init /\ [][Next]_vars /\ Fairness

----------------------------------------------------------------------------
(* Properties.                                                             *)

\* As long as the script uses no value after closing it, the pointer in a
\* variable leads through a live record and an open descriptor to the very
\* kernel object the variable was given: neither the reuse of freed
\* addresses nor the reuse of closed descriptors crosses two connections.
NoAlias ==
    \A v \in Var : obj[v] # None =>
        /\ Live(var[v][2])
        /\ HandleOf(v) # None
        /\ fd[HandleOf(v)] # Free
        /\ fd[HandleOf(v)].id = obj[v]

\* Every open descriptor belongs to exactly one live record, so a close or a
\* collection can never close the descriptor under another value.
OneOwner ==
    \A h \in Handle : fd[h] # Free =>
        Cardinality({p \in Ptr : Live(p) /\ heap[p].h = h}) = 1

\* What the script received through a connection is a prefix of what that
\* connection's client sent; nothing is lost, doubled or taken from another.
StreamIntegrity ==
    \A h \in Handle : fd[h].st = "conn" =>
        got[fd[h].id] \o stream[fd[h].peer] = sent[fd[h].peer]

\* A file the script lost is closed in the end, so lost files cannot exhaust
\* the descriptors.
FilesReclaimed == \A p \in Ptr : Lost("full", p) ~> ~Lost("full", p)

\* README: server software "without needing to worry about garbage
\* collection": the same for sockets.
SocketsReclaimed == \A p \in Ptr : Lost("light", p) ~> ~Lost("light", p)
=============================================================================
