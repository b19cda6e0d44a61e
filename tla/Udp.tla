--------------------------------- MODULE Udp ---------------------------------
(***************************************************************************)
(* Connections over UDP: the listener and its clone sockets                *)
(* (core/udp_listener.cpp), UdpServer (core/udp_server.cpp), the table of  *)
(* peers ISocketManager (core/connection.h), Manager::createUdpConnection  *)
(* and createUdpClient (core/manager.cpp), UdpConnection and UdpClient     *)
(* (core/udp_connection.cpp, core/udp_client.cpp).                         *)
(*                                                                         *)
(* The first datagram of a peer reaches the listening socket.  The thread  *)
(* of the listener opens a socket connected to that peer, files it in the  *)
(* table and hands datagram and socket to a worker, which builds the       *)
(* connection.  What was queued at the listening socket meanwhile goes the *)
(* same way, through the table.  Descriptors are reused once closed.       *)
(***************************************************************************)
EXTENDS Naturals, Sequences, FiniteSets, FiniteSetsExt, Functions

CONSTANTS
    Peers,        \* remote addresses that write to the listener
    Server,       \* the address UdpClient connects to
    None,
    Workers,      \* Scheduler::_workers.size() - 1
    HashKey,      \* IServerContext::hashKey, or None
    MaxFd,        \* bound: descriptors 1..MaxFd
    MaxConn,      \* bound: connections ever made
    MaxDatagrams, \* bound: datagrams of all addresses together
    MaxOut,       \* bound: datagrams in _output
    QueueLimit    \* Worker::_queueLimit

\* Addresses are told from the other values of a descriptor's owner, and None
\* from an entry of the table and an accept under way.
ASSUME UdpAssumption ==
    /\ IsFiniteSet(Peers) /\ Server \notin Peers /\ None \notin Peers \cup {Server}
    /\ {"closed", "bound"} \cap (Peers \cup {Server}) = {}
    /\ None \notin [fd : Nat, conn : Nat]
    /\ None \notin [fd : Nat, data : [from : Peers, n : Nat]]
    /\ HashKey \in Nat \cup {None}
    /\ Workers \in Nat \ {0} /\ MaxFd \in Nat /\ MaxConn \in Nat
    /\ MaxDatagrams \in Nat /\ MaxOut \in Nat /\ QueueLimit \in Nat

Addresses == Peers \cup {Server}
Fds       == 1..MaxFd
Ids       == 1..MaxConn
Threads   == 0..Workers    \* thread 0 runs the listener

VARIABLES
    shareThread,  \* IServerContext::shareThread: connections stay on thread 0
    sent,         \* datagrams each address has sent
    owner,        \* descriptor -> "closed", "bound", or the address it is connected to
    inbox,        \* receive queue of the listening socket
    queue,        \* receive queue of every other socket
    sockets,      \* ISocketManager::_sockets: peer -> descriptor and connection
    accepting,    \* accept() between bind and connect, or None
    tasks,        \* doAccept tasks of each worker
    conns,        \* UdpConnection objects; `empty' if _output starts with an empty datagram
    handled,      \* history: <<peer of the connection, datagram>> given to onData
    mishaps       \* history: what went wrong outside the connections' control

vars == <<shareThread, sent, owner, inbox, queue, sockets, accepting, tasks,
          conns, handled, mishaps>>

NoConn == [phase |-> "none", peer |-> None, fd |-> 0, worker |-> 0, watched |-> FALSE,
           out |-> 0, writes |-> FALSE, empty |-> FALSE]

(* What may spoil the promises below: "stale", a task that outlived its    *)
(* socket; "kept", a connection the application keeps after its close;     *)
(* "stray", a datagram that came between bind and connect; "refused", a    *)
(* task the worker did not take; "failed", a system call; "unread",        *)
(* datagrams still in the queue of a socket when it is closed; "thrown",   *)
(* an onConnected that throws; and "empty", a datagram of no bytes, which  *)
(* a connection's socket takes for the end of its peer.                    *)

Init ==
    /\ shareThread \in BOOLEAN
    /\ sent = [a \in Addresses |-> 0]
    /\ owner = [f \in Fds |-> "closed"]
    /\ inbox = <<>> /\ queue = [f \in Fds |-> <<>>]
    /\ sockets = [p \in Peers |-> None]
    /\ accepting = None
    /\ tasks = [w \in Threads |-> <<>>]
    /\ conns = [c \in Ids |-> NoConn]
    /\ handled = {} /\ mishaps = {}

-----------------------------------------------------------------------------
(* The network and the kernel.                                             *)

(* A datagram goes to a socket connected to its sender, else to the        *)
(* listener or to a socket that is bound to the same port and not yet      *)
(* connected (SO_REUSEPORT).                                               *)
Arrive(a) ==
    LET d    == [from |-> a, n |-> sent[a] + 1]
        mine == {f \in Fds : owner[f] = a}
        open == {f \in Fds : owner[f] = "bound"}
    IN  /\ MapThenSumSet(LAMBDA x : sent[x], Addresses) < MaxDatagrams
        /\ a = Server => mine # {}
        /\ sent' = [sent EXCEPT ![a] = @ + 1]
        /\ \/ \E f \in mine :
                /\ queue' = [queue EXCEPT ![f] = Append(@, d)]
                /\ UNCHANGED <<inbox, mishaps>>
           \/ /\ mine = {}
              /\ inbox' = Append(inbox, d)
              /\ UNCHANGED <<queue, mishaps>>
           \/ /\ mine = {}
              /\ \E f \in open : queue' = [queue EXCEPT ![f] = Append(@, d)]
              /\ mishaps' = mishaps \cup {"stray"}
              /\ UNCHANGED inbox
        /\ UNCHANGED <<shareThread, owner, sockets, accepting, tasks, conns, handled>>

FreeFds == {f \in Fds : owner[f] = "closed"}

-----------------------------------------------------------------------------
(* Connections.                                                            *)

Open(c) == conns[c].phase = "open"

FreeIds == {c \in Ids : conns[c].phase = "none"}

(* Mutant: the port is not part of the key.                                *)
KeyWithoutPort(p) == CHOOSE x \in Peers : TRUE

(* ISocketManager's key: the address and the port of the peer.             *)
Key(p) == p

Entry(table, p) == table[Key(p)]

(* A thread is busy while it is inside a destructor or, if it is the       *)
(* listener's, inside accept.                                              *)
Idle(w) ==
    /\ \A c \in Ids : conns[c].worker = w => conns[c].phase # "dying"
    /\ w = 0 => accepting = None

Watched(f, w) ==
    \E c \in Ids : Open(c) /\ conns[c].fd = f /\ conns[c].worker = w /\ conns[c].watched

(* Another connection of this thread may already have the descriptor in    *)
(* epoll: setupEpoll logs EEXIST and the connection is never notified.     *)
NewConnection(f, p, w) ==
    [phase |-> "open", peer |-> p, fd |-> f, worker |-> w, watched |-> ~Watched(f, w),
     out |-> 0, writes |-> FALSE, empty |-> FALSE]

(* How a callback leaves its connection: open, closed, or closed and still *)
(* referenced by the application.                                          *)
Leaves == {"open", "dying", "closed"}

(* Mutant: the destructor leaves the entry in the table.                   *)
WithoutEntryLost(table, c) == table

(* ~UdpConnection forgets the peer before ~SocketHelper closes the socket. *)
(* A UdpClient has no listener.                                            *)
WithoutEntry(table, c) ==
    IF c.peer \in Peers THEN [table EXCEPT ![Key(c.peer)] = None] ELSE table

(* handleOnClose, handleOnInitiativeClose: out of epoll, out of Manager;   *)
(* the object goes with its last reference.                                *)
Leave(c, how) == [c EXCEPT !.phase = how, !.watched = @ /\ how = "open"]

Left(table, c, how) == IF how = "dying" THEN WithoutEntry(table, c) ELSE table

Kept(how) == IF how = "closed" THEN {"kept"} ELSE {}

(* The rest of the destructor.                                             *)
CloseSocket(c) ==
    /\ conns[c].phase = "dying"
    /\ LET f == conns[c].fd
       IN  /\ owner' = [owner EXCEPT ![f] = "closed"]
           /\ queue' = [queue EXCEPT ![f] = <<>>]
           /\ mishaps' = IF queue[f] = <<>> THEN mishaps ELSE mishaps \cup {"unread"}
           /\ conns' = [i \in Ids |->
                 IF i = c
                 THEN [conns[i] EXCEPT !.phase = "gone", !.out = 0, !.writes = FALSE,
                                       !.empty = FALSE]
                 ELSE [conns[i] EXCEPT !.watched = @ /\ conns[i].fd # f]]
           /\ tasks' = [w \in Threads |-> [i \in DOMAIN tasks[w] |->
                 [tasks[w][i] EXCEPT !.stale = @ \/ tasks[w][i].fd = f]]]
    /\ UNCHANGED <<shareThread, sent, inbox, sockets, accepting, handled>>

(* The application drops its reference to a closed connection.             *)
Release(c) ==
    /\ conns[c].phase = "closed" /\ Idle(conns[c].worker)
    /\ conns' = [conns EXCEPT ![c].phase = "dying"]
    /\ sockets' = WithoutEntry(sockets, conns[c])
    /\ UNCHANGED <<shareThread, sent, owner, inbox, queue, accepting, tasks, handled, mishaps>>

-----------------------------------------------------------------------------
(* createUdpConnection on thread w.  The datagram goes to the connection   *)
(* the table names, if this thread's Manager has it; else the connection   *)
(* is built, unless the descriptor is no longer open.                      *)

Known(w, p) ==
    LET e == Entry(sockets, p)
    IN  e # None /\ e.conn # 0 /\ Open(e.conn) /\ conns[e.conn].worker = w

Deliver(c, d, how) ==
    /\ handled' = handled \cup {<<conns[c].peer, d>>}
    /\ conns' = [conns EXCEPT ![c] = Leave(@, how)]
    /\ sockets' = Left(sockets, conns[c], how)
    /\ mishaps' = mishaps \cup Kept(how)

(* ISocketManager::setConnId; that the peer is not there is only logged.   *)
SetConnId(table, p, c) ==
    IF Entry(table, p) = None THEN table ELSE [table EXCEPT ![Key(p)].conn = c]

(* Mutant: the datagram that made the connection is not handed to it.      *)
BuildDropsData(w, t, table, how) ==
    LET c == Min(FreeIds)
        p == t.data.from
        n == NewConnection(t.fd, p, w)
    IN  /\ FreeIds # {}
        /\ conns' = [conns EXCEPT ![c] = Leave(n, how)]
        /\ sockets' = Left(SetConnId(table, p, c), n, how)
        /\ UNCHANGED handled
        /\ mishaps' = mishaps \cup Kept(how) \cup (IF t.stale THEN {"stale"} ELSE {})

(* A new connection gets onConnected and then onData.  An onConnected that *)
(* throws leaves createUdpConnection, with the connection made and filed,  *)
(* for the worker or the listener to swallow: onData is not called.        *)
Build(w, t, table, how) ==
    LET c == Min(FreeIds)
        p == t.data.from
        n == NewConnection(t.fd, p, w)
    IN  /\ FreeIds # {}
        /\ conns' = [conns EXCEPT ![c] = Leave(n, how)]
        /\ sockets' = Left(SetConnId(table, p, c), n, how)
        /\ \E thrown \in SUBSET {"thrown"} :
              /\ handled' = IF thrown = {} THEN handled \cup {<<p, t.data>>} ELSE handled
              /\ mishaps' = mishaps \cup Kept(how) \cup thrown
                               \cup (IF t.stale THEN {"stale"} ELSE {})

(* The constructor throws: the object is destroyed, which forgets the peer.*)
BuildFails(t, table) ==
    /\ sockets' = [table EXCEPT ![Key(t.data.from)] = None]
    /\ mishaps' = mishaps \cup {"stale"}
    /\ UNCHANGED <<conns, handled>>

CreateUdpConnection(w, t) ==
    IF Known(w, t.data.from)
    THEN \E how \in Leaves : Deliver(Entry(sockets, t.data.from).conn, t.data, how)
    ELSE IF owner[t.fd] = "closed"
    THEN BuildFails(t, sockets)
    ELSE \E how \in Leaves : Build(w, t, sockets, how)

DoAccept(w) ==
    /\ tasks[w] # <<>> /\ Idle(w)
    /\ CreateUdpConnection(w, Head(tasks[w]))
    /\ tasks' = [tasks EXCEPT ![w] = Tail(@)]
    /\ UNCHANGED <<shareThread, sent, owner, inbox, queue, accepting>>

-----------------------------------------------------------------------------
(* The listener.                                                           *)

KeyOf(t) == IF HashKey = None THEN t.fd ELSE HashKey

WorkerOfKey(key) == (key % Workers) + 1

Task(f, d) == [fd |-> f, data |-> d, stale |-> FALSE]

(* Scheduler::schedule, whose answer onAccept ignores.                     *)
Schedule(t) ==
    LET w == WorkerOfKey(KeyOf(t))
    IN  IF Len(tasks[w]) > QueueLimit
        THEN mishaps' = mishaps \cup {"refused"} /\ UNCHANGED tasks
        ELSE tasks' = [tasks EXCEPT ![w] = Append(@, t)] /\ UNCHANGED mishaps

(* UdpServer::onAccept with a socket the table already had ...             *)
OnAcceptKnown(t) ==
    IF shareThread
    THEN CreateUdpConnection(0, t) /\ UNCHANGED tasks
    ELSE Schedule(t) /\ UNCHANGED <<conns, handled, sockets>>

(* ... and with a new one, which accept has just filed.                    *)
OnAcceptNew(t, table) ==
    IF shareThread
    THEN (\E how \in Leaves : Build(0, t, table, how)) /\ UNCHANGED tasks
    ELSE Schedule(t) /\ sockets' = table /\ UNCHANGED <<conns, handled>>

ListenerRuns ==
    /\ Idle(0) /\ inbox # <<>>
    /\ inbox' = Tail(inbox)

(* accept finds the peer in the table.                                     *)
AcceptKnown ==
    LET d == Head(inbox)
    IN  /\ ListenerRuns /\ Entry(sockets, d.from) # None
        /\ OnAcceptKnown(Task(Entry(sockets, d.from).fd, d))
        /\ UNCHANGED <<shareThread, sent, owner, queue, accepting>>

(* accept opens a socket and binds it to the listener's address ...        *)
AcceptBind ==
    LET d == Head(inbox)
        f == Min(FreeFds)
    IN  /\ ListenerRuns /\ Entry(sockets, d.from) = None
        /\ FreeFds # {}
        /\ owner' = [owner EXCEPT ![f] = "bound"]
        /\ accepting' = [fd |-> f, data |-> d]
        /\ UNCHANGED <<shareThread, sent, queue, sockets, tasks, conns, handled, mishaps>>

(* ... connects it to the peer and files it.                               *)
AcceptConnect ==
    LET f == accepting.fd
        p == accepting.data.from
    IN  /\ accepting # None
        /\ accepting' = None
        /\ owner' = [owner EXCEPT ![f] = p]
        /\ OnAcceptNew(Task(f, accepting.data),
                       [sockets EXCEPT ![Key(p)] = [fd |-> f, conn |-> 0]])
        /\ UNCHANGED <<shareThread, sent, inbox, queue>>

(* socket, bind or connect fails: the datagram is dropped.                 *)
AcceptFails ==
    /\ \/ /\ accepting # None
          /\ accepting' = None
          /\ owner' = [owner EXCEPT ![accepting.fd] = "closed"]
          /\ queue' = [queue EXCEPT ![accepting.fd] = <<>>]
          /\ UNCHANGED inbox
       \/ /\ ListenerRuns /\ Entry(sockets, Head(inbox).from) = None /\ FreeFds = {}
          /\ UNCHANGED <<accepting, owner, queue>>
    /\ mishaps' = mishaps \cup {"failed"}
    /\ UNCHANGED <<shareThread, sent, sockets, tasks, conns, handled>>

-----------------------------------------------------------------------------
(* UdpClient: a socket connected to the server, and no entry in the table. *)

(* A datagram socket is connected at once, inside the constructor.         *)
NewClient(f, w) == NewConnection(f, Server, w)

CreateUdpClient(w, how) ==
    LET c == Min(FreeIds)
        f == Min(FreeFds)
        n == NewClient(f, w)
    IN  /\ Idle(w) /\ FreeIds # {} /\ FreeFds # {}
        /\ owner' = [owner EXCEPT ![f] = Server]
        /\ conns' = [conns EXCEPT ![c] = Leave(n, how)]
        /\ mishaps' = mishaps \cup Kept(how)
        /\ UNCHANGED <<shareThread, sent, inbox, queue, sockets, accepting, tasks, handled>>

-----------------------------------------------------------------------------
(* A connection on its thread.                                             *)

Runs(c) == Open(c) /\ Idle(conns[c].worker)

(* onRead: one datagram, which goes to onData; an answer below zero or an  *)
(* exception closes.                                                       *)
OnRead(c) ==
    LET f == conns[c].fd
    IN  /\ Runs(c) /\ conns[c].watched /\ queue[f] # <<>>
        /\ \E how \in Leaves : Deliver(c, Head(queue[f]), how)
        /\ queue' = [queue EXCEPT ![f] = Tail(@)]
        /\ UNCHANGED <<shareThread, sent, owner, inbox, accepting, tasks>>

(* recv answers 0 to a datagram without bytes, which SocketHelper takes    *)
(* for a peer that has shut down: onRead swallows the error and the        *)
(* datagram.  (accept does hand an empty datagram on.)                     *)
OnReadEmpty(c) ==
    LET f == conns[c].fd
    IN  /\ Runs(c) /\ conns[c].watched /\ queue[f] # <<>>
        /\ queue' = [queue EXCEPT ![f] = Tail(@)]
        /\ mishaps' = mishaps \cup {"empty"}
        /\ UNCHANGED <<shareThread, sent, owner, inbox, sockets, accepting, tasks, conns,
                       handled>>

(* close() by the application, onTimeout with the peer silent for too      *)
(* long, an error out of flush, or an input buffer without room for the    *)
(* datagram, which then stays in the socket's queue.  A timer that finds   *)
(* the peer alive is armed again and changes nothing here.                 *)
Close(c, how) ==
    /\ Runs(c) /\ how # "open"
    /\ conns' = [conns EXCEPT ![c] = Leave(@, how)]
    /\ sockets' = Left(sockets, conns[c], how)
    /\ mishaps' = mishaps \cup Kept(how)
    /\ UNCHANGED <<shareThread, sent, owner, inbox, queue, accepting, tasks, handled>>

(* Mutant: room to write is not watched for.                               *)
SendUnwatched(c) == [c EXCEPT !.out = @ + 1]

(* send of some bytes when the kernel has no room, or something is queued  *)
(* already.  One that the kernel takes at once changes nothing here, and   *)
(* neither does one that fails: the error is swallowed and the datagram    *)
(* with it.                                                                *)
SendQueued(c) == [c EXCEPT !.out = @ + 1, !.writes = @ \/ c.out = 0]

Send(c) ==
    /\ Runs(c) /\ conns[c].out < MaxOut
    /\ conns' = [conns EXCEPT ![c] = SendQueued(@)]
    /\ UNCHANGED <<shareThread, sent, owner, inbox, queue, sockets, accepting, tasks, handled, mishaps>>

(* send(0, 0), which the interface offers to ask for the size of _output:  *)
(* the kernel answers 0 to the empty datagram it sends, send takes that    *)
(* for no room and queues another.  Behind other datagrams, or when the    *)
(* socket has an error, it changes nothing.                                *)
SendNothing(c) ==
    /\ Runs(c) /\ conns[c].out = 0 /\ 0 < MaxOut
    /\ conns' = [conns EXCEPT ![c].out = 1, ![c].writes = TRUE, ![c].empty = TRUE]
    /\ UNCHANGED <<shareThread, sent, owner, inbox, queue, sockets, accepting, tasks, handled, mishaps>>

(* onWrite: flush hands n datagrams to the kernel; onWrite of the          *)
(* application follows when none is left.  An empty datagram at the front  *)
(* is sent each time and, for the 0 it answers, never taken off the queue. *)
OnWrite(c, n) ==
    /\ Runs(c) /\ conns[c].writes /\ ~conns[c].empty /\ n \in 1..conns[c].out
    /\ conns' = [conns EXCEPT ![c].out = @ - n, ![c].writes = n < conns[c].out]
    /\ UNCHANGED <<shareThread, sent, owner, inbox, queue, sockets, accepting, tasks, handled, mishaps>>

-----------------------------------------------------------------------------
Listener == AcceptKnown \/ AcceptBind \/ AcceptConnect \/ AcceptFails

Connection(c) ==
    \/ CloseSocket(c) \/ Release(c) \/ OnRead(c) \/ OnReadEmpty(c)
    \/ Send(c) \/ SendNothing(c)
    \/ \E n \in 1..MaxOut : OnWrite(c, n)
    \/ \E how \in Leaves : Close(c, how)

Next ==
    \/ \E a \in Addresses : Arrive(a)
    \/ Listener
    \/ \E w \in Threads : DoAccept(w) \/ \E how \in Leaves : CreateUdpClient(w, how)
    \/ \E c \in Ids : Connection(c)

(* The event loops run: the listener reads and completes its accepts,      *)
(* workers run their tasks, connections read, and destructors end.         *)
Spec ==
    /\ Init /\ [][Next]_vars
    /\ WF_vars(AcceptKnown \/ AcceptBind \/ AcceptConnect)
    /\ \A w \in Threads : WF_vars(DoAccept(w))
    /\ \A c \in Ids : WF_vars(CloseSocket(c)) /\ WF_vars(OnRead(c))
    /\ \A c \in Ids : WF_vars(\E n \in 1..MaxOut : OnWrite(c, n))

-----------------------------------------------------------------------------
(* Properties.                                                             *)

(* A connection a peer has is the one the table names, and both have the   *)
(* socket that is connected to that peer: so a peer never has two          *)
(* connections, and what the listener still finds in its own queue reaches *)
(* the right one.  Only a task that outlived its socket and a connection   *)
(* kept after its close can spoil this (manager.cpp:160-188).              *)
TableMatchesConnections ==
    mishaps \cap {"stale", "kept"} = {} =>
        /\ \A p \in Peers : sockets[p] # None => owner[sockets[p].fd] = p
        /\ \A c \in Ids : Open(c) /\ conns[c].peer \in Peers =>
              sockets[conns[c].peer] = [fd |-> conns[c].fd, conn |-> c]

(* A connection is given the datagrams of its own peer only, whatever      *)
(* descriptors are reused, but for the window between bind and connect     *)
(* (udp_listener.cpp:109-116) and the two cases above.                     *)
OwnDatagrams ==
    mishaps \cap {"stale", "kept", "stray"} = {} =>
        \A h \in handled : h[1] = h[2].from

(* Where a datagram may be, from its arrival until onData has it, and what *)
(* each of these places holds.                                             *)
Places ==
    ({"inbox", "accepting", "handled"} \X {0})
        \cup ({"queue"} \X Fds) \cup ({"tasks"} \X Threads)

Data(w) == [i \in DOMAIN tasks[w] |-> tasks[w][i].data]

Holds(x) ==
    CASE x[1] = "inbox"     -> Range(inbox)
      [] x[1] = "accepting" -> IF accepting = None THEN {} ELSE {accepting.data}
      [] x[1] = "handled"   -> {h[2] : h \in handled}
      [] x[1] = "queue"     -> Range(queue[x[2]])
      [] x[1] = "tasks"     -> Range(Data(x[2]))

OnceInPlace ==
    /\ IsInjective(inbox)
    /\ \A f \in Fds : IsInjective(queue[f])
    /\ \A w \in Threads : IsInjective(Data(w))
    /\ \A g, h \in handled : g[2] = h[2] => g = h

(* A datagram is in one place at a time and there once, whatever fails and *)
(* however the listener, the workers and the connections interleave: none  *)
(* is given to the application twice.  And it is lost only to a task that  *)
(* is refused or finds its socket closed, an accept that fails, a socket   *)
(* that is closed before it was read, an onConnected that throws (for the  *)
(* datagram that made the connection), or for having no bytes.             *)
DatagramsConserved ==
    /\ \A x \in Places : \A d \in Holds(x) : \A y \in Places : d \in Holds(y) => x = y
    /\ OnceInPlace
    /\ mishaps \cap {"refused", "stale", "failed", "unread", "thrown", "empty"} = {} =>
         \A a \in Addresses : \A n \in 1..sent[a] :
            \E x \in Places : [from |-> a, n |-> n] \in Holds(x)

(* The bound on connections, and not the code, holds a datagram up.        *)
OutOfIds ==
    FreeIds = {} /\ (accepting # None \/ inbox # <<>> \/ \E w \in Threads : tasks[w] # <<>>)

(* Every datagram that arrives is handed to the application, by the        *)
(* listener's task or by its connection's socket, as long as nothing is    *)
(* refused, fails, or is closed under it.                                  *)
EveryDatagramHandled ==
    []<>(\/ \A a \in Peers, n \in 1..MaxDatagrams :
               sent[a] >= n => <<a, [from |-> a, n |-> n]>> \in handled
         \/ mishaps # {} \/ OutOfIds)

(* What send queued is watched for by epoll and handed to the kernel,      *)
(* unless the connection is closed first or the application asked for the  *)
(* size with send(0, 0).                                                   *)
OutputDrains ==
    \A c \in Ids : []<>(\/ conns[c].out = 0 \/ ~Open(c) \/ conns[c].empty
                        \/ mishaps # {} \/ OutOfIds)

(* "If send returns a value above 0 the onWrite event will be triggered,   *)
(* and send(0,0) may be used to ask for the size of the output buffer",    *)
(* says the interface (connection.h:140-141).                              *)
OnWriteFollowsSend ==
    \A c \in Ids : []<>(conns[c].out = 0 \/ ~Open(c) \/ mishaps # {} \/ OutOfIds)
=============================================================================
