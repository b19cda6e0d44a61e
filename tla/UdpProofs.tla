------------------------------ MODULE UdpProofs ------------------------------
(***************************************************************************)
(* Proofs about Udp for any number of peers, workers, descriptors,         *)
(* connections and datagrams: the listener's table and the connections     *)
(* agree, a connection is given its own peer's datagrams only, and every   *)
(* datagram is in one place at a time, lost only where something failed.   *)
(***************************************************************************)
EXTENDS Udp, WellFoundedInduction, TLAPS

-----------------------------------------------------------------------------
(* Natural numbers.                                                        *)

\* Every nonempty set of natural numbers has a least element.
LEMMA LeastNatural ==
  ASSUME NEW T, T \subseteq Nat, T # {}
  PROVE  \E x \in T : \A y \in T : x <= y
<1>1. PICK x \in T : \A y \in T : ~(<<y, x>> \in OpToRel(<, Nat))
  BY NatLessThanWellFounded, WFMin, Zenon
<1>2. \A y \in Nat : <<y, x>> \in OpToRel(<, Nat) <=> y < x
  BY DEF OpToRel
<1>3. \A y \in T : ~(y < x)
  BY <1>1, <1>2, Zenon
<1> QED
  BY <1>3

-----------------------------------------------------------------------------
(* The inductive invariant.                                                *)

Datagram(A) == [from : A, n : Nat]

Phases == {"none", "open", "dying", "closed", "gone"}

ConnType ==
    [phase : Phases, peer : Addresses \cup {None}, fd : 0..MaxFd, worker : Threads,
     watched : BOOLEAN, out : Nat, writes : BOOLEAN, empty : BOOLEAN]

TaskType == [fd : Fds, data : Datagram(Peers), stale : BOOLEAN]

(* Only peers without a socket of their own reach the listening socket, so *)
(* everything that goes through the listener comes from a peer.            *)
TypeOK ==
    /\ shareThread \in BOOLEAN
    /\ sent \in [Addresses -> Nat]
    /\ owner \in [Fds -> Addresses \cup {"closed", "bound"}]
    /\ inbox \in Seq(Datagram(Peers))
    /\ queue \in [Fds -> Seq(Datagram(Addresses))]
    /\ sockets \in [Peers -> [fd : Fds, conn : 0..MaxConn] \cup {None}]
    /\ accepting # None => accepting \in [fd : Fds, data : Datagram(Peers)]
    /\ tasks \in [Threads -> Seq(TaskType)]
    /\ conns \in [Ids -> ConnType]
    /\ \A c \in Ids : conns[c].phase # "none" =>
          conns[c].fd \in Fds /\ conns[c].peer \in Addresses

Sound == mishaps \cap {"stale", "kept"} = {}

Dying(c) == conns[c].phase = "dying"

(* The connection has its socket: its descriptor is not closed yet.        *)
Live(c) == Open(c) \/ Dying(c)

(* The thread on which the connection of a descriptor is built.            *)
Home(f) ==
    IF shareThread THEN 0 ELSE WorkerOfKey(IF HashKey = None THEN f ELSE HashKey)

(* A connection that has its socket has it for itself; the connection of a *)
(* peer is on the thread the tasks of its descriptor go to, and in the     *)
(* table until its destructor begins.                                      *)
ConnInv ==
    /\ \A c \in Ids :
         /\ conns[c].phase # "closed"
         /\ Live(c) => owner[conns[c].fd] = conns[c].peer
         /\ Live(c) /\ conns[c].peer \in Peers => conns[c].worker = Home(conns[c].fd)
         /\ Open(c) /\ conns[c].peer \in Peers =>
              sockets[conns[c].peer] = [fd |-> conns[c].fd, conn |-> c]
    /\ \A c, d \in Ids : Live(c) /\ Live(d) /\ c # d => conns[c].fd # conns[d].fd

(* An entry of the table names a socket connected to its peer that no      *)
(* destructor is about to close, and an open connection of that peer or    *)
(* none.                                                                   *)
TableInv ==
    \A p \in Peers : sockets[p] # None =>
        /\ owner[sockets[p].fd] = p
        /\ \A c \in Ids : Dying(c) => conns[c].fd # sockets[p].fd
        /\ sockets[p].conn # 0 =>
             /\ Open(sockets[p].conn) /\ conns[sockets[p].conn].peer = p
             /\ conns[sockets[p].conn].fd = sockets[p].fd

(* A task whose socket is still open waits on the thread of its socket,    *)
(* and the table has that socket unless a destructor is about to close it. *)
TaskOK(w, t) ==
    ~t.stale =>
        /\ owner[t.fd] = t.data.from /\ w = Home(t.fd)
        /\ \/ sockets[t.data.from] # None /\ sockets[t.data.from].fd = t.fd
           \/ \E c \in Ids : Dying(c) /\ conns[c].fd = t.fd

TaskInv == \A w \in Threads : \A i \in DOMAIN tasks[w] : TaskOK(w, tasks[w][i])

AcceptInv ==
    accepting # None =>
        /\ owner[accepting.fd] = "bound" /\ sockets[accepting.data.from] = None

Agree == ConnInv /\ TableInv /\ TaskInv /\ AcceptInv

(* A connected socket queues datagrams of its peer only; any other socket  *)
(* is empty.                                                               *)
QueueInv ==
    \A f \in Fds :
       /\ owner[f] \in {"closed", "bound"} => queue[f] = <<>>
       /\ \A i \in DOMAIN queue[f] : queue[f][i].from = owner[f]

Inv ==
    /\ TypeOK
    /\ Sound => Agree
    /\ Sound /\ "stray" \notin mishaps =>
         QueueInv /\ \A h \in handled : h[1] = h[2].from

-----------------------------------------------------------------------------
(* Types.                                                                  *)

\* The least element CHOOSEn by Min is one of the set.
LEMMA MinIn ==
  ASSUME NEW S, S \subseteq Nat, S # {} PROVE Min(S) \in S
<1>1. \E x \in S : \A y \in S : x <= y
  BY LeastNatural
<1> QED
  BY <1>1 DEF Min

\* A descriptor or an identifier that is given out is a free one.
LEMMA FreeFd == FreeFds # {} => Min(FreeFds) \in Fds /\ owner[Min(FreeFds)] = "closed"
<1>1. FreeFds \subseteq Nat
  BY UdpAssumption DEF FreeFds, Fds
<1> QED
  BY <1>1, MinIn DEF FreeFds

\* A new connection takes an identifier nobody has had.
LEMMA FreeId == FreeIds # {} => Min(FreeIds) \in Ids /\ conns[Min(FreeIds)].phase = "none"
<1>1. FreeIds \subseteq Nat
  BY UdpAssumption DEF FreeIds, Ids
<1> QED
  BY <1>1, MinIn DEF FreeIds

\* Tasks go to the workers' threads.
LEMMA HomeType ==
  ASSUME NEW k \in Nat PROVE WorkerOfKey(k) \in Threads /\ WorkerOfKey(k) # 0
<1>1. k % Workers \in 0..(Workers - 1)
  BY UdpAssumption
<1> QED
  BY <1>1, UdpAssumption DEF WorkerOfKey, Threads

TableType == [Peers -> [fd : Fds, conn : 0..MaxConn] \cup {None}]

\* Building, leaving and closing make connections and tables of the right type.
LEMMA ConnTypes ==
  /\ \A f \in Fds, p \in Addresses, w \in Threads : NewConnection(f, p, w) \in ConnType
  /\ \A c \in ConnType, how \in Leaves :
       /\ Leave(c, how) \in ConnType
       /\ Leave(c, how).fd = c.fd /\ Leave(c, how).peer = c.peer
       /\ Leave(c, how).worker = c.worker /\ Leave(c, how).phase = how
<1>1. \A f \in Fds, p \in Addresses, w \in Threads : NewConnection(f, p, w) \in ConnType
  BY UdpAssumption DEF NewConnection, ConnType, Phases, Fds, Watched
<1>2. ASSUME NEW c \in ConnType, NEW how \in Leaves
      PROVE  /\ Leave(c, how) \in ConnType
             /\ Leave(c, how).fd = c.fd /\ Leave(c, how).peer = c.peer
             /\ Leave(c, how).worker = c.worker /\ Leave(c, how).phase = how
  BY <1>2 DEF Leave, ConnType, Phases, Leaves
<1> QED
  BY <1>1, <1>2

\* removeSocket and setConnId keep the type of the table.
LEMMA TableTypes ==
  ASSUME NEW table \in TableType
  PROVE  /\ \A c, how : Left(table, c, how) \in TableType
         /\ \A p \in Peers, c \in Ids : SetConnId(table, p, c) \in TableType
<1>1. \A c, how : Left(table, c, how) \in TableType
  BY DEF Left, WithoutEntry, Key, TableType
<1>2. ASSUME NEW p \in Peers, NEW c \in Ids PROVE SetConnId(table, p, c) \in TableType
  BY <1>2, UdpAssumption DEF SetConnId, Entry, Key, TableType, Ids
<1> QED
  BY <1>1, <1>2

(* The part of TypeOK a connection's steps touch.                          *)
BuiltTypes ==
    /\ conns \in [Ids -> ConnType] /\ sockets \in TableType
    /\ \A c \in Ids : conns[c].phase # "none" =>
          conns[c].fd \in Fds /\ conns[c].peer \in Addresses

\* A step of one connection leaves the others as they were.
LEMMA LeaveTypes ==
  ASSUME TypeOK, NEW c \in Ids, conns[c].phase # "none", NEW how \in Leaves,
         conns' = [conns EXCEPT ![c] = Leave(@, how)],
         sockets' = Left(sockets, conns[c], how)
  PROVE  BuiltTypes'
<1>1. conns \in [Ids -> ConnType] /\ sockets \in TableType
  BY DEF TypeOK, TableType
<1>2. sockets' \in TableType
  BY <1>1, TableTypes
<1>3. /\ Leave(conns[c], how) \in ConnType
      /\ Leave(conns[c], how).fd = conns[c].fd
      /\ Leave(conns[c], how).peer = conns[c].peer
  BY <1>1, ConnTypes
<1>4. conns' \in [Ids -> ConnType]
  BY <1>1, <1>3
<1>5. \A d \in Ids : conns'[d] = IF d = c THEN Leave(conns[c], how) ELSE conns[d]
  BY <1>1
<1> QED
  BY <1>2, <1>3, <1>4, <1>5 DEF BuiltTypes, TypeOK

\* The types after a connection was built around a new socket.
LEMMA BuildTypes ==
  ASSUME TypeOK, NEW w \in Threads, NEW t \in TaskType, NEW table \in TableType,
         NEW how \in Leaves, Build(w, t, table, how)
  PROVE  BuiltTypes'
<1> DEFINE c == Min(FreeIds)
           p == t.data.from
           n == NewConnection(t.fd, p, w)
<1>1. c \in Ids /\ p \in Peers /\ p \in Addresses /\ t.fd \in Fds
  BY FreeId DEF Build, TaskType, Datagram, Addresses
<1>2. n \in ConnType /\ n.fd = t.fd /\ n.peer = p
  BY <1>1, ConnTypes DEF NewConnection
<1>3. Leave(n, how) \in ConnType /\ Leave(n, how).fd = t.fd /\ Leave(n, how).peer = p
  BY <1>2, ConnTypes
<1>4. /\ conns' = [conns EXCEPT ![c] = Leave(n, how)]
      /\ sockets' = Left(SetConnId(table, p, c), n, how)
  BY DEF Build
<1>5. sockets' \in TableType
  BY <1>1, <1>4, TableTypes
<1>6. conns \in [Ids -> ConnType]
  BY DEF TypeOK
<1>7. \A d \in Ids : conns'[d] = IF d = c THEN Leave(n, how) ELSE conns[d]
  BY <1>4, <1>6
<1>8. conns' \in [Ids -> ConnType]
  BY <1>1, <1>3, <1>4, <1>6
<1> HIDE DEF c, p, n
<1> QED
  BY <1>1, <1>3, <1>5, <1>7, <1>8 DEF BuiltTypes, TypeOK

\* The types after a task of the listener ran, whether it found the
\* connection, built it or failed.
LEMMA CreateTypes ==
  ASSUME TypeOK, NEW w \in Threads, NEW t \in TaskType, CreateUdpConnection(w, t)
  PROVE  BuiltTypes'
<1> DEFINE p == t.data.from
<1>0. sockets \in TableType /\ p \in Peers
  BY DEF TypeOK, TableType, TaskType, Datagram
<1>1. CASE Known(w, p)
  <2>1. PICK how \in Leaves : Deliver(sockets[p].conn, t.data, how)
    BY <1>1 DEF CreateUdpConnection, Entry, Key
  <2>2. sockets[p].conn \in Ids /\ conns[sockets[p].conn].phase # "none"
    BY <1>0, <1>1, UdpAssumption DEF Known, Entry, Key, TableType, Open, Ids
  <2> QED
    BY <2>1, <2>2, LeaveTypes DEF Deliver
<1>2. CASE ~Known(w, p) /\ owner[t.fd] = "closed"
  <2>1. sockets' = [sockets EXCEPT ![p] = None] /\ conns' = conns
    BY <1>2 DEF CreateUdpConnection, BuildFails, Key
  <2> QED
    BY <1>0, <2>1 DEF BuiltTypes, TypeOK, TableType
<1>3. CASE ~Known(w, p) /\ owner[t.fd] # "closed"
  BY <1>0, <1>3, BuildTypes DEF CreateUdpConnection
<1> QED
  BY <1>1, <1>2, <1>3

\* The worker that is given a task gets nothing but tasks.
LEMMA ScheduleTypes ==
  ASSUME TypeOK, NEW t \in TaskType, Schedule(t)
  PROVE  tasks' \in [Threads -> Seq(TaskType)]
<1> DEFINE w == WorkerOfKey(KeyOf(t))
<1>1. w \in Threads
  BY HomeType, UdpAssumption DEF KeyOf, TaskType, Fds
<1>2. tasks \in [Threads -> Seq(TaskType)]
  BY DEF TypeOK
<1>3. tasks' \in {tasks, [tasks EXCEPT ![w] = Append(@, t)]}
  BY DEF Schedule
<1> HIDE DEF w
<1>4. Append(tasks[w], t) \in Seq(TaskType)
  BY <1>1, <1>2
<1> QED
  BY <1>1, <1>2, <1>3, <1>4

\* What leaves the listener's socket was sent by a peer.
LEMMA ListenerTypes ==
  ASSUME TypeOK, ListenerRuns
  PROVE  inbox' \in Seq(Datagram(Peers)) /\ Head(inbox) \in Datagram(Peers)
BY DEF TypeOK, ListenerRuns

\* A datagram is queued at one socket.
LEMMA ArriveTypes ==
  ASSUME TypeOK, NEW a \in Addresses, Arrive(a) PROVE TypeOK'
<1> DEFINE d == [from |-> a, n |-> sent[a] + 1]
           mine == {f \in Fds : owner[f] = a}
           open == {f \in Fds : owner[f] = "bound"}
<1>1. /\ sent \in [Addresses -> Nat] /\ inbox \in Seq(Datagram(Peers))
      /\ queue \in [Fds -> Seq(Datagram(Addresses))]
  BY DEF TypeOK
<1>2. sent' \in [Addresses -> Nat] /\ d \in Datagram(Addresses)
  BY <1>1 DEF Arrive, Datagram
<1>3. /\ UNCHANGED <<shareThread, owner, sockets, accepting, tasks, conns>>
      /\ a = Server => mine # {}
      /\ \/ \E f \in mine \cup open :
              queue' = [queue EXCEPT ![f] = Append(@, d)] /\ inbox' = inbox
         \/ mine = {} /\ inbox' = Append(inbox, d) /\ queue' = queue
  BY DEF Arrive
<1>4. CASE \E f \in mine \cup open :
              queue' = [queue EXCEPT ![f] = Append(@, d)] /\ inbox' = inbox
  <2>1. PICK f \in Fds : queue' = [queue EXCEPT ![f] = Append(@, d)] /\ inbox' = inbox
    BY <1>4
  <2> HIDE DEF d
  <2>2. Append(queue[f], d) \in Seq(Datagram(Addresses))
    BY <1>1, <1>2
  <2>3. queue' \in [Fds -> Seq(Datagram(Addresses))]
    BY <1>1, <2>1, <2>2
  <2> QED
    BY <1>2, <1>3, <2>1, <2>3 DEF TypeOK
<1>5. CASE mine = {} /\ inbox' = Append(inbox, d) /\ queue' = queue
  <2>1. d \in Datagram(Peers)
    BY <1>2, <1>3, <1>5 DEF Datagram, Addresses
  <2> HIDE DEF d
  <2>2. inbox' \in Seq(Datagram(Peers))
    BY <1>1, <1>5, <2>1
  <2> QED
    BY <1>2, <1>3, <1>5, <2>2 DEF TypeOK
<1> QED
  BY <1>3, <1>4, <1>5

\* The listener: what it reads, binds, connects and schedules.
LEMMA AcceptTypes ==
  ASSUME TypeOK, Listener PROVE TypeOK'
<1> DEFINE d == Head(inbox)
<1>1. ASSUME AcceptKnown PROVE TypeOK'
  <2> DEFINE t == Task(sockets[d.from].fd, d)
  <2>1. /\ ListenerRuns /\ sockets[d.from] # None /\ OnAcceptKnown(t)
        /\ UNCHANGED <<shareThread, sent, owner, queue, accepting>>
    BY <1>1 DEF AcceptKnown, Entry, Key
  <2>2. d \in Datagram(Peers) /\ inbox' \in Seq(Datagram(Peers))
    BY <2>1, ListenerTypes
  <2>3. t \in TaskType
    BY <2>1, <2>2 DEF TypeOK, Task, TaskType, Datagram
  <2> HIDE DEF t, d
  <2>4. 0 \in Threads
    BY UdpAssumption DEF Threads
  <2>5. CASE shareThread
    <3>1. BuiltTypes' /\ tasks' = tasks
      BY <2>1, <2>3, <2>4, <2>5, CreateTypes DEF OnAcceptKnown
    <3> QED
      BY <2>1, <2>2, <3>1 DEF TypeOK, BuiltTypes, TableType
  <2>6. CASE ~shareThread
    <3>1. tasks' \in [Threads -> Seq(TaskType)] /\ UNCHANGED <<conns, sockets>>
      BY <2>1, <2>3, <2>6, ScheduleTypes DEF OnAcceptKnown
    <3> QED
      BY <2>1, <2>2, <3>1 DEF TypeOK
  <2> QED
    BY <2>5, <2>6
<1>2. ASSUME AcceptBind PROVE TypeOK'
  <2>1. d \in Datagram(Peers) /\ inbox' \in Seq(Datagram(Peers)) /\ Min(FreeFds) \in Fds
    BY <1>2, ListenerTypes, FreeFd DEF AcceptBind
  <2>2. /\ owner' = [owner EXCEPT ![Min(FreeFds)] = "bound"]
        /\ accepting' = [fd |-> Min(FreeFds), data |-> d]
        /\ UNCHANGED <<shareThread, sent, queue, sockets, tasks, conns>>
    BY <1>2 DEF AcceptBind
  <2> HIDE DEF d
  <2>3. accepting' \in [fd : Fds, data : Datagram(Peers)]
    BY <2>1, <2>2
  <2> QED
    BY <2>1, <2>2, <2>3 DEF TypeOK
<1>3. ASSUME AcceptConnect PROVE TypeOK'
  <2> DEFINE f == accepting.fd
             p == accepting.data.from
             t == Task(f, accepting.data)
             table == [sockets EXCEPT ![p] = [fd |-> f, conn |-> 0]]
  <2>1. f \in Fds /\ p \in Peers /\ t \in TaskType /\ accepting # None
    BY <1>3 DEF AcceptConnect, TypeOK, Task, TaskType, Datagram
  <2>2. table \in TableType
    BY <2>1, UdpAssumption DEF TypeOK, TableType
  <2>3. /\ accepting' = None /\ owner' = [owner EXCEPT ![f] = p]
        /\ OnAcceptNew(t, table) /\ UNCHANGED <<shareThread, sent, inbox, queue>>
    BY <1>3 DEF AcceptConnect, Key
  <2>4. owner' \in [Fds -> Addresses \cup {"closed", "bound"}]
    BY <2>1, <2>3 DEF TypeOK, Addresses
  <2> HIDE DEF f, p, t, table
  <2>5. 0 \in Threads
    BY UdpAssumption DEF Threads
  <2>6. CASE shareThread
    <3>1. BuiltTypes' /\ tasks' = tasks
      BY <2>1, <2>2, <2>3, <2>5, <2>6, BuildTypes DEF OnAcceptNew
    <3> QED
      BY <2>3, <2>4, <3>1 DEF TypeOK, BuiltTypes, TableType
  <2>7. CASE ~shareThread
    <3>1. /\ tasks' \in [Threads -> Seq(TaskType)] /\ conns' = conns
          /\ sockets' \in TableType
      BY <2>1, <2>2, <2>3, <2>7, ScheduleTypes DEF OnAcceptNew
    <3> QED
      BY <2>3, <2>4, <3>1 DEF TypeOK, TableType
  <2> QED
    BY <2>6, <2>7
<1>4. ASSUME AcceptFails PROVE TypeOK'
  <2>1. CASE accepting # None /\ accepting' = None /\ inbox' = inbox
             /\ owner' = [owner EXCEPT ![accepting.fd] = "closed"]
             /\ queue' = [queue EXCEPT ![accepting.fd] = <<>>]
    BY <1>4, <2>1 DEF AcceptFails, TypeOK
  <2>2. CASE ListenerRuns /\ UNCHANGED <<accepting, owner, queue>>
    BY <1>4, <2>2, ListenerTypes DEF AcceptFails, TypeOK
  <2> QED
    BY <1>4, <2>1, <2>2 DEF AcceptFails
<1> QED
  BY <1>1, <1>2, <1>3, <1>4 DEF Listener

\* A worker runs a task, or makes a client.
LEMMA WorkerTypes ==
  ASSUME TypeOK, NEW w \in Threads, DoAccept(w) \/ \E how \in Leaves : CreateUdpClient(w, how)
  PROVE  TypeOK'
<1>1. ASSUME DoAccept(w) PROVE TypeOK'
  <2>1. tasks[w] \in Seq(TaskType) /\ tasks[w] # <<>>
    BY <1>1 DEF DoAccept, TypeOK
  <2>2. Head(tasks[w]) \in TaskType /\ Tail(tasks[w]) \in Seq(TaskType)
    BY <2>1
  <2>3. BuiltTypes'
    BY <1>1, <2>2, CreateTypes DEF DoAccept
  <2>4. tasks' \in [Threads -> Seq(TaskType)]
    BY <1>1, <2>2 DEF DoAccept, TypeOK
  <2> QED
    BY <1>1, <2>3, <2>4 DEF DoAccept, TypeOK, BuiltTypes, TableType
<1>2. ASSUME NEW how \in Leaves, CreateUdpClient(w, how) PROVE TypeOK'
  <2> DEFINE c == Min(FreeIds)
             f == Min(FreeFds)
             n == NewConnection(f, Server, w)
  <2>1. c \in Ids /\ f \in Fds /\ Server \in Addresses
    BY <1>2, FreeId, FreeFd DEF CreateUdpClient, Addresses
  <2>2. n \in ConnType /\ n.fd = f /\ n.peer = Server
    BY <2>1, ConnTypes DEF NewConnection
  <2>3. Leave(n, how) \in ConnType /\ Leave(n, how).fd = f /\ Leave(n, how).peer = Server
    BY <2>2, ConnTypes
  <2>4. /\ owner' = [owner EXCEPT ![f] = Server]
        /\ conns' = [conns EXCEPT ![c] = Leave(n, how)]
        /\ UNCHANGED <<shareThread, sent, inbox, queue, sockets, accepting, tasks>>
    BY <1>2 DEF CreateUdpClient, NewClient
  <2>5. \A i \in Ids : conns'[i] = IF i = c THEN Leave(n, how) ELSE conns[i]
    BY <2>4 DEF TypeOK
  <2> HIDE DEF c, f, n
  <2>6. conns' \in [Ids -> ConnType]
    BY <2>1, <2>3, <2>4 DEF TypeOK
  <2>7. owner' \in [Fds -> Addresses \cup {"closed", "bound"}]
    BY <2>1, <2>4 DEF TypeOK
  <2> QED
    BY <2>1, <2>3, <2>4, <2>5, <2>6, <2>7 DEF TypeOK
<1> QED
  BY <1>1, <1>2

\* Queueing and flushing output changes nothing else of a connection.
LEMMA OutputType ==
  ASSUME NEW d \in ConnType, NEW o \in Nat, NEW b \in BOOLEAN, NEW e \in BOOLEAN
  PROVE  /\ [d EXCEPT !.out = o, !.writes = b] \in ConnType
         /\ [d EXCEPT !.out = o, !.writes = b, !.empty = e] \in ConnType
BY DEF ConnType

\* Connections read, write, close and are destroyed.
LEMMA ConnectionTypes ==
  ASSUME TypeOK, NEW c \in Ids, Connection(c) PROVE TypeOK'
<1>0. conns \in [Ids -> ConnType] /\ conns[c] \in ConnType
  BY DEF TypeOK
<1>1. ASSUME CloseSocket(c) PROVE TypeOK'
  <2> DEFINE f == conns[c].fd
  <2>1. f \in Fds
    BY <1>1 DEF CloseSocket, TypeOK
  <2>2. /\ owner' = [owner EXCEPT ![f] = "closed"]
        /\ queue' = [queue EXCEPT ![f] = <<>>]
        /\ UNCHANGED <<shareThread, sent, inbox, sockets, accepting>>
    BY <1>1 DEF CloseSocket
  <2>3. owner' \in [Fds -> Addresses \cup {"closed", "bound"}]
    BY <2>2 DEF TypeOK
  <2>4. queue' \in [Fds -> Seq(Datagram(Addresses))]
    <3>1. <<>> \in Seq(Datagram(Addresses))
      OBVIOUS
    <3> QED
      BY <2>2, <3>1 DEF TypeOK
  <2>5. /\ conns' \in [Ids -> ConnType]
        /\ \A i \in Ids : conns'[i].phase # "none" =>
              conns'[i].fd \in Fds /\ conns'[i].peer \in Addresses
    <3>1. conns' = [i \in Ids |->
                IF i = c
                THEN [conns[i] EXCEPT !.phase = "gone", !.out = 0, !.writes = FALSE,
                                      !.empty = FALSE]
                ELSE [conns[i] EXCEPT !.watched = @ /\ conns[i].fd # f]]
      BY <1>1 DEF CloseSocket
    <3>2. ASSUME NEW i \in Ids
          PROVE  /\ conns'[i] \in ConnType
                 /\ conns'[i].fd = conns[i].fd /\ conns'[i].peer = conns[i].peer
                 /\ conns'[i].phase # "none" => conns[i].phase # "none"
      <4>1. conns[i] \in ConnType /\ conns[c].phase = "dying"
        BY <1>0, <1>1 DEF CloseSocket
      <4>2. CASE i = c
        <5> DEFINE d == [conns[c] EXCEPT !.phase = "gone", !.out = 0, !.writes = FALSE,
                                         !.empty = FALSE]
        <5>1. conns'[i] = d
          BY <3>1, <4>2
        <5>2. d.fd = conns[c].fd /\ d.peer = conns[c].peer
          BY <1>0 DEF ConnType
        <5>3. d \in ConnType
          <6>1. "gone" \in Phases /\ 0 \in Nat /\ FALSE \in BOOLEAN
            BY DEF Phases
          <6> QED
            BY <1>0, <6>1 DEF ConnType
        <5> HIDE DEF d
        <5> QED
          BY <4>1, <4>2, <5>1, <5>2, <5>3
      <4>3. CASE i # c
        <5>1. conns'[i] = [conns[i] EXCEPT !.watched = @ /\ conns[i].fd # f]
          BY <3>1, <4>3
        <5> QED
          BY <4>1, <5>1 DEF ConnType
      <4> QED
        BY <4>2, <4>3
    <3> QED
      BY <3>1, <3>2 DEF TypeOK
  <2>6. tasks' \in [Threads -> Seq(TaskType)]
    <3>1. tasks' = [w \in Threads |-> [i \in DOMAIN tasks[w] |->
                [tasks[w][i] EXCEPT !.stale = @ \/ tasks[w][i].fd = f]]]
      BY <1>1 DEF CloseSocket
    <3>2. ASSUME NEW w \in Threads PROVE tasks'[w] \in Seq(TaskType)
      <4>1. /\ tasks[w] \in Seq(TaskType) /\ DOMAIN tasks[w] = 1..Len(tasks[w])
            /\ Len(tasks[w]) \in Nat
        BY DEF TypeOK
      <4>2. ASSUME NEW i \in 1..Len(tasks[w])
            PROVE  [tasks[w][i] EXCEPT !.stale = @ \/ tasks[w][i].fd = f] \in TaskType
        <5>1. tasks[w][i] \in TaskType
          BY <4>1
        <5> QED
          BY <5>1 DEF TaskType
      <4>3. tasks'[w] = [i \in 1..Len(tasks[w]) |->
                [tasks[w][i] EXCEPT !.stale = @ \/ tasks[w][i].fd = f]]
        BY <3>1, <4>1
      <4> QED
        BY <4>1, <4>2, <4>3
    <3> QED
      BY <3>1, <3>2
  <2> QED
    BY <2>2, <2>3, <2>4, <2>5, <2>6 DEF TypeOK
<1>2. ASSUME Release(c) PROVE TypeOK'
  <2>1. sockets' \in TableType
    BY <1>2 DEF Release, WithoutEntry, Key, TypeOK, TableType
  <2>2. \A i \in Ids : /\ conns'[i] \in ConnType /\ conns'[i].fd = conns[i].fd
                       /\ conns'[i].peer = conns[i].peer
                       /\ conns'[i].phase # "none" => conns[i].phase # "none"
    BY <1>0, <1>2 DEF Release, ConnType, Phases
  <2>3. conns' \in [Ids -> ConnType]
    BY <1>2, <2>2, <1>0 DEF Release
  <2> QED
    BY <1>2, <2>1, <2>2, <2>3 DEF Release, TypeOK, TableType
<1>3. ASSUME OnRead(c) PROVE TypeOK'
  <2>1. PICK how \in Leaves : Deliver(c, Head(queue[conns[c].fd]), how)
    BY <1>3 DEF OnRead
  <2>2. conns[c].phase # "none" /\ conns[c].fd \in Fds
    BY <1>3 DEF OnRead, Runs, Open, TypeOK
  <2>3. BuiltTypes'
    BY <2>1, <2>2, LeaveTypes DEF Deliver
  <2>4. Tail(queue[conns[c].fd]) \in Seq(Datagram(Addresses))
    BY <1>3, <2>2 DEF OnRead, TypeOK
  <2>5. queue' \in [Fds -> Seq(Datagram(Addresses))]
    BY <1>3, <2>2, <2>4 DEF OnRead, TypeOK
  <2> QED
    BY <1>3, <2>3, <2>5 DEF OnRead, TypeOK, BuiltTypes, TableType
<1>4. ASSUME Send(c) PROVE TypeOK'
  <2>1. \A i \in Ids : /\ conns'[i] \in ConnType /\ conns'[i].fd = conns[i].fd
                       /\ conns'[i].peer = conns[i].peer
                       /\ conns'[i].phase = conns[i].phase
    <3>1. \A i \in Ids : conns'[i] = IF i = c THEN SendQueued(conns[c]) ELSE conns[i]
      BY <1>0, <1>4 DEF Send
    <3>2. SendQueued(conns[c]) \in ConnType
      <4>1. conns[c].out + 1 \in Nat
        BY <1>0 DEF ConnType
      <4>2. (conns[c].writes \/ conns[c].out = 0) \in BOOLEAN
        OBVIOUS
      <4> QED
        BY <1>0, <4>1, <4>2, OutputType DEF SendQueued
    <3>3. /\ SendQueued(conns[c]).fd = conns[c].fd
          /\ SendQueued(conns[c]).peer = conns[c].peer
          /\ SendQueued(conns[c]).phase = conns[c].phase
      BY <1>0 DEF SendQueued, ConnType
    <3> QED
      BY <1>0, <3>1, <3>2, <3>3
  <2>2. conns' \in [Ids -> ConnType]
    BY <1>0, <1>4, <2>1 DEF Send
  <2> QED
    BY <1>4, <2>1, <2>2 DEF Send, TypeOK
<1>5. ASSUME NEW n \in 1..MaxOut, OnWrite(c, n) PROVE TypeOK'
  <2>1. \A i \in Ids : /\ conns'[i] \in ConnType /\ conns'[i].fd = conns[i].fd
                       /\ conns'[i].peer = conns[i].peer
                       /\ conns'[i].phase = conns[i].phase
    <3> DEFINE d == [conns[c] EXCEPT !.out = @ - n, !.writes = n < conns[c].out]
    <3>1. \A i \in Ids : conns'[i] = IF i = c THEN d ELSE conns[i]
      BY <1>0, <1>5 DEF OnWrite, ConnType
    <3>2. n \in 1..conns[c].out
      BY <1>5 DEF OnWrite
    <3>3. d \in ConnType
      <4>1. conns[c].out - n \in Nat
        BY <1>0, <3>2 DEF ConnType
      <4>2. (n < conns[c].out) \in BOOLEAN
        OBVIOUS
      <4> QED
        BY <1>0, <4>1, <4>2, OutputType
    <3>4. d.fd = conns[c].fd /\ d.peer = conns[c].peer /\ d.phase = conns[c].phase
      BY <1>0 DEF ConnType
    <3> HIDE DEF d
    <3> QED
      BY <1>0, <3>1, <3>3, <3>4
  <2>2. conns' \in [Ids -> ConnType]
    BY <1>0, <1>5, <2>1 DEF OnWrite
  <2> QED
    BY <1>5, <2>1, <2>2 DEF OnWrite, TypeOK
<1>6. ASSUME NEW how \in Leaves, Close(c, how) PROVE TypeOK'
  <2>1. BuiltTypes'
    BY <1>6, LeaveTypes DEF Close, Runs, Open
  <2> QED
    BY <1>6, <2>1 DEF Close, TypeOK, BuiltTypes, TableType
<1>7. ASSUME OnReadEmpty(c) PROVE TypeOK'
  <2>1. conns[c].fd \in Fds
    BY <1>7 DEF OnReadEmpty, Runs, Open, TypeOK
  <2>2. Tail(queue[conns[c].fd]) \in Seq(Datagram(Addresses))
    BY <1>7, <2>1 DEF OnReadEmpty, TypeOK
  <2>3. queue' \in [Fds -> Seq(Datagram(Addresses))]
    BY <1>7, <2>1, <2>2 DEF OnReadEmpty, TypeOK
  <2> QED
    BY <1>7, <2>3 DEF OnReadEmpty, TypeOK
<1>8. ASSUME SendNothing(c) PROVE TypeOK'
  <2> DEFINE d == [conns[c] EXCEPT !.out = 1, !.writes = TRUE, !.empty = TRUE]
  <2>1. \A i \in Ids : conns'[i] = IF i = c THEN d ELSE conns[i]
    BY <1>0, <1>8 DEF SendNothing, ConnType
  <2>2. d \in ConnType
    BY <1>0, OutputType
  <2>3. d.fd = conns[c].fd /\ d.peer = conns[c].peer /\ d.phase = conns[c].phase
    BY <1>0 DEF ConnType
  <2> HIDE DEF d
  <2>4. \A i \in Ids : /\ conns'[i] \in ConnType /\ conns'[i].fd = conns[i].fd
                       /\ conns'[i].peer = conns[i].peer
                       /\ conns'[i].phase = conns[i].phase
    BY <1>0, <2>1, <2>2, <2>3
  <2>5. conns' \in [Ids -> ConnType]
    BY <1>0, <1>8, <2>4 DEF SendNothing
  <2> QED
    BY <1>8, <2>4, <2>5 DEF SendNothing, TypeOK
<1> QED
  BY <1>1, <1>2, <1>3, <1>4, <1>5, <1>6, <1>7, <1>8 DEF Connection

\* Every step keeps the types.
LEMMA TypeStep == TypeOK /\ [Next]_vars => TypeOK'
<1>1. TypeOK /\ UNCHANGED vars => TypeOK'
  BY DEF TypeOK, vars
<1> QED
  BY <1>1, ArriveTypes, AcceptTypes, WorkerTypes, ConnectionTypes DEF Next

-----------------------------------------------------------------------------
(* The table and the connections, action by action.                        *)

(* No task is new.                                                         *)
OldTasks ==
    \A w \in Threads : \A i \in DOMAIN tasks'[w] :
       \E j \in DOMAIN tasks[w] : tasks'[w][i] = tasks[w][j]

\* Tasks stay as they should be when no step spoils one that waits.
LEMMA TasksKeep ==
  ASSUME TypeOK, TaskInv, OldTasks,
         \A w \in Threads, t \in TaskType : TaskOK(w, t) => TaskOK(w, t)'
  PROVE  TaskInv'
<1> SUFFICES ASSUME NEW w \in Threads, NEW i \in DOMAIN tasks'[w]
             PROVE  TaskOK(w, tasks[w][i])'
  BY DEF TaskInv
<1>1. PICK j \in DOMAIN tasks[w] : tasks'[w][i] = tasks[w][j]
  BY DEF OldTasks
<1>2. tasks[w][j] \in TaskType
  BY DEF TypeOK
<1>3. TaskOK(w, tasks[w][j])
  BY DEF TaskInv
<1>4. PICK t \in TaskType : t = tasks[w][j]
  BY <1>2
<1>5. TaskOK(w, t)'
  BY <1>3, <1>4
<1> QED
  BY <1>1, <1>4, <1>5 DEF TaskOK, Home

\* A step of an open connection leaves it open or starts its destructor, which
\* takes its entry out of the table first; tasks of its socket then wait for
\* the rest of the destructor.
LEMMA LeaveKeeps ==
  ASSUME TypeOK, TypeOK', Agree, OldTasks, NEW c \in Ids, Open(c),
         NEW how \in {"open", "dying"},
         conns' = [conns EXCEPT ![c] = Leave(@, how)],
         sockets' = Left(sockets, conns[c], how),
         UNCHANGED <<owner, shareThread, accepting>>
  PROVE  Agree'
<1> DEFINE p == conns[c].peer
<1>0. conns \in [Ids -> ConnType] /\ sockets \in TableType /\ p \in Addresses
  BY DEF TypeOK, TableType, Open
<1>1. \A d \in Ids : /\ conns'[d].fd = conns[d].fd /\ conns'[d].peer = conns[d].peer
                     /\ conns'[d].worker = conns[d].worker
                     /\ conns'[d].phase = IF d = c THEN how ELSE conns[d].phase
  BY <1>0, ConnTypes DEF Leaves
<1>2. \A q \in Peers : sockets'[q] = IF how = "dying" /\ q = p THEN None ELSE sockets[q]
  BY <1>0 DEF Left, WithoutEntry, Key, TableType
<1>3. \A d \in Ids : /\ Open(d)' => Open(d) /\ (d = c => how = "open")
                     /\ Dying(d)' => Dying(d) \/ (d = c /\ how = "dying")
                     /\ Open(d) /\ d # c => Open(d)'
                     /\ Dying(d) => Dying(d)'
                     /\ how = "open" => Open(c)'
                     /\ how = "dying" => Dying(c)'
  BY <1>1 DEF Open, Dying
<1>4. \A f : Home(f)' = Home(f)
  BY DEF Home, WorkerOfKey
<1> HIDE DEF p
<1>5. ConnInv'
  <2>1. ASSUME NEW d \in Ids
        PROVE  /\ conns'[d].phase # "closed"
               /\ Live(d)' => Live(d)
               /\ Live(d)' => owner'[conns'[d].fd] = conns'[d].peer
               /\ Live(d)' /\ conns'[d].peer \in Peers => conns'[d].worker = Home(conns[d].fd)'
    <3>1. Live(d)' => Live(d)
      BY <1>3 DEF Live
    <3>2. conns'[d].phase # "closed"
      <4>1. conns[d].phase # "closed" /\ how # "closed"
        BY DEF Agree, ConnInv
      <4> QED
        BY <1>1, <4>1
    <3>3. Live(d) => owner[conns[d].fd] = conns[d].peer
      BY DEF Agree, ConnInv
    <3>4. Live(d) /\ conns[d].peer \in Peers => conns[d].worker = Home(conns[d].fd)
      BY DEF Agree, ConnInv
    <3>5. Home(conns[d].fd)' = Home(conns[d].fd)
      BY <1>1 DEF Home
    <3> QED
      BY <1>1, <3>1, <3>2, <3>3, <3>4, <3>5
  <2>2. ASSUME NEW d \in Ids, Open(d)', conns'[d].peer \in Peers
        PROVE  sockets'[conns'[d].peer] = [fd |-> conns'[d].fd, conn |-> d]
    <3>1. sockets[conns[d].peer] = [fd |-> conns[d].fd, conn |-> d]
      BY <1>1, <1>3, <2>2 DEF Agree, ConnInv
    <3>2. how = "dying" => conns[d].peer # p
      <4>1. SUFFICES ASSUME how = "dying", conns[d].peer = p PROVE FALSE
        OBVIOUS
      <4>2. sockets[p] = [fd |-> conns[c].fd, conn |-> c] /\ d # c
        BY <1>1, <1>3, <2>2, <4>1 DEF Agree, ConnInv, p
      <4> QED
        BY <3>1, <4>1, <4>2
    <3> QED
      BY <1>1, <1>2, <2>2, <3>1, <3>2
  <2> QED
    BY <1>1, <2>1, <2>2 DEF Agree, ConnInv
<1>6. TableInv'
  <2> SUFFICES ASSUME NEW q \in Peers, sockets'[q] # None
               PROVE  /\ owner'[sockets'[q].fd] = q
                      /\ \A d \in Ids : Dying(d)' => conns'[d].fd # sockets'[q].fd
                      /\ sockets'[q].conn # 0 =>
                           /\ Open(sockets[q].conn)'
                           /\ conns'[sockets'[q].conn].peer = q
                           /\ conns'[sockets'[q].conn].fd = sockets'[q].fd
    BY DEF TableInv
  <2>1. sockets'[q] = sockets[q] /\ (how = "dying" => q # p)
    BY <1>2
  <2>2. /\ owner[sockets[q].fd] = q
        /\ \A d \in Ids : Dying(d) => conns[d].fd # sockets[q].fd
    BY <2>1 DEF Agree, TableInv
  <2>3. how = "dying" => conns[c].fd # sockets[q].fd
    BY <2>1, <2>2 DEF Agree, ConnInv, Live, p
  <2>4. ASSUME sockets[q].conn # 0
        PROVE  /\ conns'[sockets[q].conn].phase = "open"
               /\ conns'[sockets[q].conn].peer = q
               /\ conns'[sockets[q].conn].fd = sockets[q].fd
    <3>1. sockets[q].conn \in Ids
      BY <1>0, <2>1, <2>4, UdpAssumption DEF TableType, Ids
    <3>2. /\ Open(sockets[q].conn) /\ conns[sockets[q].conn].peer = q
          /\ conns[sockets[q].conn].fd = sockets[q].fd
      BY <2>1, <2>4 DEF Agree, TableInv
    <3> QED
      BY <1>1, <2>1, <3>1, <3>2 DEF p, Open
  <2> QED
    BY <1>1, <1>3, <2>1, <2>2, <2>3, <2>4 DEF Open
<1>7. TaskInv'
  <2>1. ASSUME NEW w \in Threads, NEW t \in TaskType, TaskOK(w, t), ~t.stale
        PROVE  TaskOK(w, t)'
    <3>1. owner[t.fd] = t.data.from /\ w = Home(t.fd) /\ t.data.from \in Peers
      BY <2>1 DEF TaskOK, TaskType, Datagram
    <3>2. CASE sockets[t.data.from] # None /\ sockets[t.data.from].fd = t.fd
      <4>1. CASE how = "dying" /\ t.data.from = p
        <5>1. sockets[p] = [fd |-> conns[c].fd, conn |-> c]
          BY <3>1, <4>1 DEF Agree, ConnInv, p
        <5>2. Dying(c)' /\ conns'[c].fd = t.fd
          BY <1>1, <1>3, <3>2, <4>1, <5>1
        <5> QED
          BY <1>4, <3>1, <5>2 DEF TaskOK
      <4>2. CASE ~(how = "dying" /\ t.data.from = p)
        BY <1>2, <1>4, <3>1, <3>2, <4>2 DEF TaskOK
      <4> QED
        BY <4>1, <4>2
    <3>3. CASE \E d \in Ids : Dying(d) /\ conns[d].fd = t.fd
      BY <1>1, <1>3, <1>4, <3>1, <3>3 DEF TaskOK
    <3> QED
      BY <2>1, <3>2, <3>3 DEF TaskOK
  <2> QED
    BY <2>1, TasksKeep DEF Agree, TaskOK
<1>8. AcceptInv'
  BY <1>2 DEF Agree, AcceptInv, TypeOK, Datagram
<1> QED
  BY <1>5, <1>6, <1>7, <1>8 DEF Agree

(* The state in which a connection for task t may be built from a table:   *)
(* the descriptor is connected to the sender, no connection has it, and    *)
(* the table names it and no connection.                                   *)
Buildable(w, t, table) ==
    LET f == t.fd
        p == t.data.from
    IN  /\ owner'[f] = p /\ owner[f] \in {p, "bound"} /\ w = Home(f)
        /\ \A g \in Fds \ {f} : owner'[g] = owner[g]
        /\ table[p] = [fd |-> f, conn |-> 0]
        /\ sockets[p] # None => sockets[p] = table[p]
        /\ \A q \in Peers \ {p} : table[q] = sockets[q]
        /\ \A c \in Ids : Live(c) => conns[c].fd # f /\ (Open(c) => conns[c].peer # p)
        /\ accepting' # None =>
             /\ owner'[accepting'.fd] = "bound" /\ accepting'.fd # f
             /\ accepting' = accepting /\ accepting.data.from # p

\* A connection built in such a state keeps table and connections in agreement,
\* even if its first callback closes it.
LEMMA BuildKeeps ==
  ASSUME TypeOK, TypeOK', Agree, OldTasks, NEW w \in Threads, NEW t \in TaskType,
         NEW table \in TableType, NEW how \in {"open", "dying"},
         Build(w, t, table, how), Buildable(w, t, table), shareThread' = shareThread
  PROVE  Agree'
<1>. PICK c \in Ids : c = Min(FreeIds) /\ conns[c].phase = "none"
  BY FreeId DEF Build
<1> DEFINE f == t.fd
           p == t.data.from
           n == NewConnection(f, p, w)
<1>0. /\ conns \in [Ids -> ConnType] /\ sockets \in TableType
      /\ c \in Ids /\ conns[c].phase = "none" /\ ~Live(c)
      /\ p \in Peers /\ p \in Addresses /\ f \in Fds /\ "bound" \notin Peers
      /\ "bound" \notin Addresses
  BY UdpAssumption
     DEF TypeOK, TableType, Build, TaskType, Datagram, Addresses, Live, Open, Dying
<1>1. /\ n \in ConnType /\ n.fd = f /\ n.peer = p /\ n.worker = w
      /\ Leave(n, how).fd = f /\ Leave(n, how).peer = p
      /\ Leave(n, how).worker = w /\ Leave(n, how).phase = how
  <2>1. n \in ConnType /\ n.fd = f /\ n.peer = p /\ n.worker = w
    BY <1>0, ConnTypes DEF NewConnection
  <2> QED
    BY <2>1, ConnTypes DEF Leaves
<1>2. \A d \in Ids : conns'[d] = IF d = c THEN Leave(n, how) ELSE conns[d]
  BY <1>0 DEF Build
<1>3. \A q \in Peers : sockets'[q] = IF q # p THEN sockets[q]
                                      ELSE IF how = "dying" THEN None
                                      ELSE [fd |-> f, conn |-> c]
  <2>1. table[p] = [fd |-> f, conn |-> 0] /\ table[p] # None
    BY <1>0, UdpAssumption DEF Buildable, Fds
  <2>2. SetConnId(table, p, c) = [table EXCEPT ![p].conn = c]
    BY <2>1 DEF SetConnId, Entry, Key
  <2>3. \A q \in Peers : SetConnId(table, p, c)[q] =
                 IF q = p THEN [fd |-> f, conn |-> c] ELSE table[q]
    BY <1>0, <2>1, <2>2 DEF TableType
  <2>4. SetConnId(table, p, c) \in TableType
    BY <1>0, TableTypes
  <2>5. sockets' = Left(SetConnId(table, p, c), n, how)
    BY DEF Build
  <2> HIDE DEF n, p, f
  <2>6. \A q \in Peers : sockets'[q] = IF how = "dying" /\ q = p THEN None
                                        ELSE SetConnId(table, p, c)[q]
    BY <1>0, <1>1, <2>4, <2>5 DEF Left, WithoutEntry, Key, TableType
  <2> QED
    BY <2>3, <2>6 DEF Buildable, p, f
<1>4. \A d \in Ids : /\ Open(d)' <=> (Open(d) \/ (d = c /\ how = "open"))
                     /\ Dying(d)' <=> (Dying(d) \/ (d = c /\ how = "dying"))
  BY <1>0, <1>1, <1>2 DEF Open, Dying
<1>5. \A x : Home(x)' = Home(x)
  BY DEF Home, WorkerOfKey
<1>6. /\ owner'[f] = p /\ owner[f] \in {p, "bound"} /\ w = Home(f)
      /\ \A g \in Fds \ {f} : owner'[g] = owner[g]
      /\ \A d \in Ids : Live(d) => conns[d].fd # f /\ (Open(d) => conns[d].peer # p)
      /\ sockets[p] # None => sockets[p] = [fd |-> f, conn |-> 0]
  BY DEF Buildable
<1>7. Leave(n, how).phase # "closed"
  BY <1>1
<1> HIDE DEF n, p, f
<1>8. ASSUME NEW d \in Ids
      PROVE  /\ conns'[d].phase # "closed"
             /\ Live(d)' => owner'[conns'[d].fd] = conns'[d].peer
             /\ Live(d)' /\ conns'[d].peer \in Peers => conns'[d].worker = Home(conns[d].fd)'
             /\ Open(d)' /\ conns'[d].peer \in Peers =>
                  sockets'[conns'[d].peer] = [fd |-> conns'[d].fd, conn |-> d]
             /\ Live(d)' => d = c \/ Live(d)
  <2>1. CASE d = c
    <3>1. Home(conns[d].fd)' = Home(f)
      BY <1>1, <1>2, <2>1 DEF Home
    <3>2. /\ conns'[d].fd = f /\ conns'[d].peer = p /\ conns'[d].worker = w
          /\ conns'[d].phase = how
      BY <1>1, <1>2, <2>1
    <3>3. Open(d)' => sockets'[p] = [fd |-> f, conn |-> d]
      BY <1>0, <1>3, <3>2, <2>1 DEF Open
    <3> QED
      BY <1>1, <1>6, <1>7, <2>1, <3>1, <3>2, <3>3
  <2>2. CASE d # c
    <3>1. conns'[d] = conns[d] /\ (Live(d)' <=> Live(d)) /\ (Open(d)' <=> Open(d))
      BY <1>2, <1>4, <2>2 DEF Live
    <3>2. /\ conns[d].phase # "closed"
          /\ Live(d) => owner[conns[d].fd] = conns[d].peer /\ conns[d].fd # f
          /\ Live(d) /\ conns[d].peer \in Peers => conns[d].worker = Home(conns[d].fd)
          /\ Open(d) /\ conns[d].peer \in Peers =>
                sockets[conns[d].peer] = [fd |-> conns[d].fd, conn |-> d]
      BY <1>6 DEF Agree, ConnInv
    <3>3. Live(d) => conns[d].fd \in Fds
      BY DEF TypeOK, Live, Open, Dying
    <3>4. Home(conns[d].fd)' = Home(conns[d].fd)
      BY <3>1 DEF Home
    <3>5. Live(d)' => owner'[conns'[d].fd] = conns'[d].peer
      BY <1>6, <3>1, <3>2, <3>3
    <3>6. Open(d)' /\ conns'[d].peer \in Peers =>
                sockets'[conns'[d].peer] = [fd |-> conns'[d].fd, conn |-> d]
      BY <1>3, <1>6, <3>1, <3>2 DEF Live
    <3> QED
      BY <3>1, <3>2, <3>4, <3>5, <3>6
  <2> QED
    BY <2>1, <2>2
<1>9. ConnInv'
  <2>1. ASSUME NEW d \in Ids, NEW e \in Ids, Live(d)', Live(e)', d # e
        PROVE  conns'[d].fd # conns'[e].fd
    <3>0. (d = c \/ Live(d)) /\ (e = c \/ Live(e))
      BY <1>4, <2>1 DEF Live
    <3>1. CASE d # c /\ e # c
      <4>1. conns[d].fd # conns[e].fd
        BY <2>1, <3>0, <3>1 DEF Agree, ConnInv
      <4> QED
        BY <1>2, <3>1, <4>1
    <3>2. CASE d = c \/ e = c
      BY <1>1, <1>2, <1>6, <2>1, <3>0, <3>2
    <3> QED
      BY <3>1, <3>2
  <2> QED
    BY <1>8, <2>1 DEF ConnInv
<1>10. TableInv'
  <2> SUFFICES ASSUME NEW q \in Peers, sockets'[q] # None
               PROVE  /\ owner'[sockets'[q].fd] = q
                      /\ \A d \in Ids : Dying(d)' => conns'[d].fd # sockets'[q].fd
                      /\ sockets'[q].conn # 0 =>
                           /\ Open(sockets[q].conn)'
                           /\ conns'[sockets'[q].conn].peer = q
                           /\ conns'[sockets'[q].conn].fd = sockets'[q].fd
    BY DEF TableInv
  <2>1. CASE q = p
    <3>1. sockets'[q] = [fd |-> f, conn |-> c] /\ how = "open"
      BY <1>3, <2>1
    <3>2. \A d \in Ids : Dying(d)' => conns'[d].fd # f
      BY <1>2, <1>4, <1>6, <1>0, <3>1 DEF Live
    <3>3. conns'[c].phase = "open" /\ conns'[c].peer = p /\ conns'[c].fd = f
      BY <1>0, <1>1, <1>2, <3>1
    <3> QED
      BY <1>6, <2>1, <3>1, <3>2, <3>3 DEF Open
  <2>2. CASE q # p
    <3>1. sockets'[q] = sockets[q] /\ sockets[q] # None /\ sockets[q].fd \in Fds
      BY <1>0, <1>3, <2>2 DEF TableType
    <3>2. /\ owner[sockets[q].fd] = q
          /\ \A d \in Ids : Dying(d) => conns[d].fd # sockets[q].fd
      BY <3>1 DEF Agree, TableInv
    <3>3. sockets[q].fd # f
      BY <1>0, <1>6, <2>2, <3>2
    <3>4. \A d \in Ids : Dying(d)' => conns'[d].fd # sockets'[q].fd
      BY <1>0, <1>1, <1>2, <1>4, <3>1, <3>2, <3>3
    <3>5. ASSUME sockets[q].conn # 0
          PROVE  /\ conns'[sockets[q].conn].phase = "open"
                 /\ conns'[sockets[q].conn].peer = q
                 /\ conns'[sockets[q].conn].fd = sockets[q].fd
      <4>1. sockets[q].conn \in Ids
        BY <1>0, <3>1, <3>5, UdpAssumption DEF TableType, Ids
      <4>2. /\ conns[sockets[q].conn].phase = "open" /\ conns[sockets[q].conn].peer = q
            /\ conns[sockets[q].conn].fd = sockets[q].fd
        BY <3>1, <3>5 DEF Agree, TableInv, Open
      <4> QED
        BY <1>0, <1>2, <4>1, <4>2
    <3> QED
      BY <1>6, <3>1, <3>2, <3>3, <3>4, <3>5 DEF Open
  <2> QED
    BY <2>1, <2>2
<1>11. TaskInv'
  <2>1. ASSUME NEW v \in Threads, NEW u \in TaskType, TaskOK(v, u), ~u.stale
        PROVE  TaskOK(v, u)'
    <3>1. /\ owner[u.fd] = u.data.from /\ v = Home(u.fd) /\ u.data.from \in Peers
          /\ u.fd \in Fds
      BY <2>1 DEF TaskOK, TaskType, Datagram
    <3>2. owner'[u.fd] = u.data.from
      BY <1>0, <1>6, <3>1
    <3>3. CASE sockets[u.data.from] # None /\ sockets[u.data.from].fd = u.fd
      <4>1. CASE u.data.from = p
        <5>1. u.fd = f
          BY <1>6, <3>3, <4>1
        <5>2. CASE how = "open"
          <6>1. sockets'[p] = [fd |-> f, conn |-> c] /\ sockets'[p] # None
            BY <1>0, <1>3, <5>2, UdpAssumption DEF Fds, Ids
          <6> QED
            BY <1>5, <3>1, <3>2, <4>1, <5>1, <6>1 DEF TaskOK
        <5>3. CASE how = "dying"
          <6>1. Dying(c)' /\ conns'[c].fd = f
            BY <1>0, <1>1, <1>2, <1>4, <5>3
          <6> QED
            BY <1>0, <1>5, <3>1, <3>2, <5>1, <6>1 DEF TaskOK
        <5> QED
          BY <5>2, <5>3
      <4>2. CASE u.data.from # p
        BY <1>3, <1>5, <3>1, <3>2, <3>3, <4>2 DEF TaskOK
      <4> QED
        BY <4>1, <4>2
    <3>4. CASE \E d \in Ids : Dying(d) /\ conns[d].fd = u.fd
      <4>1. PICK d \in Ids : Dying(d) /\ conns[d].fd = u.fd
        BY <3>4
      <4>2. Dying(d)' /\ conns'[d].fd = u.fd
        BY <1>0, <1>2, <1>4, <4>1 DEF Live
      <4> QED
        BY <1>5, <3>1, <3>2, <4>2 DEF TaskOK
    <3> QED
      BY <2>1, <3>3, <3>4 DEF TaskOK
  <2> QED
    BY <2>1, TasksKeep DEF Agree, TaskOK
<1>12. AcceptInv'
  <2>1. SUFFICES ASSUME accepting' # None
                 PROVE  /\ owner'[accepting'.fd] = "bound"
                        /\ sockets'[accepting'.data.from] = None
    BY DEF AcceptInv
  <2>2. /\ accepting' = accepting /\ accepting.data.from # p
        /\ owner'[accepting'.fd] = "bound"
    BY <2>1 DEF Buildable, p
  <2>3. sockets[accepting.data.from] = None /\ accepting.data.from \in Peers
    BY <2>1, <2>2 DEF Agree, AcceptInv, TypeOK, Datagram
  <2> QED
    BY <1>3, <2>2, <2>3
<1> QED
  BY <1>9, <1>10, <1>11, <1>12 DEF Agree

(* Every connection was given datagrams of its peer only.                  *)
Own == \A h \in handled : h[1] = h[2].from

\* How a callback can leave a connection that is not kept after its close.
LEMMA SoundLeaves ==
  ASSUME NEW how \in Leaves, mishaps \cup Kept(how) \subseteq mishaps', Sound'
  PROVE  how \in {"open", "dying"} /\ Sound
BY DEF Sound, Kept, Leaves

\* What a new connection leaves in the histories: its datagram is handed over
\* unless onConnected throws.
LEMMA BuildHistory ==
  ASSUME NEW w, NEW t, NEW table, NEW how, Build(w, t, table, how)
  PROVE  /\ mishaps \cup Kept(how) \subseteq mishaps'
         /\ t.stale => "stale" \in mishaps'
         /\ \/ handled' = handled /\ "thrown" \in mishaps'
            \/ handled' = handled \cup {<<t.data.from, t.data>>}
<1>1. PICK thrown \in SUBSET {"thrown"} :
         /\ handled' = IF thrown = {} THEN handled \cup {<<t.data.from, t.data>>} ELSE handled
         /\ mishaps' = mishaps \cup Kept(how) \cup thrown
                          \cup (IF t.stale THEN {"stale"} ELSE {})
  BY DEF Build
<1>2. thrown = {} \/ "thrown" \in thrown
  OBVIOUS
<1> QED
  BY <1>1, <1>2

\* createUdpConnection: a task whose socket is still open either finds the
\* connection of its sender or builds the only one; a task that outlived its
\* socket finds the connection, or is one of the mishaps.
LEMMA CreateKeeps ==
  ASSUME TypeOK, TypeOK', Agree, OldTasks, NEW w \in Threads, NEW t \in TaskType,
         TaskOK(w, t), Idle(w), CreateUdpConnection(w, t), Sound',
         UNCHANGED <<owner, shareThread, accepting>>
  PROVE  Agree' /\ (Own => Own')
<1> DEFINE p == t.data.from
           f == t.fd
<1>0. sockets \in TableType /\ p \in Peers /\ f \in Fds /\ {"closed", "bound"} \cap Peers = {}
  BY UdpAssumption DEF TypeOK, TableType, TaskType, Datagram
<1>1. CASE Known(w, p)
  <2>1. PICK how \in Leaves : Deliver(sockets[p].conn, t.data, how)
    BY <1>1 DEF CreateUdpConnection, Entry, Key
  <2>2. PICK c \in Ids : c = sockets[p].conn /\ Open(c) /\ sockets[p] # None /\ c # 0
    BY <1>0, <1>1, UdpAssumption DEF Known, Entry, Key, TableType, Ids
  <2>3. how \in {"open", "dying"}
    BY <2>1, SoundLeaves DEF Deliver
  <2>4. Agree'
    BY <2>1, <2>2, <2>3, LeaveKeeps DEF Deliver
  <2>5. conns[c].peer = p
    BY <1>0, <2>2 DEF Agree, TableInv
  <2>6. handled' = handled \cup {<<p, t.data>>}
    BY <2>1, <2>2, <2>5 DEF Deliver
  <2> QED
    BY <2>4, <2>6 DEF Own
<1>2. CASE ~Known(w, p)
  <2>1. "stale" \notin mishaps'
    BY DEF Sound
  <2>2. owner[f] # "closed"
    BY <1>2, <2>1 DEF CreateUdpConnection, BuildFails
  <2>3. PICK how \in Leaves : Build(w, t, sockets, how)
    BY <1>2, <2>2 DEF CreateUdpConnection
  <2>4. ~t.stale /\ how \in {"open", "dying"}
    <3>1. mishaps \cup Kept(how) \subseteq mishaps' /\ (t.stale => "stale" \in mishaps')
      BY <2>3, BuildHistory
    <3> QED
      BY <2>1, <3>1, SoundLeaves
  <2>5. owner[f] = p /\ w = Home(f)
    BY <2>4 DEF TaskOK
  <2>6. ASSUME NEW c \in Ids, Live(c), conns[c].fd = f PROVE Open(c)
    <3>0. conns[c].peer = p
      BY <2>5, <2>6 DEF Agree, ConnInv
    <3>1. conns[c].worker = w
      BY <1>0, <2>5, <2>6, <3>0 DEF Agree, ConnInv
    <3> QED
      BY <2>6, <3>1 DEF Idle, Live, Dying
  <2>7. sockets[p] # None /\ sockets[p].fd = f
    <3>1. ~ \E c \in Ids : Dying(c) /\ conns[c].fd = f
      BY <2>6 DEF Live, Open, Dying
    <3> QED
      BY <2>4, <3>1 DEF TaskOK
  <2>8. sockets[p].conn = 0
    <3>1. SUFFICES ASSUME sockets[p].conn # 0 PROVE FALSE
      OBVIOUS
    <3>2. PICK c \in Ids : c = sockets[p].conn
      BY <1>0, <2>7, <3>1, UdpAssumption DEF TableType, Ids
    <3>3. Open(c) /\ conns[c].peer = p /\ conns[c].fd = f
      BY <1>0, <2>7, <3>1, <3>2 DEF Agree, TableInv
    <3>4. conns[c].worker = w
      BY <1>0, <2>5, <3>3 DEF Agree, ConnInv, Live
    <3> QED
      BY <1>2, <2>7, <3>1, <3>2, <3>3, <3>4 DEF Known, Entry, Key
  <2>9. ASSUME NEW c \in Ids, Open(c) PROVE conns[c].peer # p
    <3>1. SUFFICES ASSUME conns[c].peer = p PROVE FALSE
      OBVIOUS
    <3>2. sockets[p] = [fd |-> conns[c].fd, conn |-> c]
      BY <1>0, <2>9, <3>1 DEF Agree, ConnInv
    <3> QED
      BY <2>8, <3>2, UdpAssumption DEF Ids
  <2>10. ASSUME NEW c \in Ids, Live(c) PROVE conns[c].fd # f
    <3>1. SUFFICES ASSUME conns[c].fd = f PROVE FALSE
      OBVIOUS
    <3>2. conns[c].peer = p
      BY <2>5, <2>10, <3>1 DEF Agree, ConnInv
    <3> QED
      BY <2>6, <2>9, <2>10, <3>1, <3>2
  <2>11. sockets[p] = [fd |-> f, conn |-> 0]
    BY <1>0, <2>7, <2>8 DEF TableType
  <2>12. accepting # None =>
            /\ owner[accepting.fd] = "bound" /\ accepting.fd # f
            /\ accepting.data.from # p
    BY <1>0, <2>5, <2>7 DEF Agree, AcceptInv
  <2>13. Buildable(w, t, sockets)
    BY <1>0, <2>5, <2>9, <2>10, <2>11, <2>12 DEF Buildable
  <2>14. Agree'
    BY <1>0, <2>3, <2>4, <2>13, BuildKeeps
  <2>15. handled' = handled \/ handled' = handled \cup {<<p, t.data>>}
    BY <2>3, BuildHistory
  <2> QED
    BY <2>14, <2>15 DEF Own
<1> QED
  BY <1>1, <1>2

(* What a step must establish besides the types.                           *)
Goal ==
    /\ Sound => Agree
    /\ Sound /\ "stray" \notin mishaps => QueueInv /\ Own

(* Phase, peer, thread and descriptor of every connection stay.            *)
SameConns ==
    \A d \in Ids : /\ conns'[d].phase = conns[d].phase /\ conns'[d].peer = conns[d].peer
                   /\ conns'[d].worker = conns[d].worker /\ conns'[d].fd = conns[d].fd

\* Steps that touch neither table, sockets, tasks nor the identity of a
\* connection.
LEMMA FrameKeeps ==
  ASSUME TypeOK, Agree, SameConns,
         UNCHANGED <<owner, sockets, shareThread, accepting, tasks>>
  PROVE  Agree'
<1>1. \A d \in Ids : /\ Open(d)' <=> Open(d)
                     /\ Dying(d)' <=> Dying(d)
                     /\ Live(d)' <=> Live(d)
  BY DEF SameConns, Open, Dying, Live
<1>2. \A x : Home(x)' = Home(x)
  BY DEF Home, WorkerOfKey
<1>3. ConnInv'
  <2>1. ASSUME NEW d \in Ids
        PROVE  /\ conns'[d].phase # "closed"
               /\ Live(d)' => owner'[conns'[d].fd] = conns'[d].peer
               /\ Live(d)' /\ conns'[d].peer \in Peers => conns'[d].worker = Home(conns[d].fd)'
               /\ Open(d)' /\ conns'[d].peer \in Peers =>
                    sockets'[conns'[d].peer] = [fd |-> conns'[d].fd, conn |-> d]
    <3>1. Home(conns[d].fd)' = Home(conns[d].fd)
      BY DEF SameConns, Home
    <3>2. /\ conns[d].phase # "closed"
          /\ Live(d) => owner[conns[d].fd] = conns[d].peer
          /\ Live(d) /\ conns[d].peer \in Peers => conns[d].worker = Home(conns[d].fd)
          /\ Open(d) /\ conns[d].peer \in Peers =>
                sockets[conns[d].peer] = [fd |-> conns[d].fd, conn |-> d]
      BY DEF Agree, ConnInv
    <3> QED
      BY <1>1, <3>1, <3>2 DEF SameConns
  <2>2. \A d, e \in Ids : Live(d)' /\ Live(e)' /\ d # e => conns'[d].fd # conns'[e].fd
    BY <1>1 DEF SameConns, Agree, ConnInv
  <2> QED
    BY <2>1, <2>2 DEF ConnInv
<1>4. TableInv'
  <2> SUFFICES ASSUME NEW q \in Peers, sockets[q] # None
               PROVE  /\ owner'[sockets'[q].fd] = q
                      /\ \A d \in Ids : Dying(d)' => conns'[d].fd # sockets'[q].fd
                      /\ sockets'[q].conn # 0 =>
                           /\ Open(sockets[q].conn)'
                           /\ conns'[sockets'[q].conn].peer = q
                           /\ conns'[sockets'[q].conn].fd = sockets'[q].fd
    BY DEF TableInv
  <2>1. sockets[q].conn # 0 => sockets[q].conn \in Ids
    BY UdpAssumption DEF TypeOK, Ids
  <2>2. /\ owner[sockets[q].fd] = q
        /\ \A d \in Ids : Dying(d) => conns[d].fd # sockets[q].fd
        /\ sockets[q].conn # 0 =>
             /\ conns[sockets[q].conn].phase = "open" /\ conns[sockets[q].conn].peer = q
             /\ conns[sockets[q].conn].fd = sockets[q].fd
    BY DEF Agree, TableInv, Open
  <2> QED
    BY <1>1, <2>1, <2>2 DEF SameConns, Open
<1>5. TaskInv'
  <2>1. \A w \in Threads, t \in TaskType : TaskOK(w, t) => TaskOK(w, t)'
    BY <1>1, <1>2 DEF TaskOK, SameConns
  <2>2. OldTasks
    BY DEF OldTasks
  <2> QED
    BY <2>1, <2>2, TasksKeep DEF Agree
<1>6. AcceptInv'
  BY DEF Agree, AcceptInv
<1> QED
  BY <1>3, <1>4, <1>5, <1>6 DEF Agree

\* A datagram goes to the socket of its sender, to the listener, or, before a
\* socket is connected, astray.
LEMMA ArriveKeeps ==
  ASSUME Inv, NEW a \in Addresses, Arrive(a), TypeOK' PROVE Goal'
<1> DEFINE d == [from |-> a, n |-> sent[a] + 1]
           mine == {f \in Fds : owner[f] = a}
<1>1. /\ UNCHANGED <<shareThread, owner, sockets, accepting, tasks, conns, handled>>
      /\ mishaps' \in {mishaps, mishaps \cup {"stray"}}
  BY DEF Arrive
<1>2. Sound' => Sound
  BY <1>1 DEF Sound
<1>3. Sound' => Agree'
  BY <1>1, <1>2, FrameKeeps DEF Inv, SameConns
<1>4. ASSUME Sound', "stray" \notin mishaps' PROVE QueueInv' /\ Own'
  <2>1. QueueInv /\ Own
    BY <1>1, <1>2, <1>4 DEF Inv, Own
  <2>2. CASE queue' = queue
    BY <1>1, <2>1, <2>2 DEF QueueInv, Own
  <2>3. CASE \E f \in mine : queue' = [queue EXCEPT ![f] = Append(@, d)]
    <3>1. PICK f \in Fds : owner[f] = a /\ queue' = [queue EXCEPT ![f] = Append(@, d)]
      BY <2>3
    <3>2. \A g \in Fds \ {f} : queue'[g] = queue[g]
      BY <3>1 DEF Inv, TypeOK
    <3>3. \A i \in DOMAIN queue'[f] : queue'[f][i].from = a
      <4> HIDE DEF d
      <4>1. queue[f] \in Seq(Datagram(Addresses)) /\ queue'[f] = Append(queue[f], d)
        BY <3>1 DEF Inv, TypeOK
      <4>2. \A i \in DOMAIN queue'[f] : \/ i \in DOMAIN queue[f] /\ queue'[f][i] = queue[f][i]
                                        \/ queue'[f][i] = d
        BY <4>1
      <4>3. d.from = a
        BY DEF d
      <4> QED
        BY <2>1, <3>1, <4>2, <4>3 DEF QueueInv
    <3>4. owner[f] \notin {"closed", "bound"}
      BY <3>1, UdpAssumption DEF Addresses
    <3>5. QueueInv'
      BY <1>1, <2>1, <3>1, <3>2, <3>3, <3>4 DEF QueueInv
    <3> QED
      BY <1>1, <2>1, <3>5 DEF Own
  <2> QED
    BY <1>4, <2>2, <2>3 DEF Arrive
<1> QED
  BY <1>3, <1>4 DEF Goal

\* The destructor closes a descriptor that no entry and no other connection
\* has, and tasks that have it are stale from then on.
LEMMA CloseSocketKeeps ==
  ASSUME Inv, NEW c \in Ids, CloseSocket(c), TypeOK' PROVE Goal'
<1>. PICK f \in Fds : f = conns[c].fd
  BY DEF CloseSocket, Inv, TypeOK
<1>1. /\ Dying(c) /\ owner' = [owner EXCEPT ![f] = "closed"]
      /\ queue' = [queue EXCEPT ![f] = <<>>]
      /\ mishaps' \in {mishaps, mishaps \cup {"unread"}}
      /\ UNCHANGED <<shareThread, sent, inbox, sockets, accepting, handled>>
  BY DEF CloseSocket, Dying
<1>2. \A d \in Ids : /\ conns'[d].fd = conns[d].fd /\ conns'[d].peer = conns[d].peer
                     /\ conns'[d].worker = conns[d].worker
                     /\ conns'[d].phase = IF d = c THEN "gone" ELSE conns[d].phase
  <2>1. conns' = [i \in Ids |->
              IF i = c
              THEN [conns[i] EXCEPT !.phase = "gone", !.out = 0, !.writes = FALSE,
                                    !.empty = FALSE]
              ELSE [conns[i] EXCEPT !.watched = @ /\ conns[i].fd # f]]
    BY DEF CloseSocket
  <2> SUFFICES ASSUME NEW d \in Ids
               PROVE  /\ conns'[d].fd = conns[d].fd /\ conns'[d].peer = conns[d].peer
                      /\ conns'[d].worker = conns[d].worker
                      /\ conns'[d].phase = IF d = c THEN "gone" ELSE conns[d].phase
    OBVIOUS
  <2>2. conns[d] \in ConnType
    BY DEF Inv, TypeOK
  <2>3. conns'[d] = IF d = c
                    THEN [conns[d] EXCEPT !.phase = "gone", !.out = 0, !.writes = FALSE,
                                          !.empty = FALSE]
                    ELSE [conns[d] EXCEPT !.watched = @ /\ conns[d].fd # f]
    BY <2>1
  <2> QED
    BY <2>2, <2>3 DEF ConnType
<1>3. \A g \in Fds : /\ owner'[g] = IF g = f THEN "closed" ELSE owner[g]
                     /\ queue'[g] = IF g = f THEN <<>> ELSE queue[g]
  BY <1>1 DEF Inv, TypeOK
<1>4. \A d \in Ids : /\ Open(d)' <=> Open(d)
                     /\ Dying(d)' <=> (Dying(d) /\ d # c)
                     /\ Live(d)' <=> (Live(d) /\ d # c)
  BY <1>1, <1>2 DEF Open, Dying, Live
<1>5. Sound' => Sound /\ Agree
  BY <1>1 DEF Sound, Inv
<1>6. ASSUME Sound' PROVE Agree'
  <2>1. ASSUME NEW d \in Ids, Live(d)' PROVE conns[d].fd # f /\ conns[d].fd \in Fds
    <3>1. Live(d) /\ d # c /\ Live(c)
      BY <1>1, <1>4, <2>1 DEF Live
    <3>2. conns[d].fd # f
      BY <1>5, <1>6, <3>1 DEF Agree, ConnInv
    <3> QED
      BY <3>1, <3>2 DEF Live, Open, Dying, Inv, TypeOK
  <2>2. ASSUME NEW d \in Ids
        PROVE  /\ conns'[d].phase # "closed"
               /\ Live(d)' => owner'[conns'[d].fd] = conns'[d].peer
               /\ Live(d)' /\ conns'[d].peer \in Peers => conns'[d].worker = Home(conns[d].fd)'
               /\ Open(d)' /\ conns'[d].peer \in Peers =>
                    sockets'[conns'[d].peer] = [fd |-> conns'[d].fd, conn |-> d]
    <3>1. Home(conns[d].fd)' = Home(conns[d].fd)
      BY <1>1, <1>2 DEF Home
    <3>2. /\ conns[d].phase # "closed"
          /\ Live(d) => owner[conns[d].fd] = conns[d].peer
          /\ Live(d) /\ conns[d].peer \in Peers => conns[d].worker = Home(conns[d].fd)
          /\ Open(d) /\ conns[d].peer \in Peers =>
                sockets[conns[d].peer] = [fd |-> conns[d].fd, conn |-> d]
      BY <1>5, <1>6 DEF Agree, ConnInv
    <3>3. Live(d)' => owner'[conns'[d].fd] = conns'[d].peer
      BY <1>2, <1>3, <1>4, <2>1, <3>2
    <3> QED
      BY <1>1, <1>2, <1>4, <3>1, <3>2, <3>3
  <2>3. ConnInv'
    <3>1. ASSUME NEW d \in Ids, NEW e \in Ids, Live(d)', Live(e)', d # e
          PROVE  conns'[d].fd # conns'[e].fd
      <4>1. conns[d].fd # conns[e].fd
        BY <1>4, <1>5, <1>6, <3>1 DEF Agree, ConnInv
      <4> QED
        BY <1>2, <4>1
    <3> QED
      BY <2>2, <3>1 DEF ConnInv
  <2>4. TableInv'
    <3> SUFFICES ASSUME NEW q \in Peers, sockets[q] # None
                 PROVE  /\ owner'[sockets'[q].fd] = q
                        /\ \A d \in Ids : Dying(d)' => conns'[d].fd # sockets'[q].fd
                        /\ sockets'[q].conn # 0 =>
                             /\ Open(sockets[q].conn)'
                             /\ conns'[sockets'[q].conn].peer = q
                             /\ conns'[sockets'[q].conn].fd = sockets'[q].fd
      BY <1>1 DEF TableInv
    <3>1. /\ sockets[q].conn # 0 => sockets[q].conn \in Ids
          /\ sockets[q].fd \in Fds
      BY UdpAssumption DEF Inv, TypeOK, Ids
    <3>2. /\ owner[sockets[q].fd] = q
          /\ \A d \in Ids : Dying(d) => conns[d].fd # sockets[q].fd
          /\ sockets[q].conn # 0 =>
               /\ conns[sockets[q].conn].phase = "open" /\ conns[sockets[q].conn].peer = q
               /\ conns[sockets[q].conn].fd = sockets[q].fd
      BY <1>5, <1>6 DEF Agree, TableInv, Open
    <3>3. sockets[q].fd # f
      BY <1>1, <3>2
    <3>4. sockets[q].conn # c
      BY <1>1, <3>1, <3>2, UdpAssumption DEF Dying, Ids
    <3>5. owner'[sockets'[q].fd] = q
      BY <1>1, <1>3, <3>1, <3>2, <3>3
    <3>6. \A d \in Ids : Dying(d)' => conns'[d].fd # sockets'[q].fd
      BY <1>1, <1>2, <1>4, <3>2
    <3> QED
      BY <1>1, <1>2, <3>1, <3>2, <3>4, <3>5, <3>6 DEF Open
  <2>5. TaskInv'
    <3> SUFFICES ASSUME NEW w \in Threads, NEW i \in DOMAIN tasks'[w]
                 PROVE  TaskOK(w, tasks[w][i])'
      BY DEF TaskInv
    <3>1. /\ i \in DOMAIN tasks[w]
          /\ tasks'[w][i] = [tasks[w][i] EXCEPT !.stale = @ \/ tasks[w][i].fd = f]
      BY DEF CloseSocket
    <3>2. PICK t \in TaskType : t = tasks[w][i]
      BY <3>1 DEF Inv, TypeOK
    <3>3. PICK u \in TaskType : u = tasks'[w][i]
      BY DEF TypeOK
    <3>4. u.fd = t.fd /\ u.data = t.data /\ (~u.stale => ~t.stale /\ t.fd # f)
      BY <3>1, <3>2, <3>3 DEF TaskType
    <3>5. TaskOK(w, t)
      BY <1>5, <1>6, <3>1, <3>2 DEF Agree, TaskInv
    <3>6. ASSUME ~u.stale
          PROVE  /\ owner'[u.fd] = u.data.from /\ w = Home(u.fd)'
                 /\ \/ sockets'[u.data.from] # None /\ sockets'[u.data.from].fd = u.fd
                    \/ \E d \in Ids : Dying(d)' /\ conns'[d].fd = u.fd
      <4>1. /\ owner[t.fd] = t.data.from /\ w = Home(t.fd)
            /\ \/ sockets[t.data.from] # None /\ sockets[t.data.from].fd = t.fd
               \/ \E d \in Ids : Dying(d) /\ conns[d].fd = t.fd
        BY <3>4, <3>5, <3>6 DEF TaskOK
      <4>2. owner'[u.fd] = u.data.from
        BY <1>3, <3>4, <3>6, <4>1 DEF TaskType
      <4>3. w = Home(u.fd)'
        BY <1>1, <3>4, <4>1 DEF Home
      <4>4. \/ sockets'[u.data.from] # None /\ sockets'[u.data.from].fd = u.fd
            \/ \E d \in Ids : Dying(d)' /\ conns'[d].fd = u.fd
        BY <1>1, <1>2, <1>4, <3>4, <3>6, <4>1
      <4> QED
        BY <4>2, <4>3, <4>4
    <3>7. TaskOK(w, u)'
      BY <3>6 DEF TaskOK
    <3> QED
      BY <3>3, <3>7 DEF TaskOK, Home
  <2>6. AcceptInv'
    <3>1. SUFFICES ASSUME accepting # None
                   PROVE  /\ owner'[accepting.fd] = "bound"
                          /\ sockets[accepting.data.from] = None
      BY <1>1 DEF AcceptInv
    <3>2. /\ owner[accepting.fd] = "bound" /\ sockets[accepting.data.from] = None
          /\ accepting.fd \in Fds
      BY <1>5, <1>6, <3>1 DEF Agree, AcceptInv, Inv, TypeOK
    <3>3. owner[f] = conns[c].peer /\ conns[c].peer \in Addresses
      BY <1>1, <1>5, <1>6 DEF Agree, ConnInv, Live, Dying, Inv, TypeOK
    <3> QED
      BY <1>3, <3>2, <3>3, UdpAssumption DEF Addresses
  <2> QED
    BY <2>3, <2>4, <2>5, <2>6 DEF Agree
<1>7. ASSUME Sound', "stray" \notin mishaps' PROVE QueueInv' /\ Own'
  <2>1. QueueInv /\ Own
    BY <1>1, <1>5, <1>7 DEF Inv, Own
  <2>2. QueueInv'
    BY <1>3, <2>1 DEF QueueInv
  <2> QED
    BY <1>1, <2>1, <2>2 DEF Own
<1> QED
  BY <1>6, <1>7 DEF Goal

\* The application's use of a connection, and its end.
LEMMA ConnectionKeeps ==
  ASSUME Inv, NEW c \in Ids, Connection(c), TypeOK' PROVE Goal'
<1>0. Sound => Agree
  BY DEF Inv
<1>1. ASSUME CloseSocket(c) PROVE Goal'
  BY <1>1, CloseSocketKeeps
<1>2. ASSUME Release(c) PROVE Goal'
  <2>1. mishaps' = mishaps /\ conns[c].phase = "closed"
    BY <1>2 DEF Release
  <2>2. ~Sound
    BY <1>0, <2>1 DEF Agree, ConnInv
  <2> QED
    BY <2>1, <2>2 DEF Goal, Sound
<1>3. ASSUME OnRead(c) PROVE Goal'
  <2>. PICK f \in Fds : f = conns[c].fd
    BY <1>3 DEF OnRead, Runs, Open, Inv, TypeOK
  <2>1. PICK how \in Leaves : Deliver(c, Head(queue[f]), how)
    BY <1>3 DEF OnRead
  <2>2. /\ Open(c) /\ queue[f] # <<>> /\ queue' = [queue EXCEPT ![f] = Tail(@)]
        /\ UNCHANGED <<shareThread, owner, accepting, tasks>>
    BY <1>3 DEF OnRead, Runs
  <2>3. ASSUME Sound' PROVE Sound /\ Agree /\ Agree'
    <3>1. how \in {"open", "dying"} /\ Sound
      BY <2>1, <2>3, SoundLeaves DEF Deliver
    <3>2. OldTasks
      BY <2>2 DEF OldTasks
    <3> QED
      BY <1>0, <2>1, <2>2, <3>1, <3>2, LeaveKeeps DEF Deliver, Inv
  <2>4. ASSUME Sound', "stray" \notin mishaps' PROVE QueueInv' /\ Own'
    <3>1. QueueInv /\ Own
      BY <2>1, <2>3, <2>4 DEF Inv, Own, Deliver
    <3>2. queue[f] \in Seq(Datagram(Addresses))
      BY DEF Inv, TypeOK
    <3>3. /\ Head(queue[f]).from = owner[f]
          /\ \A i \in DOMAIN Tail(queue[f]) : Tail(queue[f])[i].from = owner[f]
      <4>1. /\ 1 \in DOMAIN queue[f] /\ Head(queue[f]) = queue[f][1]
            /\ \A i \in DOMAIN Tail(queue[f]) :
                 i + 1 \in DOMAIN queue[f] /\ Tail(queue[f])[i] = queue[f][i + 1]
        BY <2>2, <3>2
      <4> QED
        BY <3>1, <4>1 DEF QueueInv
    <3>4. \A g \in Fds : queue'[g] = IF g = f THEN Tail(queue[f]) ELSE queue[g]
      BY <2>2 DEF Inv, TypeOK
    <3>5. owner[f] = conns[c].peer
      BY <2>2, <2>3, <2>4 DEF Agree, ConnInv, Live
    <3>6. owner[f] \notin {"closed", "bound"}
      BY <2>2, <3>1 DEF QueueInv
    <3>7. QueueInv'
      BY <2>2, <3>1, <3>3, <3>4, <3>6 DEF QueueInv
    <3>8. handled' = handled \cup {<<conns[c].peer, Head(queue[f])>>}
      BY <2>1 DEF Deliver
    <3> QED
      BY <3>1, <3>3, <3>5, <3>7, <3>8 DEF Own
  <2> QED
    BY <2>3, <2>4 DEF Goal
<1>4. ASSUME SameConns, UNCHANGED <<owner, sockets, shareThread, accepting, tasks, queue, handled, mishaps>>
      PROVE  Goal'
  <2>1. Sound' <=> Sound
    BY <1>4 DEF Sound
  <2>2. Sound' => Agree'
    BY <1>0, <1>4, <2>1, FrameKeeps DEF Inv
  <2>3. Sound' /\ "stray" \notin mishaps' => QueueInv' /\ Own'
    BY <1>4, <2>1 DEF Inv, QueueInv, Own
  <2> QED
    BY <2>2, <2>3 DEF Goal
<1>5. conns \in [Ids -> ConnType]
  BY DEF Inv, TypeOK
<1>6. ASSUME Send(c) PROVE Goal'
  <2>1. SameConns
    BY <1>5, <1>6 DEF SameConns, Send, SendQueued, ConnType
  <2> QED
    BY <1>4, <1>6, <2>1 DEF Send
<1>7. ASSUME NEW n \in 1..MaxOut, OnWrite(c, n) PROVE Goal'
  <2>1. SameConns
    BY <1>5, <1>7 DEF SameConns, OnWrite, ConnType
  <2> QED
    BY <1>4, <1>7, <2>1 DEF OnWrite
<1>8. ASSUME NEW how \in Leaves, Close(c, how) PROVE Goal'
  <2>1. /\ Open(c) /\ mishaps' = mishaps \cup Kept(how)
        /\ conns' = [conns EXCEPT ![c] = Leave(@, how)]
        /\ sockets' = Left(sockets, conns[c], how)
        /\ UNCHANGED <<shareThread, owner, accepting, tasks, queue, handled>>
    BY <1>8 DEF Close, Runs
  <2>2. ASSUME Sound' PROVE Sound /\ Agree'
    <3>1. how \in {"open", "dying"} /\ Sound
      BY <2>1, <2>2, SoundLeaves
    <3>2. OldTasks
      BY <2>1 DEF OldTasks
    <3> QED
      BY <1>0, <2>1, <3>1, <3>2, LeaveKeeps DEF Inv
  <2>3. Sound' /\ "stray" \notin mishaps' => QueueInv' /\ Own'
    BY <2>1, <2>2 DEF Inv, QueueInv, Own
  <2> QED
    BY <2>2, <2>3 DEF Goal
<1>9. ASSUME OnReadEmpty(c) PROVE Goal'
  <2>. PICK f \in Fds : f = conns[c].fd
    BY <1>9 DEF OnReadEmpty, Runs, Open, Inv, TypeOK
  <2>1. /\ queue[f] # <<>> /\ queue' = [queue EXCEPT ![f] = Tail(@)]
        /\ mishaps' = mishaps \cup {"empty"}
        /\ UNCHANGED <<shareThread, owner, sockets, accepting, tasks, conns, handled>>
    BY <1>9 DEF OnReadEmpty
  <2>2. Sound' => Sound /\ Agree'
    <3>1. SameConns
      BY <2>1 DEF SameConns
    <3>2. Sound' => Sound
      BY <2>1 DEF Sound
    <3> QED
      BY <1>0, <2>1, <3>1, <3>2, FrameKeeps DEF Inv
  <2>3. ASSUME Sound', "stray" \notin mishaps' PROVE QueueInv' /\ Own'
    <3>1. QueueInv /\ Own
      <4>1. Sound /\ "stray" \notin mishaps
        BY <2>1, <2>2, <2>3
      <4> QED
        BY <4>1 DEF Inv, Own
    <3>2. queue[f] \in Seq(Datagram(Addresses))
      BY DEF Inv, TypeOK
    <3>3. \A i \in DOMAIN Tail(queue[f]) :
             i + 1 \in DOMAIN queue[f] /\ Tail(queue[f])[i] = queue[f][i + 1]
      BY <2>1, <3>2
    <3>4. \A i \in DOMAIN Tail(queue[f]) : Tail(queue[f])[i].from = owner[f]
      BY <3>1, <3>3 DEF QueueInv
    <3>5. \A g \in Fds : queue'[g] = IF g = f THEN Tail(queue[f]) ELSE queue[g]
      BY <2>1 DEF Inv, TypeOK
    <3>6. owner[f] \notin {"closed", "bound"}
      BY <2>1, <3>1 DEF QueueInv
    <3> QED
      BY <2>1, <3>1, <3>4, <3>5, <3>6 DEF QueueInv, Own
  <2> QED
    BY <2>2, <2>3 DEF Goal
<1>10. ASSUME SendNothing(c) PROVE Goal'
  <2>1. SameConns
    BY <1>5, <1>10 DEF SameConns, SendNothing, ConnType
  <2> QED
    BY <1>4, <1>10, <2>1 DEF SendNothing
<1> QED
  BY <1>1, <1>2, <1>3, <1>6, <1>7, <1>8, <1>9, <1>10 DEF Connection

\* A descriptor that nobody has changes hands.
LEMMA SpareKeeps ==
  ASSUME TypeOK, TypeOK', Agree, NEW f \in Fds, owner[f] \in {"closed", "bound"},
         \A g \in Fds \ {f} : owner'[g] = owner[g],
         UNCHANGED <<conns, sockets, tasks, shareThread>>
  PROVE  ConnInv' /\ TableInv' /\ TaskInv'
<1>0. "closed" \notin Addresses /\ "bound" \notin Addresses /\ Peers \subseteq Addresses
  BY UdpAssumption DEF Addresses
<1>1. \A d \in Ids : /\ Open(d)' <=> Open(d)
                     /\ Dying(d)' <=> Dying(d)
                     /\ Live(d)' <=> Live(d)
  BY DEF Open, Dying, Live
<1>2. \A x : Home(x)' = Home(x)
  BY DEF Home, WorkerOfKey
<1>3. ASSUME NEW d \in Ids, Live(d) PROVE owner'[conns[d].fd] = owner[conns[d].fd]
  <2>1. /\ conns[d].fd \in Fds /\ conns[d].peer \in Addresses
        /\ owner[conns[d].fd] = conns[d].peer
    BY <1>3 DEF TypeOK, Agree, ConnInv, Live, Open, Dying
  <2> QED
    BY <1>0, <2>1
<1>4. ConnInv'
  <2>1. ASSUME NEW d \in Ids
        PROVE  /\ conns'[d].phase # "closed"
               /\ Live(d)' => owner'[conns'[d].fd] = conns'[d].peer
               /\ Live(d)' /\ conns'[d].peer \in Peers => conns'[d].worker = Home(conns[d].fd)'
               /\ Open(d)' /\ conns'[d].peer \in Peers =>
                    sockets'[conns'[d].peer] = [fd |-> conns'[d].fd, conn |-> d]
    <3>1. Home(conns[d].fd)' = Home(conns[d].fd)
      BY DEF Home
    <3>2. /\ conns[d].phase # "closed"
          /\ Live(d) => owner[conns[d].fd] = conns[d].peer
          /\ Live(d) /\ conns[d].peer \in Peers => conns[d].worker = Home(conns[d].fd)
          /\ Open(d) /\ conns[d].peer \in Peers =>
                sockets[conns[d].peer] = [fd |-> conns[d].fd, conn |-> d]
      BY DEF Agree, ConnInv
    <3> QED
      BY <1>1, <1>3, <3>1, <3>2
  <2>2. \A d, e \in Ids : Live(d)' /\ Live(e)' /\ d # e => conns'[d].fd # conns'[e].fd
    BY <1>1 DEF Agree, ConnInv
  <2> QED
    BY <2>1, <2>2 DEF ConnInv
<1>5. TableInv'
  <2> SUFFICES ASSUME NEW q \in Peers, sockets[q] # None
               PROVE  /\ owner'[sockets'[q].fd] = q
                      /\ \A d \in Ids : Dying(d)' => conns'[d].fd # sockets'[q].fd
                      /\ sockets'[q].conn # 0 =>
                           /\ Open(sockets[q].conn)'
                           /\ conns'[sockets'[q].conn].peer = q
                           /\ conns'[sockets'[q].conn].fd = sockets'[q].fd
    BY DEF TableInv
  <2>1. sockets[q].fd \in Fds
    BY DEF TypeOK
  <2>2. /\ owner[sockets[q].fd] = q
        /\ \A d \in Ids : Dying(d) => conns[d].fd # sockets[q].fd
        /\ sockets[q].conn # 0 =>
             /\ conns[sockets[q].conn].phase = "open" /\ conns[sockets[q].conn].peer = q
             /\ conns[sockets[q].conn].fd = sockets[q].fd
    BY DEF Agree, TableInv, Open
  <2>3. owner'[sockets[q].fd] = q
    BY <1>0, <2>1, <2>2
  <2> QED
    BY <1>1, <2>2, <2>3 DEF Open
<1>6. TaskInv'
  <2>1. ASSUME NEW w \in Threads, NEW t \in TaskType, TaskOK(w, t), ~t.stale
        PROVE  TaskOK(w, t)'
    <3>1. t.fd \in Fds /\ t.data.from \in Peers /\ owner[t.fd] = t.data.from
      BY <2>1 DEF TaskOK, TaskType, Datagram
    <3>2. owner'[t.fd] = t.data.from
      BY <1>0, <3>1
    <3> QED
      BY <1>1, <1>2, <2>1, <3>2 DEF TaskOK
  <2>2. OldTasks
    BY DEF OldTasks
  <2> QED
    BY <2>1, <2>2, TasksKeep DEF Agree, TaskOK
<1> QED
  BY <1>4, <1>5, <1>6

\* A task that is scheduled waits on the thread of its descriptor.
LEMMA ScheduleKeeps ==
  ASSUME TypeOK, TypeOK', TaskInv, NEW t \in TaskType, Schedule(t), ~shareThread,
         \A w \in Threads, u \in TaskType : TaskOK(w, u) => TaskOK(w, u)',
         TaskOK(Home(t.fd), t)', UNCHANGED shareThread
  PROVE  TaskInv'
<1>. PICK v \in Threads : v = WorkerOfKey(KeyOf(t))
  BY HomeType, UdpAssumption DEF KeyOf, TaskType, Fds
<1>1. v = Home(t.fd)'
  BY DEF Home, KeyOf
<1>2. CASE tasks' = tasks
  BY <1>2, TasksKeep DEF OldTasks
<1>3. CASE tasks' = [tasks EXCEPT ![v] = Append(@, t)]
  <2> SUFFICES ASSUME NEW w \in Threads, NEW i \in DOMAIN tasks'[w]
               PROVE  TaskOK(w, tasks[w][i])'
    BY DEF TaskInv
  <2>1. PICK u \in TaskType : u = tasks'[w][i]
    BY DEF TypeOK
  <2>2. tasks[w] \in Seq(TaskType) /\ tasks'[w] = IF w = v THEN Append(tasks[w], t) ELSE tasks[w]
    BY <1>3 DEF TypeOK
  <2>3. (i \in DOMAIN tasks[w] /\ u = tasks[w][i]) \/ (w = v /\ u = t)
    BY <2>1, <2>2
  <2>4. TaskOK(w, u)'
    <3>1. CASE i \in DOMAIN tasks[w] /\ u = tasks[w][i]
      BY <3>1 DEF TaskInv
    <3>2. CASE w = v /\ u = t
      BY <1>1, <3>2 DEF TaskOK
    <3> QED
      BY <2>3, <3>1, <3>2
  <2> QED
    BY <2>1, <2>4 DEF TaskOK, Home
<1> QED
  BY <1>2, <1>3 DEF Schedule

\* Mishaps are not forgotten.
LEMMA CreateGrows ==
  ASSUME NEW w, NEW t, CreateUdpConnection(w, t) PROVE mishaps \subseteq mishaps'
BY DEF CreateUdpConnection, Deliver, BuildFails, Build

\* Handing a task to a worker adds at most its refusal.
LEMMA ScheduleGrows ==
  ASSUME NEW t, Schedule(t) PROVE mishaps \subseteq mishaps' /\ mishaps' \subseteq mishaps \cup {"refused"}
BY DEF Schedule

\* accept() for a peer the table has.
LEMMA AcceptKnownKeeps ==
  ASSUME Inv, AcceptKnown, TypeOK' PROVE Goal'
<1>. PICK d \in Datagram(Peers) : d = Head(inbox)
  BY ListenerTypes DEF AcceptKnown, Inv
<1>. PICK p \in Peers : p = d.from
  BY DEF Datagram
<1>1. /\ Idle(0) /\ sockets[p] # None /\ OnAcceptKnown(Task(sockets[p].fd, d))
      /\ UNCHANGED <<shareThread, sent, owner, queue, accepting>>
  BY DEF AcceptKnown, ListenerRuns, Entry, Key
<1>. PICK t \in TaskType : t = Task(sockets[p].fd, d)
  BY <1>1 DEF Inv, TypeOK, Task, TaskType
<1>2. t.fd = sockets[p].fd /\ t.data.from = p /\ ~t.stale /\ t.fd \in Fds
  BY <1>1 DEF Task, Inv, TypeOK
<1>3. Sound => Agree
  BY DEF Inv
<1>4. Sound => owner[t.fd] = p
  <2>1. Sound => TableInv
    BY <1>3 DEF Agree
  <2>2. sockets[p] # None /\ t.fd = sockets[p].fd
    BY <1>1, <1>2, Zenon
  <2>3. Sound => owner[sockets[p].fd] = p
    BY <2>1, <2>2, Zenon DEF TableInv
  <2> QED
    BY <2>2, <2>3, Zenon
<1>5. CASE shareThread
  <2>1. CreateUdpConnection(0, t) /\ tasks' = tasks
    BY <1>1, <1>5 DEF OnAcceptKnown
  <2>2. mishaps \subseteq mishaps' /\ 0 \in Threads
    BY <2>1, CreateGrows, UdpAssumption DEF Threads
  <2>3. ASSUME Sound' PROVE Sound /\ Agree' /\ (Own => Own')
    <3>1. Sound
      BY <2>2, <2>3 DEF Sound
    <3>2. TaskOK(0, t)
      BY <1>1, <1>2, <1>4, <1>5, <3>1 DEF TaskOK, Home
    <3>3. OldTasks
      BY <2>1 DEF OldTasks
    <3> QED
      BY <1>1, <1>3, <2>1, <2>2, <2>3, <3>1, <3>2, <3>3, CreateKeeps DEF Inv
  <2>4. Sound' /\ "stray" \notin mishaps' => QueueInv' /\ Own'
    BY <1>1, <2>2, <2>3 DEF Inv, QueueInv, Own
  <2> QED
    BY <2>3, <2>4 DEF Goal
<1>6. CASE ~shareThread
  <2>1. Schedule(t) /\ UNCHANGED <<conns, handled, sockets>>
    BY <1>1, <1>6 DEF OnAcceptKnown
  <2>2. mishaps \subseteq mishaps'
    BY <2>1, ScheduleGrows
  <2>3. ASSUME Sound' PROVE Sound /\ Agree'
    <3>1. Sound /\ Agree
      BY <1>3, <2>2, <2>3 DEF Sound
    <3>2. \A c \in Ids : Dying(c)' <=> Dying(c)
      BY <2>1 DEF Dying
    <3>3. ASSUME NEW w \in Threads, NEW u \in TaskType, TaskOK(w, u) PROVE TaskOK(w, u)'
      <4>1. Home(u.fd)' = Home(u.fd)
        BY <1>1 DEF Home
      <4> QED
        BY <1>1, <2>1, <3>2, <3>3, <4>1 DEF TaskOK
    <3>4. TaskOK(Home(t.fd), t)'
      BY <1>1, <1>2, <1>4, <2>1, <3>1 DEF TaskOK
    <3>5. TaskInv'
      BY <1>1, <1>6, <2>1, <3>1, <3>3, <3>4, ScheduleKeeps DEF Inv, Agree
    <3>6. ConnInv' /\ TableInv' /\ AcceptInv'
      <4>1. conns' = conns /\ owner' = owner /\ sockets' = sockets /\ accepting' = accepting
        BY <1>1, <2>1
      <4>2. /\ \A c : Open(c)' = Open(c) /\ Live(c)' = Live(c) /\ Dying(c)' = Dying(c)
            /\ \A f : Home(f)' = Home(f)
        BY <1>1, <4>1 DEF Open, Live, Dying, Home
      <4>3. ConnInv'
        BY <3>1, <4>1, <4>2 DEF Agree, ConnInv
      <4>4. TableInv'
        BY <3>1, <4>1, <4>2 DEF Agree, TableInv
      <4>5. AcceptInv'
        BY <3>1, <4>1, <4>2 DEF Agree, AcceptInv
      <4> QED
        BY <4>3, <4>4, <4>5
    <3> QED
      BY <3>1, <3>5, <3>6 DEF Agree
  <2>4. Sound' /\ "stray" \notin mishaps' => QueueInv' /\ Own'
    BY <1>1, <2>1, <2>2, <2>3 DEF Inv, QueueInv, Own
  <2> QED
    BY <2>3, <2>4 DEF Goal
<1> QED
  BY <1>5, <1>6

\* accept() of a new peer opens a socket, on the listener's thread, which is in
\* no other accept.
LEMMA AcceptBindKeeps ==
  ASSUME Inv, AcceptBind, TypeOK' PROVE Goal'
<1>. PICK f \in Fds : f = Min(FreeFds) /\ owner[f] = "closed"
  BY FreeFd DEF AcceptBind
<1>. PICK d \in Datagram(Peers) : d = Head(inbox)
  BY ListenerTypes DEF AcceptBind, Inv
<1>1. /\ sockets[d.from] = None /\ owner' = [owner EXCEPT ![f] = "bound"]
      /\ accepting' = [fd |-> f, data |-> d]
      /\ UNCHANGED <<shareThread, sent, queue, sockets, tasks, conns, handled, mishaps>>
  BY DEF AcceptBind, Entry, Key
<1>2. \A g \in Fds : owner'[g] = IF g = f THEN "bound" ELSE owner[g]
  BY <1>1 DEF Inv, TypeOK
<1>3. ASSUME Sound' PROVE Agree'
  <2>1. Agree
    BY <1>1, <1>3 DEF Sound, Inv
  <2>2. ConnInv' /\ TableInv' /\ TaskInv'
    BY <1>1, <1>2, <2>1, SpareKeeps DEF Inv
  <2>3. AcceptInv'
    BY <1>1, <1>2 DEF AcceptInv
  <2> QED
    BY <2>2, <2>3 DEF Agree
<1>4. ASSUME Sound', "stray" \notin mishaps' PROVE QueueInv' /\ Own'
  <2>1. QueueInv /\ Own
    BY <1>1, <1>4 DEF Sound, Inv, Own
  <2>2. queue[f] = <<>>
    BY <2>1 DEF QueueInv
  <2>3. QueueInv'
    BY <1>1, <1>2, <2>1, <2>2 DEF QueueInv
  <2> QED
    BY <1>1, <2>1, <2>3 DEF Own
<1> QED
  BY <1>3, <1>4 DEF Goal

\* accept() connects the socket and files it: the peer had no entry, so it has
\* no connection either.
LEMMA AcceptConnectKeeps ==
  ASSUME Inv, AcceptConnect, TypeOK' PROVE Goal'
<1>. PICK f \in Fds, p \in Peers : f = accepting.fd /\ p = accepting.data.from
  BY DEF AcceptConnect, Inv, TypeOK, Datagram
<1>. PICK t \in TaskType : t = Task(f, accepting.data)
  BY DEF AcceptConnect, Inv, TypeOK, Task, TaskType
<1>. PICK table \in TableType : table = [sockets EXCEPT ![p] = [fd |-> f, conn |-> 0]]
  <2>1. [fd |-> f, conn |-> 0] \in [fd : Fds, conn : 0..MaxConn] /\ sockets \in TableType
    BY UdpAssumption DEF Inv, TypeOK, TableType
  <2>2. [sockets EXCEPT ![p] = [fd |-> f, conn |-> 0]] \in TableType
    BY <2>1 DEF TableType
  <2> QED
    BY <2>2
<1>0. /\ t.fd = f /\ t.data.from = p /\ ~t.stale /\ Peers \subseteq Addresses
      /\ "closed" \notin Addresses /\ "bound" \notin Addresses
      /\ [fd |-> f, conn |-> 0] # None
  BY UdpAssumption DEF Task, Addresses, Fds
<1>1. /\ accepting # None /\ accepting' = None /\ owner' = [owner EXCEPT ![f] = p]
      /\ OnAcceptNew(t, table) /\ UNCHANGED <<shareThread, sent, inbox, queue>>
  BY DEF AcceptConnect, Key
<1>2. \A g \in Fds : owner'[g] = IF g = f THEN p ELSE owner[g]
  BY <1>1 DEF Inv, TypeOK
<1>3. \A q \in Peers : table[q] = IF q = p THEN [fd |-> f, conn |-> 0] ELSE sockets[q]
  BY DEF Inv, TypeOK
<1>4. Sound => Agree /\ owner[f] = "bound" /\ sockets[p] = None
  BY <1>1 DEF Inv, Agree, AcceptInv
<1>5. ASSUME Sound, NEW c \in Ids
      PROVE  Live(c) => conns[c].fd # f /\ (Open(c) => conns[c].peer # p)
  <2>1. Live(c) => owner[conns[c].fd] = conns[c].peer /\ conns[c].peer \in Addresses
    BY <1>4, <1>5 DEF Agree, ConnInv, Live, Open, Dying, Inv, TypeOK
  <2>2. Open(c) /\ conns[c].peer = p => sockets[p] = [fd |-> conns[c].fd, conn |-> c]
    BY <1>4, <1>5 DEF Agree, ConnInv
  <2>3. Open(c) => conns[c].fd \in Fds
    BY DEF Inv, TypeOK, Open
  <2>4. Open(c) => [fd |-> conns[c].fd, conn |-> c] # None
    BY <2>3, UdpAssumption DEF Fds, Ids
  <2> QED
    BY <1>0, <1>4, <1>5, <2>1, <2>2, <2>4
<1>6. CASE shareThread
  <2>1. (\E how \in Leaves : Build(0, t, table, how)) /\ tasks' = tasks
    BY <1>1, <1>6 DEF OnAcceptNew
  <2>2. PICK how \in Leaves : Build(0, t, table, how)
    BY <2>1
  <2>3. /\ mishaps \cup Kept(how) \subseteq mishaps'
        /\ handled' = handled \/ handled' = handled \cup {<<p, t.data>>}
    BY <1>0, <2>2, BuildHistory
  <2>4. ASSUME Sound' PROVE Sound /\ Agree'
    <3>1. how \in {"open", "dying"} /\ Sound
      BY <2>3, <2>4, SoundLeaves
    <3>2. OldTasks
      BY <2>1 DEF OldTasks
    <3>3. Home(f) = 0 /\ 0 \in Threads
      BY <1>6, UdpAssumption DEF Home, Threads
    <3>4. Buildable(0, t, table)
      BY <1>0, <1>1, <1>2, <1>3, <1>4, <1>5, <3>1, <3>3 DEF Buildable
    <3> QED
      BY <1>1, <1>4, <2>2, <3>1, <3>2, <3>3, <3>4, BuildKeeps DEF Inv
  <2>5. ASSUME Sound', "stray" \notin mishaps' PROVE QueueInv' /\ Own'
    <3>1. QueueInv /\ Own /\ queue[f] = <<>>
      BY <1>4, <2>3, <2>4, <2>5 DEF Inv, Own, QueueInv
    <3>2. QueueInv'
      BY <1>0, <1>1, <1>2, <3>1 DEF QueueInv
    <3> QED
      BY <1>0, <2>3, <3>1, <3>2 DEF Own
  <2> QED
    BY <2>4, <2>5 DEF Goal
<1>7. CASE ~shareThread
  <2>1. Schedule(t) /\ sockets' = table /\ UNCHANGED <<conns, handled>>
    BY <1>1, <1>7 DEF OnAcceptNew
  <2>2. mishaps \subseteq mishaps'
    BY <2>1, ScheduleGrows
  <2>3. Sound' => Sound
    BY <2>2 DEF Sound
  <2>4. ASSUME Sound' PROVE Agree'
    <3>0. Sound /\ Agree /\ owner[f] = "bound" /\ sockets[p] = None
      BY <1>4, <2>3, <2>4
    <3>1. \A c \in Ids : /\ Open(c)' <=> Open(c)
                         /\ Dying(c)' <=> Dying(c)
                         /\ Live(c)' <=> Live(c)
      BY <2>1 DEF Open, Dying, Live
    <3>2. ConnInv'
      <4>1. ASSUME NEW c \in Ids
            PROVE  /\ conns'[c].phase # "closed"
                   /\ Live(c)' => owner'[conns'[c].fd] = conns'[c].peer
                   /\ Live(c)' /\ conns'[c].peer \in Peers =>
                        conns'[c].worker = Home(conns[c].fd)'
                   /\ Open(c)' /\ conns'[c].peer \in Peers =>
                        sockets'[conns'[c].peer] = [fd |-> conns'[c].fd, conn |-> c]
        <5>1. Home(conns[c].fd)' = Home(conns[c].fd)
          BY <1>1, <2>1 DEF Home
        <5>2. /\ conns[c].phase # "closed"
              /\ Live(c) => owner[conns[c].fd] = conns[c].peer
              /\ Live(c) /\ conns[c].peer \in Peers => conns[c].worker = Home(conns[c].fd)
              /\ Open(c) /\ conns[c].peer \in Peers =>
                    sockets[conns[c].peer] = [fd |-> conns[c].fd, conn |-> c]
          BY <3>0 DEF Agree, ConnInv
        <5>3. Live(c) => conns[c].fd \in Fds /\ conns[c].fd # f
          BY <1>5, <3>0 DEF Inv, TypeOK, Live, Open, Dying
        <5>4. Open(c) => Live(c) /\ conns[c].peer # p
          BY <1>5, <3>0 DEF Live
        <5> QED
          BY <1>2, <1>3, <2>1, <3>1, <5>1, <5>2, <5>3, <5>4
      <4>2. \A c, e \in Ids : Live(c)' /\ Live(e)' /\ c # e => conns'[c].fd # conns'[e].fd
        BY <2>1, <3>0, <3>1 DEF Agree, ConnInv
      <4> QED
        BY <4>1, <4>2 DEF ConnInv
    <3>3. TableInv'
      <4> SUFFICES ASSUME NEW q \in Peers, sockets'[q] # None
                   PROVE  /\ owner'[sockets'[q].fd] = q
                          /\ \A c \in Ids : Dying(c)' => conns'[c].fd # sockets'[q].fd
                          /\ sockets'[q].conn # 0 =>
                               /\ Open(sockets[q].conn)'
                               /\ conns'[sockets'[q].conn].peer = q
                               /\ conns'[sockets'[q].conn].fd = sockets'[q].fd
        BY DEF TableInv
      <4>1. CASE q = p
        <5>1. sockets'[q] = [fd |-> f, conn |-> 0]
          BY <1>3, <2>1, <4>1
        <5>2. \A c \in Ids : Dying(c)' => conns'[c].fd # f
          BY <1>5, <2>1, <3>0, <3>1 DEF Live
        <5> QED
          BY <1>2, <4>1, <5>1, <5>2
      <4>2. CASE q # p
        <5>1. sockets'[q] = sockets[q] /\ sockets[q].fd \in Fds
          BY <1>3, <2>1, <4>2 DEF Inv, TypeOK
        <5>2. /\ owner[sockets[q].fd] = q
              /\ \A c \in Ids : Dying(c) => conns[c].fd # sockets[q].fd
              /\ sockets[q].conn # 0 =>
                   /\ conns[sockets[q].conn].phase = "open"
                   /\ conns[sockets[q].conn].peer = q
                   /\ conns[sockets[q].conn].fd = sockets[q].fd
          BY <3>0, <5>1 DEF Agree, TableInv, Open
        <5>3. owner'[sockets[q].fd] = q
          BY <1>0, <1>2, <3>0, <5>1, <5>2
        <5> QED
          BY <2>1, <3>1, <5>1, <5>2, <5>3 DEF Open
      <4> QED
        BY <4>1, <4>2
    <3>4. ASSUME NEW w \in Threads, NEW u \in TaskType, TaskOK(w, u) PROVE TaskOK(w, u)'
      <4>1. Home(u.fd)' = Home(u.fd) /\ u.data.from \in Peers /\ u.fd \in Fds
        BY <1>1 DEF Home, TaskType, Datagram
      <4>2. ~u.stale => owner'[u.fd] = u.data.from
        BY <1>0, <1>2, <3>0, <3>4, <4>1 DEF TaskOK
      <4>3. sockets[u.data.from] # None => sockets'[u.data.from] = sockets[u.data.from]
        BY <1>3, <2>1, <3>0, <4>1
      <4> QED
        BY <2>1, <3>1, <3>4, <4>1, <4>2, <4>3 DEF TaskOK
    <3>5. TaskOK(Home(t.fd), t)'
      <4>1. owner'[f] = p /\ sockets'[p] # None /\ sockets'[p].fd = f
        BY <1>0, <1>2, <1>3, <2>1
      <4> QED
        BY <1>0, <4>1 DEF TaskOK
    <3>6. TaskInv'
      BY <1>1, <1>7, <2>1, <3>0, <3>4, <3>5, ScheduleKeeps DEF Inv, Agree
    <3>7. AcceptInv'
      BY <1>1 DEF AcceptInv
    <3> QED
      BY <3>2, <3>3, <3>6, <3>7 DEF Agree
  <2>5. ASSUME Sound', "stray" \notin mishaps' PROVE QueueInv' /\ Own'
    <3>1. QueueInv /\ Own /\ queue[f] = <<>>
      BY <1>4, <2>2, <2>3, <2>5 DEF Inv, Own, QueueInv
    <3>2. QueueInv'
      BY <1>0, <1>1, <1>2, <3>1 DEF QueueInv
    <3> QED
      BY <2>1, <3>1, <3>2 DEF Own
  <2> QED
    BY <2>4, <2>5 DEF Goal
<1> QED
  BY <1>6, <1>7

\* accept() fails: what it opened is closed again.
LEMMA AcceptFailsKeeps ==
  ASSUME Inv, AcceptFails, TypeOK' PROVE Goal'
<1>1. /\ mishaps' = mishaps \cup {"failed"}
      /\ UNCHANGED <<shareThread, sent, sockets, tasks, conns, handled>>
  BY DEF AcceptFails
<1>2. Sound' => Sound /\ Agree
  BY <1>1 DEF Sound, Inv
<1>3. Sound' /\ "stray" \notin mishaps' => QueueInv /\ Own
  BY <1>1, <1>2 DEF Inv, Own
<1>4. CASE accepting # None /\ accepting' = None
           /\ owner' = [owner EXCEPT ![accepting.fd] = "closed"]
           /\ queue' = [queue EXCEPT ![accepting.fd] = <<>>]
  <2>. PICK f \in Fds : f = accepting.fd
    BY <1>4 DEF Inv, TypeOK
  <2>1. \A g \in Fds : /\ owner'[g] = IF g = f THEN "closed" ELSE owner[g]
                       /\ queue'[g] = IF g = f THEN <<>> ELSE queue[g]
    BY <1>4 DEF Inv, TypeOK
  <2>2. ASSUME Sound' PROVE Agree'
    <3>1. owner[f] = "bound"
      BY <1>2, <1>4, <2>2 DEF Agree, AcceptInv
    <3>2. ConnInv' /\ TableInv' /\ TaskInv'
      BY <1>1, <1>2, <2>1, <2>2, <3>1, SpareKeeps DEF Inv
    <3> QED
      BY <1>4, <3>2 DEF Agree, AcceptInv
  <2>3. Sound' /\ "stray" \notin mishaps' => QueueInv' /\ Own'
    BY <1>1, <1>3, <2>1 DEF QueueInv, Own
  <2> QED
    BY <2>2, <2>3 DEF Goal
<1>5. CASE UNCHANGED <<accepting, owner, queue>>
  <2>1. Sound' => Agree'
    BY <1>1, <1>2, <1>5, FrameKeeps DEF Inv, SameConns
  <2>2. Sound' /\ "stray" \notin mishaps' => QueueInv' /\ Own'
    BY <1>1, <1>3, <1>5 DEF QueueInv, Own
  <2> QED
    BY <2>1, <2>2 DEF Goal
<1> QED
  BY <1>4, <1>5 DEF AcceptFails

\* A worker runs the oldest task.
LEMMA DoAcceptKeeps ==
  ASSUME Inv, NEW w \in Threads, DoAccept(w), TypeOK' PROVE Goal'
<1>1. /\ tasks[w] # <<>> /\ tasks[w] \in Seq(TaskType) /\ Idle(w)
      /\ tasks' = [tasks EXCEPT ![w] = Tail(@)]
      /\ UNCHANGED <<shareThread, owner, queue, accepting>>
  BY DEF DoAccept, Inv, TypeOK
<1>. PICK t \in TaskType : t = Head(tasks[w])
  BY <1>1
<1>2. CreateUdpConnection(w, t) /\ mishaps \subseteq mishaps'
  BY CreateGrows DEF DoAccept
<1>3. OldTasks
  <2> SUFFICES ASSUME NEW v \in Threads, NEW i \in DOMAIN tasks'[v]
               PROVE  \E j \in DOMAIN tasks[v] : tasks'[v][i] = tasks[v][j]
    BY DEF OldTasks
  <2>1. CASE v = w
    <3>1. tasks'[v] = Tail(tasks[w])
      BY <1>1, <2>1 DEF Inv, TypeOK
    <3>2. \A k \in DOMAIN Tail(tasks[w]) :
             k + 1 \in DOMAIN tasks[w] /\ Tail(tasks[w])[k] = tasks[w][k + 1]
      BY <1>1
    <3> QED
      BY <2>1, <3>1, <3>2
  <2>2. CASE v # w
    <3>1. tasks'[v] = tasks[v]
      BY <1>1, <2>2 DEF Inv, TypeOK
    <3> QED
      BY <3>1
  <2> QED
    BY <2>1, <2>2
<1>4. ASSUME Sound' PROVE Sound /\ Agree' /\ (Own => Own')
  <2>1. Sound /\ Agree
    BY <1>2, <1>4 DEF Sound, Inv
  <2>2. TaskOK(w, t)
    <3>1. 1 \in DOMAIN tasks[w] /\ t = tasks[w][1]
      BY <1>1
    <3> QED
      BY <2>1, <3>1 DEF Agree, TaskInv
  <2> QED
    BY <1>1, <1>2, <1>3, <1>4, <2>1, <2>2, CreateKeeps DEF Inv
<1>5. Sound' /\ "stray" \notin mishaps' => QueueInv' /\ Own'
  BY <1>1, <1>2, <1>4 DEF Inv, QueueInv, Own
<1> QED
  BY <1>4, <1>5 DEF Goal

\* A client takes a free descriptor and has no entry in the table.
LEMMA ClientKeeps ==
  ASSUME Inv, NEW w \in Threads, NEW how \in Leaves, CreateUdpClient(w, how), TypeOK'
  PROVE  Goal'
<1>. PICK c \in Ids : c = Min(FreeIds) /\ conns[c].phase = "none"
  BY FreeId DEF CreateUdpClient
<1>. PICK f \in Fds : f = Min(FreeFds) /\ owner[f] = "closed"
  BY FreeFd DEF CreateUdpClient
<1> DEFINE n == NewConnection(f, Server, w)
<1>0. /\ "closed" \notin Addresses /\ "bound" \notin Addresses /\ Peers \subseteq Addresses
      /\ Server \in Addresses /\ Server \notin Peers /\ ~Live(c)
  BY UdpAssumption DEF Addresses, Live, Open, Dying
<1>1. /\ Leave(n, how).fd = f /\ Leave(n, how).peer = Server
      /\ Leave(n, how).worker = w /\ Leave(n, how).phase = how
  <2>1. n \in ConnType /\ n.fd = f /\ n.peer = Server /\ n.worker = w
    BY <1>0, ConnTypes DEF NewConnection
  <2> QED
    BY <2>1, ConnTypes DEF Leaves
<1>2. /\ owner' = [owner EXCEPT ![f] = Server]
      /\ conns' = [conns EXCEPT ![c] = Leave(n, how)]
      /\ mishaps' = mishaps \cup Kept(how)
      /\ UNCHANGED <<shareThread, sent, inbox, queue, sockets, accepting, tasks, handled>>
  BY DEF CreateUdpClient, NewClient
<1>3. \A d \in Ids : conns'[d] = IF d = c THEN Leave(n, how) ELSE conns[d]
  BY <1>2 DEF Inv, TypeOK
<1>4. \A g \in Fds : owner'[g] = IF g = f THEN Server ELSE owner[g]
  BY <1>2 DEF Inv, TypeOK
<1> HIDE DEF n
<1>5. ASSUME Sound' PROVE Sound /\ Agree'
  <2>0. how \in {"open", "dying"} /\ Sound /\ Agree
    BY <1>2, <1>5, SoundLeaves DEF Inv
  <2>1. \A d \in Ids : /\ Open(d) => Open(d)' /\ d # c
                       /\ Dying(d) => Dying(d)' /\ d # c
                       /\ Dying(d)' => Dying(d) \/ d = c
                       /\ Open(d)' => Open(d) \/ d = c
                       /\ Live(d)' => Live(d) \/ d = c
    BY <1>3 DEF Open, Dying, Live
  <2>2. ASSUME NEW d \in Ids, Live(d)
        PROVE  conns[d].fd \in Fds /\ conns[d].fd # f /\ owner[conns[d].fd] = conns[d].peer
    <3>1. conns[d].fd \in Fds /\ conns[d].peer \in Addresses
      BY <2>2 DEF Inv, TypeOK, Live, Open, Dying
    <3>2. owner[conns[d].fd] = conns[d].peer
      BY <2>0, <2>2 DEF Agree, ConnInv
    <3> QED
      BY <1>0, <3>1, <3>2
  <2>3. ConnInv'
    <3>1. ASSUME NEW d \in Ids
          PROVE  /\ conns'[d].phase # "closed"
                 /\ Live(d)' => owner'[conns'[d].fd] = conns'[d].peer
                 /\ Live(d)' /\ conns'[d].peer \in Peers =>
                      conns'[d].worker = Home(conns[d].fd)'
                 /\ Open(d)' /\ conns'[d].peer \in Peers =>
                      sockets'[conns'[d].peer] = [fd |-> conns'[d].fd, conn |-> d]
      <4>1. CASE d = c
        <5>1. /\ conns'[d].phase = how /\ conns'[d].peer = Server /\ conns'[d].fd = f
              /\ owner'[f] = Server /\ how # "closed"
          BY <1>1, <1>3, <1>4, <2>0, <4>1
        <5> QED
          BY <1>0, <5>1
      <4>2. CASE d # c
        <5>1. conns'[d] = conns[d] /\ (Live(d)' => Live(d)) /\ (Open(d)' => Open(d))
          BY <1>3, <2>1, <4>2
        <5>2. Home(conns[d].fd)' = Home(conns[d].fd)
          BY <1>2, <5>1 DEF Home
        <5>3. /\ conns[d].phase # "closed"
              /\ Live(d) /\ conns[d].peer \in Peers => conns[d].worker = Home(conns[d].fd)
              /\ Open(d) /\ conns[d].peer \in Peers =>
                    sockets[conns[d].peer] = [fd |-> conns[d].fd, conn |-> d]
          BY <2>0 DEF Agree, ConnInv
        <5>4. Live(d)' => owner'[conns'[d].fd] = conns'[d].peer
          BY <1>4, <2>2, <5>1
        <5> QED
          BY <1>2, <5>1, <5>2, <5>3, <5>4
      <4> QED
        BY <4>1, <4>2
    <3>2. ASSUME NEW d \in Ids, NEW e \in Ids, Live(d)', Live(e)', d # e
          PROVE  conns'[d].fd # conns'[e].fd
      <4>0. (d = c \/ Live(d)) /\ (e = c \/ Live(e))
        BY <2>1, <3>2
      <4>1. CASE d # c /\ e # c
        <5>1. conns[d].fd # conns[e].fd
          BY <2>0, <3>2, <4>0, <4>1 DEF Agree, ConnInv
        <5> QED
          BY <1>3, <4>1, <5>1
      <4>2. CASE d = c \/ e = c
        BY <1>1, <1>3, <2>2, <3>2, <4>0, <4>2
      <4> QED
        BY <4>1, <4>2
    <3> QED
      BY <3>1, <3>2 DEF ConnInv
  <2>4. TableInv'
    <3> SUFFICES ASSUME NEW q \in Peers, sockets[q] # None
                 PROVE  /\ owner'[sockets'[q].fd] = q
                        /\ \A d \in Ids : Dying(d)' => conns'[d].fd # sockets'[q].fd
                        /\ sockets'[q].conn # 0 =>
                             /\ Open(sockets[q].conn)'
                             /\ conns'[sockets'[q].conn].peer = q
                             /\ conns'[sockets'[q].conn].fd = sockets'[q].fd
      BY <1>2 DEF TableInv
    <3>1. /\ sockets[q].conn # 0 => sockets[q].conn \in Ids
          /\ sockets[q].fd \in Fds
      BY UdpAssumption DEF Inv, TypeOK, Ids
    <3>2. /\ owner[sockets[q].fd] = q
          /\ \A d \in Ids : Dying(d) => conns[d].fd # sockets[q].fd
          /\ sockets[q].conn # 0 =>
               /\ conns[sockets[q].conn].phase = "open" /\ conns[sockets[q].conn].peer = q
               /\ conns[sockets[q].conn].fd = sockets[q].fd
      BY <2>0 DEF Agree, TableInv, Open
    <3>3. sockets[q].fd # f
      BY <1>0, <3>2
    <3>4. owner'[sockets'[q].fd] = q
      BY <1>2, <1>4, <3>1, <3>2, <3>3
    <3>5. \A d \in Ids : Dying(d)' => conns'[d].fd # sockets'[q].fd
      BY <1>1, <1>2, <1>3, <2>1, <3>2, <3>3
    <3> QED
      BY <1>2, <1>3, <3>1, <3>2, <3>4, <3>5 DEF Open
  <2>5. TaskInv'
    <3>1. ASSUME NEW v \in Threads, NEW t \in TaskType, TaskOK(v, t), ~t.stale
          PROVE  TaskOK(v, t)'
      <4>1. t.fd \in Fds /\ t.data.from \in Peers /\ owner[t.fd] = t.data.from
        BY <3>1 DEF TaskOK, TaskType, Datagram
      <4>2. owner'[t.fd] = t.data.from
        BY <1>0, <1>4, <4>1
      <4>3. Home(t.fd)' = Home(t.fd)
        BY <1>2 DEF Home
      <4>4. ASSUME NEW d \in Ids, Dying(d), conns[d].fd = t.fd
            PROVE  \E e \in Ids : Dying(e)' /\ conns'[e].fd = t.fd
        BY <1>3, <2>1, <4>4
      <4> QED
        BY <1>2, <3>1, <4>2, <4>3, <4>4 DEF TaskOK
    <3>2. OldTasks
      BY <1>2 DEF OldTasks
    <3> QED
      BY <2>0, <3>1, <3>2, TasksKeep DEF Inv, Agree, TaskOK
  <2>6. AcceptInv'
    BY <1>2, <1>4, <2>0 DEF Agree, AcceptInv, Inv, TypeOK
  <2> QED
    BY <2>0, <2>3, <2>4, <2>5, <2>6 DEF Agree
<1>6. ASSUME Sound', "stray" \notin mishaps' PROVE QueueInv' /\ Own'
  <2>1. QueueInv /\ Own /\ queue[f] = <<>>
    BY <1>2, <1>5, <1>6 DEF Inv, QueueInv, Own
  <2> QED
    BY <1>0, <1>2, <1>4, <2>1 DEF QueueInv, Own
<1> QED
  BY <1>5, <1>6 DEF Goal

-----------------------------------------------------------------------------
(* The theorems.                                                           *)

\* At the start there is no socket but the listener's, no entry and no
\* connection.
LEMMA InitInv == Init => Inv
<1> SUFFICES ASSUME Init PROVE Inv
  OBVIOUS
<1>1. NoConn \in ConnType
  BY UdpAssumption DEF NoConn, ConnType, Phases, Threads
<1>2. TypeOK
  <2>1. /\ inbox \in Seq(Datagram(Peers)) /\ queue \in [Fds -> Seq(Datagram(Addresses))]
        /\ tasks \in [Threads -> Seq(TaskType)]
    BY DEF Init
  <2>2. conns \in [Ids -> ConnType] /\ \A c \in Ids : conns[c].phase = "none"
    BY <1>1 DEF Init, NoConn
  <2>3. sockets \in [Peers -> [fd : Fds, conn : 0..MaxConn] \cup {None}] /\ accepting = None
    BY DEF Init
  <2>4. /\ shareThread \in BOOLEAN /\ sent \in [Addresses -> Nat]
        /\ owner \in [Fds -> Addresses \cup {"closed", "bound"}]
    BY DEF Init
  <2> QED
    BY <2>1, <2>2, <2>3, <2>4 DEF TypeOK
<1>3. \A c \in Ids : conns[c].phase = "none"
  BY DEF Init, NoConn
<1>4. ConnInv
  BY <1>3 DEF ConnInv, Live, Open, Dying
<1>5. TableInv /\ TaskInv /\ AcceptInv
  BY DEF Init, TableInv, TaskInv, AcceptInv
<1>6. QueueInv /\ \A h \in handled : h[1] = h[2].from
  BY DEF Init, QueueInv
<1> QED
  BY <1>2, <1>4, <1>5, <1>6 DEF Inv, Agree

\* Every step keeps the invariant.
LEMMA NextInv == Inv /\ [Next]_vars => Inv'
<1> SUFFICES ASSUME Inv, [Next]_vars PROVE Inv'
  OBVIOUS
<1>1. TypeOK'
  BY TypeStep DEF Inv
<1>2. ASSUME NEW a \in Addresses, Arrive(a) PROVE Goal'
  BY <1>1, <1>2, ArriveKeeps
<1>3. ASSUME Listener PROVE Goal'
  BY <1>1, <1>3, AcceptKnownKeeps, AcceptBindKeeps, AcceptConnectKeeps,
     AcceptFailsKeeps DEF Listener
<1>4. ASSUME NEW w \in Threads, DoAccept(w) \/ \E how \in Leaves : CreateUdpClient(w, how)
      PROVE  Goal'
  BY <1>1, <1>4, DoAcceptKeeps, ClientKeeps
<1>5. ASSUME NEW c \in Ids, Connection(c) PROVE Goal'
  BY <1>1, <1>5, ConnectionKeeps
<1>6. ASSUME UNCHANGED vars PROVE Goal'
  <2>1. Sound' => Agree'
    BY <1>6, FrameKeeps DEF vars, SameConns, Inv, Sound
  <2>2. Sound' /\ "stray" \notin mishaps' => QueueInv' /\ Own'
    BY <1>6 DEF vars, Inv, Sound, QueueInv, Own
  <2> QED
    BY <2>1, <2>2 DEF Goal
<1>7. Goal'
  BY <1>2, <1>3, <1>4, <1>5, <1>6 DEF Next
<1> QED
  BY <1>1, <1>7 DEF Inv, Goal, Own

\* In every reachable state the types are right, and unless a task outlived its
\* socket or a connection was kept after its close, table, sockets, tasks and
\* connections agree.
THEOREM Invariant == Spec => []Inv
BY InitInv, NextInv, PTL DEF Spec

\* The listener's table and the connections agree: an entry's socket is
\* connected to its peer, and an open connection is the one its peer's entry
\* names.
THEOREM TableAgrees == Spec => []TableMatchesConnections
<1>1. Inv => TableMatchesConnections
  BY DEF Inv, Sound, Agree, ConnInv, TableInv, TableMatchesConnections
<1> QED
  BY <1>1, Invariant, PTL

\* A connection is given datagrams of its own peer only, across reuse of
\* descriptors, tasks that wait and sockets that close.
THEOREM DatagramsReachTheirOwner == Spec => []OwnDatagrams
<1>1. Inv => OwnDatagrams
  <2>1. mishaps \cap {"stale", "kept", "stray"} = {} => Sound /\ "stray" \notin mishaps
    BY DEF Sound
  <2> QED
    BY <2>1 DEF Inv, OwnDatagrams
<1> QED
  BY <1>1, Invariant, PTL

-----------------------------------------------------------------------------
(* Datagrams are conserved.                                                *)

(* What loses a datagram.                                                  *)
Losses == {"refused", "stale", "failed", "unread", "thrown", "empty"}

(* Only datagrams that were sent are anywhere, each in one place, and all  *)
(* of them are somewhere unless something lost one.                        *)
Within ==
    \A x \in Places : \A d \in Holds(x) : d \in Datagram(Addresses) /\ d.n <= sent[d.from]

Apart == \A x \in Places : \A d \in Holds(x) : \A y \in Places : d \in Holds(y) => x = y

Lossless ==
    mishaps \cap Losses = {} =>
        \A a \in Addresses : \A n \in 1..sent[a] :
           \E x \in Places : [from |-> a, n |-> n] \in Holds(x)

PlacesInv == Within /\ Apart /\ Lossless

Inbox     == <<"inbox", 0>>
Accepting == <<"accepting", 0>>
Handled   == <<"handled", 0>>
QueueOf(f) == <<"queue", f>>
TasksOf(w) == <<"tasks", w>>

\* The places, one by one.
LEMMA PlacesAre ==
  /\ Inbox \in Places /\ Accepting \in Places /\ Handled \in Places
  /\ \A f \in Fds : QueueOf(f) \in Places
  /\ \A w \in Threads : TasksOf(w) \in Places
  /\ Inbox # Accepting /\ Inbox # Handled /\ Accepting # Handled
  /\ \A f \in Fds : QueueOf(f) \notin {Inbox, Accepting, Handled}
  /\ \A w \in Threads : TasksOf(w) \notin {Inbox, Accepting, Handled}
  /\ \A f \in Fds, w \in Threads : QueueOf(f) # TasksOf(w)
  /\ \A f, g \in Fds : QueueOf(f) = QueueOf(g) => f = g
  /\ \A w, v \in Threads : TasksOf(w) = TasksOf(v) => w = v
  /\ \A x \in Places : \/ x \in {Inbox, Accepting, Handled}
                       \/ \E f \in Fds : x = QueueOf(f)
                       \/ \E w \in Threads : x = TasksOf(w)
BY DEF Places, Inbox, Accepting, Handled, QueueOf, TasksOf

\* What each of them holds.
LEMMA HoldsAre ==
  /\ Holds(Inbox) = Range(inbox)
  /\ Holds(Accepting) = IF accepting = None THEN {} ELSE {accepting.data}
  /\ Holds(Handled) = {h[2] : h \in handled}
  /\ \A f \in Fds : Holds(QueueOf(f)) = Range(queue[f])
  /\ \A w \in Threads : Holds(TasksOf(w)) = Range(Data(w))
BY DEF Holds, Inbox, Accepting, Handled, QueueOf, TasksOf

\* The same after a step.
LEMMA HoldsNext ==
  /\ Holds(Inbox)' = Range(inbox')
  /\ Holds(Accepting)' = IF accepting' = None THEN {} ELSE {accepting'.data}
  /\ Holds(Handled)' = {h[2] : h \in handled'}
  /\ \A f \in Fds : Holds(QueueOf(f))' = Range(queue'[f])
  /\ \A w \in Threads : Holds(TasksOf(w))' = Range(Data(w)')
BY DEF Holds, Inbox, Accepting, Handled, QueueOf, TasksOf

\* A step that leaves every place as it is.
LEMMA NothingMoves ==
  ASSUME PlacesInv, sent' = sent, mishaps \subseteq mishaps',
         \A x \in Places : Holds(x)' = Holds(x)
  PROVE  PlacesInv'
BY DEF PlacesInv, Within, Apart, Lossless

\* A step after which datagrams are missing, and that says so.
LEMMA SomeAreLost ==
  ASSUME PlacesInv, sent' = sent, mishaps' \cap Losses # {},
         \A x \in Places : Holds(x)' \subseteq Holds(x)
  PROVE  PlacesInv'
BY DEF PlacesInv, Within, Apart, Lossless

\* A datagram goes from one place to another.
LEMMA OneMoves ==
  ASSUME PlacesInv, sent' = sent, mishaps \subseteq mishaps',
         NEW from \in Places, NEW to \in Places, from # to, NEW d \in Holds(from),
         Holds(from)' = Holds(from) \ {d}, Holds(to)' = Holds(to) \cup {d},
         \A x \in Places \ {from, to} : Holds(x)' = Holds(x)
  PROVE  PlacesInv'
<1>1. \A x \in Places : \A e \in Holds(x)' : e # d => e \in Holds(x)
  OBVIOUS
<1>2. \A x \in Places : d \in Holds(x)' <=> x = to
  BY DEF PlacesInv, Apart
<1>3. \A x \in Places : \A e \in Holds(x) : e # d => e \in Holds(x)'
  OBVIOUS
<1>4. Within'
  BY <1>1, <1>2 DEF PlacesInv, Within
<1>5. Apart'
  BY <1>1, <1>2 DEF PlacesInv, Apart
<1>6. Lossless'
  BY <1>2, <1>3 DEF PlacesInv, Lossless
<1> QED
  BY <1>4, <1>5, <1>6 DEF PlacesInv

\* A new datagram arrives.
LEMMA OneArrives ==
  ASSUME PlacesInv, sent \in [Addresses -> Nat], mishaps \subseteq mishaps',
         NEW a \in Addresses, sent' = [sent EXCEPT ![a] = @ + 1],
         NEW to \in Places, NEW d, d = [from |-> a, n |-> sent[a] + 1],
         Holds(to)' = Holds(to) \cup {d},
         \A x \in Places \ {to} : Holds(x)' = Holds(x)
  PROVE  PlacesInv' /\ \A x \in Places : d \notin Holds(x)
<1>0. /\ sent[a] \in Nat /\ sent'[a] = sent[a] + 1
      /\ \A b \in Addresses : b # a => sent'[b] = sent[b]
  OBVIOUS
<1>1. d.from = a /\ d.n = sent[a] + 1 /\ d \in Datagram(Addresses)
  BY <1>0 DEF Datagram
<1>2. \A x \in Places : d \notin Holds(x)
  <2> SUFFICES ASSUME NEW x \in Places, d \in Holds(x) PROVE FALSE
    OBVIOUS
  <2>1. d.n <= sent[d.from]
    BY DEF PlacesInv, Within
  <2> QED
    BY <1>0, <1>1, <2>1
<1>3. Within'
  <2> SUFFICES ASSUME NEW x \in Places, NEW e \in Holds(x)'
               PROVE  e \in Datagram(Addresses) /\ e.n <= sent'[e.from]
    BY DEF Within
  <2>1. CASE e = d
    BY <1>0, <1>1, <2>1
  <2>2. CASE e # d
    <3>1. e \in Holds(x)
      BY <2>2
    <3>2. e \in Datagram(Addresses) /\ e.n <= sent[e.from]
      BY <3>1 DEF PlacesInv, Within
    <3>3. e.from \in Addresses /\ e.n \in Nat
      BY <3>2 DEF Datagram
    <3> QED
      BY <1>0, <3>2, <3>3
  <2> QED
    BY <2>1, <2>2
<1>4. Apart'
  <2>1. \A x \in Places : \A e \in Holds(x)' : e # d => e \in Holds(x)
    OBVIOUS
  <2>2. \A x \in Places : d \in Holds(x)' <=> x = to
    BY <1>2
  <2> QED
    BY <2>1, <2>2 DEF PlacesInv, Apart
<1>5. Lossless'
  <2> SUFFICES ASSUME mishaps' \cap Losses = {}, NEW b \in Addresses, NEW n \in 1..sent'[b]
               PROVE  \E x \in Places : [from |-> b, n |-> n] \in Holds(x)'
    BY DEF Lossless
  <2>1. mishaps \cap Losses = {}
    OBVIOUS
  <2>2. CASE b = a /\ n = sent[a] + 1
    BY <2>2
  <2>3. CASE ~(b = a /\ n = sent[a] + 1)
    <3>1. n \in 1..sent[b]
      BY <1>0, <2>3
    <3>2. \E x \in Places : [from |-> b, n |-> n] \in Holds(x)
      BY <2>1, <3>1 DEF PlacesInv, Lossless
    <3> QED
      BY <3>2
  <2> QED
    BY <2>2, <2>3
<1> QED
  BY <1>2, <1>3, <1>4, <1>5 DEF PlacesInv

\* Taking the head of a sequence without repetitions takes just that element.
LEMMA HeadGoes ==
  ASSUME NEW S, NEW s \in Seq(S), s # <<>>, IsInjective(s)
  PROVE  /\ Head(s) \in Range(s) /\ Tail(s) \in Seq(S) /\ IsInjective(Tail(s))
         /\ Range(Tail(s)) = Range(s) \ {Head(s)}
<1>1. Len(s) \in Nat \ {0} /\ DOMAIN s = 1..Len(s) /\ Head(s) = s[1]
  OBVIOUS
<1>2. /\ Tail(s) \in Seq(S) /\ DOMAIN Tail(s) = 1..(Len(s) - 1)
      /\ \A i \in 1..(Len(s) - 1) : Tail(s)[i] = s[i + 1]
  OBVIOUS
<1>3. IsInjective(Tail(s))
  BY <1>1, <1>2 DEF IsInjective
<1>4. \A i \in 1..Len(s) : i = 1 \/ (i - 1 \in 1..(Len(s) - 1) /\ (i - 1) + 1 = i)
  BY <1>1
<1>5. \A i \in 1..(Len(s) - 1) : i + 1 \in 1..Len(s) /\ i + 1 # 1
  BY <1>1
<1>6. \A x \in Range(Tail(s)) : x \in Range(s) /\ x # s[1]
  <2> SUFFICES ASSUME NEW x \in Range(Tail(s)) PROVE x \in Range(s) /\ x # s[1]
    OBVIOUS
  <2>1. PICK i \in 1..(Len(s) - 1) : x = s[i + 1]
    BY <1>2 DEF Range
  <2> QED
    BY <1>1, <1>5, <2>1 DEF Range, IsInjective
<1>7. \A x \in Range(s) : x = s[1] \/ x \in Range(Tail(s))
  <2> SUFFICES ASSUME NEW x \in Range(s), x # s[1] PROVE x \in Range(Tail(s))
    OBVIOUS
  <2>1. PICK i \in 1..Len(s) : x = s[i]
    BY <1>1 DEF Range
  <2>2. i - 1 \in 1..(Len(s) - 1) /\ Tail(s)[i - 1] = x
    BY <1>2, <1>4, <2>1
  <2> QED
    BY <1>2, <2>2 DEF Range
<1>8. Head(s) \in Range(s)
  BY <1>1 DEF Range
<1> QED
  BY <1>1, <1>2, <1>3, <1>6, <1>7, <1>8

\* Appending an element that is not there adds just that element.
LEMMA LastComes ==
  ASSUME NEW S, NEW s \in Seq(S), NEW x \in S
  PROVE  /\ Range(Append(s, x)) = Range(s) \cup {x}
         /\ IsInjective(s) /\ x \notin Range(s) => IsInjective(Append(s, x))
<1>1. Len(s) \in Nat /\ DOMAIN s = 1..Len(s)
  OBVIOUS
<1>2. /\ DOMAIN Append(s, x) = 1..(Len(s) + 1)
      /\ \A i \in 1..Len(s) : Append(s, x)[i] = s[i]
      /\ Append(s, x)[Len(s) + 1] = x
  OBVIOUS
<1>3. 1..(Len(s) + 1) = 1..Len(s) \cup {Len(s) + 1}
  BY <1>1
<1>4. x \notin Range(s) => \A i \in 1..Len(s) : s[i] # x
  BY <1>1 DEF Range
<1>5. IsInjective(s) /\ x \notin Range(s) => IsInjective(Append(s, x))
  BY <1>1, <1>2, <1>3, <1>4 DEF IsInjective
<1>6. Range(Append(s, x)) = Range(s) \cup {x}
  BY <1>1, <1>2, <1>3 DEF Range
<1> QED
  BY <1>5, <1>6

\* The tail of a sequence, element by element.
LEMMA TailIs ==
  ASSUME NEW S, NEW q \in Seq(S), q # <<>>
  PROVE  Tail(q) = [i \in 1..(Len(q) - 1) |-> q[i + 1]]
<1>1. Len(q) \in Nat \ {0}
  OBVIOUS
<1>2. Tail(q) \in Seq(S) /\ Len(Tail(q)) = Len(q) - 1
  OBVIOUS
<1>3. \A i \in 1..(Len(q) - 1) : Tail(q)[i] = q[i + 1]
  OBVIOUS
<1>4. \A u \in Seq(S) : u = [i \in 1..Len(u) |-> u[i]]
  OBVIOUS
<1> QED
  BY <1>1, <1>2, <1>3, <1>4

\* The datagrams of a worker's tasks, when one is taken or comes.
LEMMA DataSteps ==
  ASSUME TypeOK, NEW w \in Threads
  PROVE  /\ Data(w) \in Seq(Datagram(Peers))
         /\ Data(w) = <<>> <=> tasks[w] = <<>>
         /\ tasks[w] # <<>> => Head(Data(w)) = Head(tasks[w]).data
         /\ tasks[w] # <<>> /\ tasks'[w] = Tail(tasks[w]) => Data(w)' = Tail(Data(w))
         /\ \A t \in TaskType : tasks'[w] = Append(tasks[w], t) => Data(w)' = Append(Data(w), t.data)
         /\ tasks'[w] = tasks[w] => Data(w)' = Data(w)
<1> DEFINE s == tasks[w]
           e == Data(w)
<1>1. s \in Seq(TaskType) /\ Len(s) \in Nat /\ DOMAIN s = 1..Len(s)
  BY DEF TypeOK
<1>2. \A i \in 1..Len(s) : s[i].data \in Datagram(Peers)
  <2>1. \A i \in 1..Len(s) : s[i] \in TaskType
    BY <1>1
  <2>2. \A t \in TaskType : t.data \in Datagram(Peers)
    BY DEF TaskType
  <2> QED
    BY <2>1, <2>2
<1>3. e = [i \in 1..Len(s) |-> s[i].data]
  BY <1>1 DEF Data
<1>4. e \in Seq(Datagram(Peers)) /\ Len(e) = Len(s)
  BY <1>1, <1>2, <1>3
<1>5. s # <<>> => Head(e) = Head(s).data
  BY <1>1, <1>3, <1>4
<1>6. ASSUME s # <<>>, tasks'[w] = Tail(s) PROVE Data(w)' = Tail(e)
  <2>1. Data(w)' = [i \in DOMAIN Tail(s) |-> Tail(s)[i].data]
    BY <1>6 DEF Data
  <2>2. DOMAIN Tail(s) = 1..(Len(s) - 1) /\ \A i \in 1..(Len(s) - 1) : Tail(s)[i] = s[i + 1]
    BY <1>1, <1>6
  <2>3. Tail(e) = [i \in 1..(Len(s) - 1) |-> e[i + 1]]
    <3>1. Len(s) # 0
      BY <1>1, <1>6
    <3> HIDE DEF s, e
    <3>2. e # <<>>
      BY <1>4, <3>1
    <3> QED
      BY <1>4, <3>2, TailIs
  <2>4. \A i \in 1..(Len(s) - 1) : e[i + 1] = s[i + 1].data
    BY <1>1, <1>3
  <2> HIDE DEF s, e
  <2> QED
    BY <2>1, <2>2, <2>3, <2>4
<1>7. ASSUME NEW t \in TaskType, tasks'[w] = Append(s, t) PROVE Data(w)' = Append(e, t.data)
  <2>1. Data(w)' = [i \in DOMAIN Append(s, t) |-> Append(s, t)[i].data]
    BY <1>7 DEF Data
  <2>2. /\ DOMAIN Append(s, t) = 1..(Len(s) + 1) /\ Append(s, t)[Len(s) + 1] = t
        /\ \A i \in 1..Len(s) : Append(s, t)[i] = s[i]
    BY <1>1
  <2>3. /\ DOMAIN Append(e, t.data) = 1..(Len(s) + 1)
        /\ Append(e, t.data)[Len(s) + 1] = t.data
        /\ \A i \in 1..Len(s) : Append(e, t.data)[i] = s[i].data
        /\ Append(e, t.data) = [i \in 1..(Len(s) + 1) |-> Append(e, t.data)[i]]
    BY <1>1, <1>3, <1>4
  <2>4. \A i \in 1..(Len(s) + 1) : i \in 1..Len(s) \/ i = Len(s) + 1
    BY <1>1
  <2> HIDE DEF s, e
  <2>5. \A i \in 1..(Len(s) + 1) : Append(s, t)[i].data = Append(e, t.data)[i]
    BY <2>2, <2>3, <2>4
  <2> DEFINE a == Append(s, t)
             b == Append(e, t.data)
             n == Len(s) + 1
  <2>6. /\ Data(w)' = [i \in 1..n |-> a[i].data] /\ b = [i \in 1..n |-> b[i]]
        /\ \A i \in 1..n : a[i].data = b[i]
    BY <2>1, <2>2, <2>3, <2>5
  <2> HIDE DEF a, b, n
  <2>7. Data(w)' = b
    BY <2>6
  <2> QED
    BY <2>7 DEF b
<1>8. Data(w) = <<>> <=> tasks[w] = <<>>
  BY <1>1, <1>4
<1> QED
  BY <1>4, <1>5, <1>6, <1>7, <1>8 DEF Data

(* A datagram in no place twice.                                           *)
HandledOnce == \A g, h \in handled : g[2] = h[2] => g = h

ConsInv == TypeOK /\ PlacesInv /\ OnceInPlace

\* A place whose variable does not change holds what it held.
LEMMA SamePlaces ==
  /\ inbox' = inbox => Holds(Inbox)' = Holds(Inbox)
  /\ accepting' = accepting => Holds(Accepting)' = Holds(Accepting)
  /\ handled' = handled => Holds(Handled)' = Holds(Handled)
  /\ \A f \in Fds : queue'[f] = queue[f] => Holds(QueueOf(f))' = Holds(QueueOf(f))
  /\ \A w \in Threads : Data(w)' = Data(w) => Holds(TasksOf(w))' = Holds(TasksOf(w))
BY HoldsAre, HoldsNext

\* The listener reads a datagram.
LEMMA TakeInbox ==
  ASSUME ConsInv, inbox # <<>>, inbox' = Tail(inbox)
  PROVE  /\ Head(inbox) \in Holds(Inbox) /\ IsInjective(inbox')
         /\ Holds(Inbox)' = Holds(Inbox) \ {Head(inbox)}
<1>1. inbox \in Seq(Datagram(Peers)) /\ IsInjective(inbox)
  BY DEF ConsInv, TypeOK, OnceInPlace
<1> QED
  BY <1>1, HeadGoes, HoldsAre, HoldsNext

\* A connection reads a datagram.
LEMMA TakeQueue ==
  ASSUME ConsInv, NEW f \in Fds, queue[f] # <<>>, queue'[f] = Tail(queue[f])
  PROVE  /\ Head(queue[f]) \in Holds(QueueOf(f)) /\ IsInjective(queue'[f])
         /\ Holds(QueueOf(f))' = Holds(QueueOf(f)) \ {Head(queue[f])}
<1>1. queue[f] \in Seq(Datagram(Addresses)) /\ IsInjective(queue[f])
  BY DEF ConsInv, TypeOK, OnceInPlace
<1> QED
  BY <1>1, HeadGoes, HoldsAre, HoldsNext

\* A worker takes a task.
LEMMA TakeTask ==
  ASSUME ConsInv, NEW w \in Threads, tasks[w] # <<>>, tasks'[w] = Tail(tasks[w])
  PROVE  /\ Head(tasks[w]).data \in Holds(TasksOf(w)) /\ IsInjective(Data(w)')
         /\ Holds(TasksOf(w))' = Holds(TasksOf(w)) \ {Head(tasks[w]).data}
<1>1. /\ Data(w) \in Seq(Datagram(Peers)) /\ Data(w) # <<>>
      /\ Head(Data(w)) = Head(tasks[w]).data /\ Data(w)' = Tail(Data(w))
  BY DataSteps DEF ConsInv
<1>2. IsInjective(Data(w))
  BY DEF ConsInv, OnceInPlace
<1> DEFINE s == Data(w)
<1>3. /\ Holds(TasksOf(w)) = Range(s) /\ Holds(TasksOf(w))' = Range(Data(w)')
  BY HoldsAre, HoldsNext
<1> HIDE DEF s
<1>4. Head(s) \in Range(s) /\ IsInjective(Tail(s)) /\ Range(Tail(s)) = Range(s) \ {Head(s)}
  BY <1>1, <1>2, HeadGoes DEF s
<1> QED
  BY <1>1, <1>3, <1>4 DEF s

\* A worker is given a task.
LEMMA GiveTask ==
  ASSUME ConsInv, NEW w \in Threads, NEW t \in TaskType, tasks'[w] = Append(tasks[w], t),
         t.data \notin Holds(TasksOf(w))
  PROVE  IsInjective(Data(w)') /\ Holds(TasksOf(w))' = Holds(TasksOf(w)) \cup {t.data}
<1>1. Data(w) \in Seq(Datagram(Peers)) /\ Data(w)' = Append(Data(w), t.data)
  BY DataSteps DEF ConsInv
<1>2. IsInjective(Data(w)) /\ t.data \in Datagram(Peers)
  BY DEF ConsInv, OnceInPlace, TaskType
<1> DEFINE s == Data(w)
<1>3. /\ Holds(TasksOf(w)) = Range(s) /\ Holds(TasksOf(w))' = Range(Data(w)')
  BY HoldsAre, HoldsNext
<1> HIDE DEF s
<1>4. /\ Range(Append(s, t.data)) = Range(s) \cup {t.data}
      /\ t.data \notin Range(s) => IsInjective(Append(s, t.data))
  BY <1>1, <1>2, LastComes DEF s
<1> QED
  BY <1>1, <1>3, <1>4 DEF s

\* The application is given a datagram.
LEMMA GiveHandled ==
  ASSUME ConsInv, NEW p, NEW d, d \notin Holds(Handled), handled' = handled \cup {<<p, d>>}
  PROVE  HandledOnce' /\ Holds(Handled)' = Holds(Handled) \cup {d}
<1>1. \A h \in handled : h[2] # d
  BY HoldsAre
<1>2. HandledOnce'
  BY <1>1 DEF ConsInv, OnceInPlace, HandledOnce
<1>3. /\ Holds(Handled) = {h[2] : h \in handled}
      /\ Holds(Handled)' = {h[2] : h \in handled \cup {<<p, d>>}}
  BY HoldsAre, HoldsNext, Zenon
<1>4. {h[2] : h \in handled \cup {<<p, d>>}} = {h[2] : h \in handled} \cup {d}
  <2> DEFINE g == <<p, d>>
  <2>1. g[2] = d
    OBVIOUS
  <2> HIDE DEF g
  <2>2. {h[2] : h \in handled \cup {g}} = {h[2] : h \in handled} \cup {d}
    BY <2>1
  <2> QED
    BY <2>2 DEF g
<1> QED
  BY <1>2, <1>3, <1>4, Zenon

(* The datagram reaches onData, or is lost.                                *)
Received(d) ==
    \/ handled' = handled /\ mishaps' \cap Losses # {}
    \/ (\E p : handled' = handled \cup {<<p, d>>}) /\ mishaps \subseteq mishaps'

\* createUdpConnection gives its datagram to a connection, old or new, or
\* fails for want of a socket.
LEMMA Creates ==
  /\ \A w, t, table, how : Build(w, t, table, how) => Received(t.data)
  /\ \A w, t : CreateUdpConnection(w, t) => Received(t.data)
<1>1. \A w, t, table, how : Build(w, t, table, how) => Received(t.data)
  BY BuildHistory DEF Received, Losses
<1>2. \A c, d, how : Deliver(c, d, how) => Received(d)
  BY DEF Deliver, Received
<1>3. \A t, table : BuildFails(t, table) => Received(t.data)
  BY DEF BuildFails, Received, Losses
<1> QED
  BY <1>1, <1>2, <1>3, Zenon DEF CreateUdpConnection

\* A datagram that leaves its place for the application.
LEMMA HandleOne ==
  ASSUME ConsInv, sent' = sent, NEW from \in Places, from # Handled, NEW d \in Holds(from),
         Holds(from)' = Holds(from) \ {d}, Received(d),
         \A x \in Places \ {from, Handled} : Holds(x)' = Holds(x)
  PROVE  PlacesInv' /\ HandledOnce'
<1>0. PlacesInv /\ HandledOnce
  BY DEF ConsInv, OnceInPlace, HandledOnce
<1>1. d \notin Holds(Handled)
  BY <1>0, PlacesAre DEF PlacesInv, Apart
<1>2. CASE handled' = handled /\ mishaps' \cap Losses # {}
  <2>1. Holds(Handled)' = Holds(Handled)
    BY <1>2, SamePlaces
  <2>2. PlacesInv'
    BY <1>0, <1>2, <2>1, SomeAreLost
  <2> QED
    BY <1>0, <1>2, <2>2 DEF HandledOnce
<1>3. CASE (\E p : handled' = handled \cup {<<p, d>>}) /\ mishaps \subseteq mishaps'
  <2>1. HandledOnce' /\ Holds(Handled)' = Holds(Handled) \cup {d}
    BY <1>1, <1>3, GiveHandled
  <2> QED
    BY <1>0, <1>3, <2>1, OneMoves, PlacesAre
<1> QED
  BY <1>2, <1>3 DEF Received

\* A datagram that leaves its place for a worker.
LEMMA ScheduleOne ==
  ASSUME ConsInv, sent' = sent, NEW from \in {Inbox, Accepting}, NEW t \in TaskType,
         t.data \in Holds(from), Holds(from)' = Holds(from) \ {t.data}, Schedule(t),
         \A x \in Places : x # from /\ (\A w \in Threads : x # TasksOf(w)) => Holds(x)' = Holds(x)
  PROVE  PlacesInv' /\ \A w \in Threads : IsInjective(Data(w)')
<1> DEFINE v == WorkerOfKey(KeyOf(t))
<1>0. /\ PlacesInv /\ tasks \in [Threads -> Seq(TaskType)]
      /\ \A w \in Threads : IsInjective(Data(w))
  BY DEF ConsInv, TypeOK, OnceInPlace
<1>1. v \in Threads /\ TasksOf(v) \in Places /\ from \in Places /\ from # TasksOf(v)
  <2>1. v \in Threads
    BY HomeType, UdpAssumption DEF KeyOf, TaskType, Fds
  <2> QED
    BY <2>1, PlacesAre
<1>2. \/ tasks' = tasks /\ mishaps' \cap Losses # {}
      \/ tasks' = [tasks EXCEPT ![v] = Append(@, t)] /\ mishaps' = mishaps
  BY DEF Schedule, Losses
<1> HIDE DEF v
<1>3. \A w \in Threads : tasks'[w] = tasks[w] =>
          Data(w)' = Data(w) /\ Holds(TasksOf(w))' = Holds(TasksOf(w))
  BY DataSteps, SamePlaces DEF ConsInv
<1>4. CASE tasks' = tasks /\ mishaps' \cap Losses # {}
  <2>1. \A x \in Places : Holds(x)' \subseteq Holds(x)
    BY <1>3, <1>4
  <2> QED
    BY <1>0, <1>3, <1>4, <2>1, SomeAreLost
<1>5. CASE tasks' = [tasks EXCEPT ![v] = Append(@, t)] /\ mishaps' = mishaps
  <2>1. tasks'[v] = Append(tasks[v], t) /\ \A w \in Threads : w # v => tasks'[w] = tasks[w]
    BY <1>0, <1>1, <1>5
  <2>2. t.data \notin Holds(TasksOf(v))
    BY <1>0, <1>1 DEF PlacesInv, Apart
  <2>3. IsInjective(Data(v)') /\ Holds(TasksOf(v))' = Holds(TasksOf(v)) \cup {t.data}
    BY <1>1, <2>1, <2>2, GiveTask
  <2>4. \A x \in Places \ {from, TasksOf(v)} : Holds(x)' = Holds(x)
    BY <1>3, <2>1
  <2>5. PlacesInv'
    BY <1>0, <1>1, <1>5, <2>3, <2>4, OneMoves
  <2>6. \A w \in Threads : IsInjective(Data(w)')
    BY <1>0, <1>3, <2>1, <2>3
  <2> QED
    BY <2>5, <2>6
<1> QED
  BY <1>2, <1>4, <1>5

\* A datagram comes to one of the sockets.
LEMMA ArriveConserves ==
  ASSUME ConsInv, NEW a \in Addresses, Arrive(a) PROVE PlacesInv' /\ OnceInPlace'
<1> DEFINE d == [from |-> a, n |-> sent[a] + 1]
           mine == {f \in Fds : owner[f] = a}
           open == {f \in Fds : owner[f] = "bound"}
<1>1. /\ sent \in [Addresses -> Nat] /\ inbox \in Seq(Datagram(Peers))
      /\ queue \in [Fds -> Seq(Datagram(Addresses))] /\ PlacesInv /\ OnceInPlace
  BY DEF ConsInv, TypeOK
<1>2. d \in Datagram(Addresses)
  BY <1>1 DEF Datagram
<1>3. /\ sent' = [sent EXCEPT ![a] = @ + 1] /\ mishaps \subseteq mishaps'
      /\ accepting' = accepting /\ tasks' = tasks /\ handled' = handled
      /\ a = Server => mine # {}
      /\ \/ \E f \in Fds : queue' = [queue EXCEPT ![f] = Append(@, d)] /\ inbox' = inbox
         \/ mine = {} /\ inbox' = Append(inbox, d) /\ queue' = queue
  BY DEF Arrive
<1>4. /\ Holds(Accepting)' = Holds(Accepting) /\ Holds(Handled)' = Holds(Handled)
      /\ \A w \in Threads : Data(w)' = Data(w) /\ Holds(TasksOf(w))' = Holds(TasksOf(w))
  BY <1>3, DataSteps, SamePlaces DEF ConsInv
<1>5. CASE \E f \in Fds : queue' = [queue EXCEPT ![f] = Append(@, d)] /\ inbox' = inbox
  <2>1. PICK f \in Fds : queue' = [queue EXCEPT ![f] = Append(@, d)] /\ inbox' = inbox
    BY <1>5
  <2> DEFINE s == queue[f]
  <2>2. s \in Seq(Datagram(Addresses)) /\ IsInjective(s)
    BY <1>1 DEF OnceInPlace
  <2>3. queue'[f] = Append(s, d) /\ \A g \in Fds : g # f => queue'[g] = queue[g]
    BY <1>1, <2>1
  <2>4. Holds(QueueOf(f)) = Range(s) /\ Holds(QueueOf(f))' = Range(queue'[f])
    BY HoldsAre, HoldsNext
  <2>5. \A x \in Places \ {QueueOf(f)} : Holds(x)' = Holds(x)
    BY <1>4, <2>1, <2>3, PlacesAre, SamePlaces
  <2> HIDE DEF d, s
  <2>6. /\ Range(Append(s, d)) = Range(s) \cup {d}
        /\ d \notin Range(s) => IsInjective(Append(s, d))
    BY <1>2, <2>2, LastComes
  <2>7. Holds(QueueOf(f))' = Holds(QueueOf(f)) \cup {d}
    BY <2>3, <2>4, <2>6
  <2>8. PlacesInv' /\ d \notin Holds(QueueOf(f))
    <3>1. QueueOf(f) \in Places
      BY PlacesAre
    <3>2. d = [from |-> a, n |-> sent[a] + 1] /\ sent' = [sent EXCEPT ![a] = @ + 1]
      BY <1>3 DEF d
    <3> QED
      BY <1>1, <1>3, <2>5, <2>7, <3>1, <3>2, OneArrives
  <2>9. IsInjective(queue'[f])
    BY <2>3, <2>4, <2>6, <2>8
  <2>10. \A g \in Fds : IsInjective(queue'[g])
    BY <1>1, <2>3, <2>9 DEF OnceInPlace
  <2> QED
    BY <1>1, <1>3, <1>4, <2>1, <2>8, <2>10 DEF OnceInPlace
<1>6. CASE mine = {} /\ inbox' = Append(inbox, d) /\ queue' = queue
  <2>1. d \in Datagram(Peers)
    BY <1>2, <1>3, <1>6 DEF Datagram, Addresses
  <2>2. \A x \in Places \ {Inbox} : Holds(x)' = Holds(x)
    BY <1>4, <1>6, PlacesAre, SamePlaces
  <2>3. Holds(Inbox) = Range(inbox) /\ Holds(Inbox)' = Range(inbox')
    BY HoldsAre, HoldsNext
  <2> HIDE DEF d
  <2>4. /\ Range(Append(inbox, d)) = Range(inbox) \cup {d}
        /\ IsInjective(inbox) /\ d \notin Range(inbox) => IsInjective(Append(inbox, d))
    BY <1>1, <2>1, LastComes
  <2>5. PlacesInv' /\ d \notin Holds(Inbox)
    <3>1. Inbox \in Places /\ Holds(Inbox)' = Holds(Inbox) \cup {d}
      BY <1>6, <2>3, <2>4, PlacesAre
    <3>2. d = [from |-> a, n |-> sent[a] + 1] /\ sent' = [sent EXCEPT ![a] = @ + 1]
      BY <1>3 DEF d
    <3> QED
      BY <1>1, <1>3, <2>2, <3>1, <3>2, OneArrives
  <2>6. IsInjective(inbox')
    BY <1>1, <1>6, <2>3, <2>4, <2>5 DEF OnceInPlace
  <2> QED
    BY <1>1, <1>3, <1>4, <1>6, <2>5, <2>6 DEF OnceInPlace
<1> QED
  BY <1>3, <1>5, <1>6

\* Steps that touch no datagram.
LEMMA OthersConserve ==
  ASSUME ConsInv,
         \/ \E w \in Threads, how \in Leaves : CreateUdpClient(w, how)
         \/ \E c \in Ids : \/ Release(c) \/ Send(c) \/ SendNothing(c)
                           \/ \E n \in 1..MaxOut : OnWrite(c, n)
                           \/ \E how \in Leaves : Close(c, how)
         \/ UNCHANGED vars
  PROVE  PlacesInv' /\ OnceInPlace'
<1>1. /\ sent' = sent /\ mishaps \subseteq mishaps' /\ inbox' = inbox /\ queue' = queue
      /\ accepting' = accepting /\ tasks' = tasks /\ handled' = handled
  BY DEF CreateUdpClient, Release, Send, SendNothing, OnWrite, Close, vars
<1>2. \A w \in Threads : Data(w)' = Data(w)
  BY <1>1, DataSteps DEF ConsInv
<1>3. \A x \in Places : Holds(x)' = Holds(x)
  BY <1>1, <1>2, PlacesAre, SamePlaces
<1> QED
  BY <1>1, <1>2, <1>3, NothingMoves DEF ConsInv, OnceInPlace

\* Closing a socket loses what nobody read; the tasks keep their datagrams.
LEMMA CloseSocketConserves ==
  ASSUME ConsInv, NEW c \in Ids, CloseSocket(c) PROVE PlacesInv' /\ OnceInPlace'
<1>0. PICK f \in Fds : f = conns[c].fd
  BY DEF ConsInv, TypeOK, CloseSocket
<1>1. /\ queue \in [Fds -> Seq(Datagram(Addresses))]
      /\ tasks \in [Threads -> Seq(TaskType)] /\ PlacesInv /\ OnceInPlace
  BY DEF ConsInv, TypeOK
<1>2. /\ queue' = [queue EXCEPT ![f] = <<>>]
      /\ mishaps' = IF queue[f] = <<>> THEN mishaps ELSE mishaps \cup {"unread"}
      /\ tasks' = [w \in Threads |-> [i \in DOMAIN tasks[w] |->
            [tasks[w][i] EXCEPT !.stale = @ \/ tasks[w][i].fd = f]]]
      /\ sent' = sent /\ inbox' = inbox /\ accepting' = accepting /\ handled' = handled
  BY <1>0 DEF CloseSocket
<1>3. ASSUME NEW w \in Threads PROVE Data(w)' = Data(w)
  <2>1. tasks[w] \in Seq(TaskType)
    BY <1>1
  <2>2. \A i \in DOMAIN tasks[w] : tasks[w][i] \in TaskType
    BY <2>1
  <2>3. tasks'[w] = [i \in DOMAIN tasks[w] |->
           [tasks[w][i] EXCEPT !.stale = @ \/ tasks[w][i].fd = f]]
    BY <1>2
  <2>4. \A t \in TaskType : \A b : [t EXCEPT !.stale = b].data = t.data
    BY DEF TaskType
  <2>5. \A i \in DOMAIN tasks[w] : tasks'[w][i].data = tasks[w][i].data
    BY <2>2, <2>3, <2>4
  <2>6. DOMAIN tasks'[w] = DOMAIN tasks[w]
    BY <2>3
  <2> QED
    BY <2>5, <2>6 DEF Data
<1>4. queue'[f] = <<>> /\ \A g \in Fds : g # f => queue'[g] = queue[g]
  BY <1>1, <1>2
<1>5. Range(<<>>) = {} /\ IsInjective(<<>>)
  BY DEF Range, IsInjective
<1>6. /\ Holds(QueueOf(f))' = {}
      /\ \A x \in Places \ {QueueOf(f)} : Holds(x)' = Holds(x)
  <2>1. Holds(QueueOf(f))' = {}
    BY <1>4, <1>5, HoldsNext
  <2>2. /\ \A y \in {Inbox, Accepting, Handled} : Holds(y)' = Holds(y)
        /\ \A w \in Threads : Holds(TasksOf(w))' = Holds(TasksOf(w))
        /\ \A g \in Fds : g # f => Holds(QueueOf(g))' = Holds(QueueOf(g))
    BY <1>2, <1>3, <1>4, SamePlaces
  <2> QED
    BY <2>1, <2>2, PlacesAre
<1>7. PlacesInv'
  <2>1. CASE queue[f] = <<>>
    <3>1. Holds(QueueOf(f)) = {} /\ mishaps' = mishaps
      BY <1>1, <1>2, <1>5, <2>1, HoldsAre
    <3>2. \A x \in Places : Holds(x)' = Holds(x)
      BY <1>6, <3>1
    <3> QED
      BY <1>1, <1>2, <3>1, <3>2, NothingMoves
  <2>2. CASE queue[f] # <<>>
    <3>1. mishaps' \cap Losses # {}
      BY <1>2, <2>2 DEF Losses
    <3>2. \A x \in Places : Holds(x)' \subseteq Holds(x)
      BY <1>6
    <3> QED
      BY <1>1, <1>2, <3>1, <3>2, SomeAreLost
  <2> QED
    BY <2>1, <2>2
<1>8. \A g \in Fds : IsInjective(queue'[g])
  BY <1>1, <1>4, <1>5 DEF OnceInPlace
<1> QED
  BY <1>1, <1>2, <1>3, <1>7, <1>8 DEF OnceInPlace

\* A connection reads from its socket, or swallows an empty datagram.
LEMMA OnReadConserves ==
  ASSUME ConsInv, NEW c \in Ids, OnRead(c) \/ OnReadEmpty(c) PROVE PlacesInv' /\ OnceInPlace'
<1>0. PICK f \in Fds : f = conns[c].fd
  BY DEF ConsInv, TypeOK, OnRead, OnReadEmpty, Runs, Open
<1> DEFINE d == Head(queue[f])
<1>1. queue \in [Fds -> Seq(Datagram(Addresses))] /\ OnceInPlace
  BY DEF ConsInv, TypeOK
<1>2. /\ queue[f] # <<>> /\ queue' = [queue EXCEPT ![f] = Tail(@)]
      /\ sent' = sent /\ inbox' = inbox /\ accepting' = accepting /\ tasks' = tasks
      /\ \/ \E how \in Leaves : Deliver(c, d, how)
         \/ handled' = handled /\ "empty" \in mishaps'
  BY <1>0 DEF OnRead, OnReadEmpty
<1>3. Received(d)
  BY <1>2 DEF Deliver, Received, Losses
<1> HIDE DEF d
<1>4. queue'[f] = Tail(queue[f]) /\ \A g \in Fds : g # f => queue'[g] = queue[g]
  BY <1>1, <1>2
<1>5. /\ d \in Holds(QueueOf(f)) /\ IsInjective(queue'[f])
      /\ Holds(QueueOf(f))' = Holds(QueueOf(f)) \ {d}
  BY <1>1, <1>2, <1>4, TakeQueue DEF d
<1>6. \A w \in Threads : Data(w)' = Data(w)
  BY <1>2, DataSteps DEF ConsInv
<1>7. \A x \in Places \ {QueueOf(f), Handled} : Holds(x)' = Holds(x)
  BY <1>2, <1>4, <1>6, PlacesAre, SamePlaces
<1>8. QueueOf(f) \in Places /\ QueueOf(f) # Handled
  BY <1>1, PlacesAre
<1>9. PlacesInv' /\ HandledOnce'
  BY <1>2, <1>3, <1>5, <1>7, <1>8, HandleOne
<1>10. \A g \in Fds : IsInjective(queue'[g])
  BY <1>1, <1>4, <1>5 DEF OnceInPlace
<1> QED
  BY <1>1, <1>2, <1>6, <1>9, <1>10 DEF OnceInPlace, HandledOnce

\* A worker runs a task.
LEMMA DoAcceptConserves ==
  ASSUME ConsInv, NEW w \in Threads, DoAccept(w) PROVE PlacesInv' /\ OnceInPlace'
<1> DEFINE d == Head(tasks[w]).data
<1>1. tasks \in [Threads -> Seq(TaskType)] /\ OnceInPlace
  BY DEF ConsInv, TypeOK
<1>2. /\ tasks[w] # <<>> /\ tasks' = [tasks EXCEPT ![w] = Tail(@)]
      /\ sent' = sent /\ inbox' = inbox /\ accepting' = accepting /\ queue' = queue
      /\ Received(d)
  BY Creates DEF DoAccept
<1>3. tasks'[w] = Tail(tasks[w]) /\ \A v \in Threads : v # w => tasks'[v] = tasks[v]
  BY <1>1, <1>2
<1>4. /\ d \in Holds(TasksOf(w)) /\ IsInjective(Data(w)')
      /\ Holds(TasksOf(w))' = Holds(TasksOf(w)) \ {d}
  BY <1>2, <1>3, TakeTask
<1> HIDE DEF d
<1>5. \A v \in Threads : v # w => Data(v)' = Data(v)
  BY <1>3, DataSteps DEF ConsInv
<1>6. \A x \in Places \ {TasksOf(w), Handled} : Holds(x)' = Holds(x)
  BY <1>2, <1>5, PlacesAre, SamePlaces
<1>7. TasksOf(w) \in Places /\ TasksOf(w) # Handled
  BY PlacesAre
<1>8. PlacesInv' /\ HandledOnce'
  BY <1>2, <1>4, <1>6, <1>7, HandleOne
<1>9. \A v \in Threads : IsInjective(Data(v)')
  BY <1>1, <1>4, <1>5 DEF OnceInPlace
<1> QED
  BY <1>1, <1>2, <1>8, <1>9 DEF OnceInPlace, HandledOnce

\* The listener finds the peer of a datagram in the table.
LEMMA AcceptKnownConserves ==
  ASSUME ConsInv, AcceptKnown PROVE PlacesInv' /\ OnceInPlace'
<1> DEFINE d == Head(inbox)
           t == Task(sockets[d.from].fd, d)
<1>1. /\ inbox # <<>> /\ inbox' = Tail(inbox) /\ sockets[d.from] # None /\ OnAcceptKnown(t)
      /\ sent' = sent /\ accepting' = accepting /\ queue' = queue
  BY DEF AcceptKnown, ListenerRuns, Entry, Key
<1>2. /\ d \in Holds(Inbox) /\ IsInjective(inbox')
      /\ Holds(Inbox)' = Holds(Inbox) \ {d}
  BY <1>1, TakeInbox
<1>3. t \in TaskType /\ t.data = d
  <2>1. d \in Datagram(Peers)
    BY <1>1 DEF ConsInv, TypeOK
  <2>2. d.from \in Peers
    BY <2>1 DEF Datagram
  <2>3. sockets[d.from].fd \in Fds
    BY <1>1, <2>2 DEF ConsInv, TypeOK
  <2> QED
    BY <2>1, <2>3 DEF Task, TaskType
<1>4. OnceInPlace /\ Inbox \in Places /\ Inbox # Handled
  BY PlacesAre DEF ConsInv
<1> HIDE DEF d
<1>5. CASE shareThread
  <2>1. Received(d) /\ tasks' = tasks
    BY <1>1, <1>3, <1>5, Creates DEF OnAcceptKnown
  <2>2. \A w \in Threads : Data(w)' = Data(w)
    BY <2>1, DataSteps DEF ConsInv
  <2>3. \A x \in Places \ {Inbox, Handled} : Holds(x)' = Holds(x)
    BY <1>1, <2>2, PlacesAre, SamePlaces
  <2>4. PlacesInv' /\ HandledOnce'
    BY <1>1, <1>2, <1>4, <2>1, <2>3, HandleOne
  <2> QED
    BY <1>1, <1>2, <1>4, <2>2, <2>4 DEF OnceInPlace, HandledOnce
<1>6. CASE ~shareThread
  <2>1. Schedule(t) /\ handled' = handled
    BY <1>1, <1>6 DEF OnAcceptKnown
  <2> HIDE DEF t
  <2>2. \A x \in Places : x # Inbox /\ (\A w \in Threads : x # TasksOf(w)) => Holds(x)' = Holds(x)
    BY <1>1, <2>1, PlacesAre, SamePlaces
  <2>3. PlacesInv' /\ \A w \in Threads : IsInjective(Data(w)')
    BY <1>1, <1>2, <1>3, <2>1, <2>2, ScheduleOne
  <2> QED
    BY <1>1, <1>2, <1>4, <2>1, <2>3 DEF OnceInPlace
<1> QED
  BY <1>5, <1>6

\* The listener opens a socket for a new peer.
LEMMA AcceptBindConserves ==
  ASSUME ConsInv, AcceptBind PROVE PlacesInv' /\ OnceInPlace'
<1> DEFINE d == Head(inbox)
<1>1. /\ inbox # <<>> /\ inbox' = Tail(inbox) /\ accepting = None
      /\ sent' = sent /\ tasks' = tasks /\ queue' = queue /\ handled' = handled
      /\ mishaps' = mishaps /\ accepting' = [fd |-> Min(FreeFds), data |-> d]
  BY DEF AcceptBind, ListenerRuns, Idle
<1>2. /\ d \in Holds(Inbox) /\ IsInjective(inbox')
      /\ Holds(Inbox)' = Holds(Inbox) \ {d}
  BY <1>1, TakeInbox
<1>3. Holds(Accepting) = {} /\ Holds(Accepting)' = {d}
  <2>1. d \in Datagram(Peers) /\ Min(FreeFds) \in Nat
    BY <1>1, FreeFd, UdpAssumption DEF ConsInv, TypeOK, AcceptBind, Fds
  <2>2. accepting' \in [fd : Nat, data : Datagram(Peers)] /\ accepting'.data = d
    BY <1>1, <2>1
  <2>3. accepting' # None
    BY <2>2, UdpAssumption DEF Datagram
  <2> QED
    BY <1>1, <2>2, <2>3, HoldsAre, HoldsNext
<1>4. OnceInPlace /\ PlacesInv
  BY DEF ConsInv
<1> HIDE DEF d
<1>5. \A w \in Threads : Data(w)' = Data(w)
  BY <1>1, DataSteps DEF ConsInv
<1>6. \A x \in Places \ {Inbox, Accepting} : Holds(x)' = Holds(x)
  BY <1>1, <1>5, PlacesAre, SamePlaces
<1>7. PlacesInv'
  <2>1. /\ Inbox \in Places /\ Accepting \in Places /\ Inbox # Accepting
        /\ Holds(Accepting)' = Holds(Accepting) \cup {d}
    BY <1>3, PlacesAre
  <2> QED
    BY <1>1, <1>2, <1>4, <1>6, <2>1, OneMoves
<1> QED
  BY <1>1, <1>2, <1>4, <1>5, <1>7 DEF OnceInPlace

\* It connects the socket and hands the datagram on.
LEMMA AcceptConnectConserves ==
  ASSUME ConsInv, AcceptConnect PROVE PlacesInv' /\ OnceInPlace'
<1> DEFINE d == accepting.data
           t == Task(accepting.fd, d)
           table == [sockets EXCEPT ![d.from] = [fd |-> accepting.fd, conn |-> 0]]
<1>1. /\ accepting # None /\ accepting' = None /\ OnAcceptNew(t, table)
      /\ sent' = sent /\ inbox' = inbox /\ queue' = queue
  BY DEF AcceptConnect, Key
<1>2. t \in TaskType /\ t.data = d
  <2>1. accepting \in [fd : Fds, data : Datagram(Peers)]
    BY <1>1 DEF ConsInv, TypeOK
  <2> QED
    BY <2>1 DEF Task, TaskType
<1>3. d \in Holds(Accepting) /\ Holds(Accepting)' = Holds(Accepting) \ {d}
  BY <1>1, HoldsAre, HoldsNext
<1>4. OnceInPlace /\ Accepting \in Places /\ Accepting # Handled
  BY PlacesAre DEF ConsInv
<1> HIDE DEF d, table
<1>5. CASE shareThread
  <2>1. Received(d) /\ tasks' = tasks
    BY <1>1, <1>2, <1>5, Creates DEF OnAcceptNew
  <2>2. \A w \in Threads : Data(w)' = Data(w)
    BY <2>1, DataSteps DEF ConsInv
  <2>3. \A x \in Places \ {Accepting, Handled} : Holds(x)' = Holds(x)
    BY <1>1, <2>2, PlacesAre, SamePlaces
  <2>4. PlacesInv' /\ HandledOnce'
    BY <1>1, <1>3, <1>4, <2>1, <2>3, HandleOne
  <2> QED
    BY <1>1, <1>4, <2>2, <2>4 DEF OnceInPlace, HandledOnce
<1>6. CASE ~shareThread
  <2>1. Schedule(t) /\ handled' = handled
    BY <1>1, <1>6 DEF OnAcceptNew
  <2> HIDE DEF t
  <2>2. \A x \in Places :
           x # Accepting /\ (\A w \in Threads : x # TasksOf(w)) => Holds(x)' = Holds(x)
    BY <1>1, <2>1, PlacesAre, SamePlaces
  <2>3. PlacesInv' /\ \A w \in Threads : IsInjective(Data(w)')
    BY <1>1, <1>2, <1>3, <2>1, <2>2, ScheduleOne
  <2> QED
    BY <1>1, <1>4, <2>1, <2>3 DEF OnceInPlace
<1> QED
  BY <1>5, <1>6

\* An accept that fails loses its datagram, and says so.
LEMMA AcceptFailsConserves ==
  ASSUME ConsInv, AcceptFails PROVE PlacesInv' /\ OnceInPlace'
<1>1. /\ mishaps' \cap Losses # {} /\ sent' = sent /\ tasks' = tasks /\ handled' = handled
      /\ OnceInPlace /\ PlacesInv /\ queue \in [Fds -> Seq(Datagram(Addresses))]
  BY DEF AcceptFails, Losses, ConsInv, TypeOK
<1>2. \A w \in Threads : Data(w)' = Data(w)
  BY <1>1, DataSteps DEF ConsInv
<1>3. CASE accepting # None /\ accepting' = None /\ inbox' = inbox
  <2>1. PICK f \in Fds : queue' = [queue EXCEPT ![f] = <<>>]
    <3>1. accepting.fd \in Fds
      BY <1>3 DEF ConsInv, TypeOK
    <3>2. accepting.fd \in Fds /\ queue' = [queue EXCEPT ![accepting.fd] = <<>>]
      BY <1>3, <3>1 DEF AcceptFails, ListenerRuns
    <3> QED
      BY <3>2
  <2>2. queue'[f] = <<>> /\ \A g \in Fds : g # f => queue'[g] = queue[g]
    BY <1>1, <2>1
  <2>3. Range(<<>>) = {} /\ IsInjective(<<>>)
    BY DEF Range, IsInjective
  <2>4. /\ Holds(QueueOf(f))' = {} /\ Holds(Accepting)' = {}
        /\ \A x \in Places \ {QueueOf(f), Accepting} : Holds(x)' = Holds(x)
    <3>1. Holds(QueueOf(f))' = {} /\ Holds(Accepting)' = {}
      BY <1>3, <2>2, <2>3, HoldsNext
    <3>2. /\ \A y \in {Inbox, Handled} : Holds(y)' = Holds(y)
          /\ \A w \in Threads : Holds(TasksOf(w))' = Holds(TasksOf(w))
          /\ \A g \in Fds : g # f => Holds(QueueOf(g))' = Holds(QueueOf(g))
      BY <1>1, <1>2, <1>3, <2>2, SamePlaces
    <3> QED
      BY <3>1, <3>2, PlacesAre
  <2>5. \A x \in Places : Holds(x)' \subseteq Holds(x)
    BY <2>4
  <2>6. \A g \in Fds : IsInjective(queue'[g])
    BY <1>1, <2>2, <2>3 DEF OnceInPlace
  <2> QED
    BY <1>1, <1>2, <1>3, <2>5, <2>6, SomeAreLost DEF OnceInPlace
<1>4. CASE ListenerRuns /\ accepting' = accepting /\ queue' = queue
  <2>1. IsInjective(inbox') /\ Holds(Inbox)' \subseteq Holds(Inbox)
    BY <1>4, TakeInbox DEF ListenerRuns
  <2>2. \A x \in Places \ {Inbox} : Holds(x)' = Holds(x)
    BY <1>1, <1>2, <1>4, PlacesAre, SamePlaces
  <2>3. \A x \in Places : Holds(x)' \subseteq Holds(x)
    BY <2>1, <2>2
  <2> QED
    BY <1>1, <1>2, <1>4, <2>1, <2>3, SomeAreLost DEF OnceInPlace
<1> QED
  BY <1>3, <1>4 DEF AcceptFails

\* At the beginning there are no datagrams.
LEMMA InitConserves == Init => PlacesInv /\ OnceInPlace
<1> SUFFICES ASSUME Init PROVE PlacesInv /\ OnceInPlace
  OBVIOUS
<1>1. Range(<<>>) = {} /\ IsInjective(<<>>)
  BY DEF Range, IsInjective
<1>2. \A w \in Threads : Data(w) = <<>>
  BY DEF Init, Data
<1>3. \A x \in Places : Holds(x) = {}
  BY <1>1, <1>2, PlacesAre, HoldsAre DEF Init
<1>4. \A a \in Addresses : 1..sent[a] = {}
  BY DEF Init
<1> QED
  BY <1>1, <1>2, <1>3, <1>4 DEF Init, PlacesInv, Within, Apart, Lossless, OnceInPlace

\* Every step conserves the datagrams.
LEMMA NextConserves == ConsInv /\ [Next]_vars => ConsInv'
<1> SUFFICES ASSUME ConsInv, [Next]_vars PROVE ConsInv'
  OBVIOUS
<1>1. TypeOK'
  BY TypeStep DEF ConsInv
<1>2. PlacesInv' /\ OnceInPlace'
  <2>1. ASSUME NEW a \in Addresses, Arrive(a) PROVE PlacesInv' /\ OnceInPlace'
    BY <2>1, ArriveConserves
  <2>2. ASSUME Listener PROVE PlacesInv' /\ OnceInPlace'
    BY <2>2, AcceptKnownConserves, AcceptBindConserves, AcceptConnectConserves,
       AcceptFailsConserves DEF Listener
  <2>3. ASSUME NEW w \in Threads, DoAccept(w) PROVE PlacesInv' /\ OnceInPlace'
    BY <2>3, DoAcceptConserves
  <2>4. ASSUME NEW c \in Ids, CloseSocket(c) \/ OnRead(c) \/ OnReadEmpty(c)
        PROVE  PlacesInv' /\ OnceInPlace'
    BY <2>4, CloseSocketConserves, OnReadConserves
  <2> QED
    BY <2>1, <2>2, <2>3, <2>4, OthersConserve DEF Next, Connection
<1> QED
  BY <1>1, <1>2 DEF ConsInv

\* A datagram is in one place at a time and none is handled twice, for any
\* number of peers, workers, descriptors and datagrams: onAccept, doAccept,
\* createUdpConnection and onRead hand each one on at most once.  None is lost
\* but to a refused or stale task, a failed accept, an unread socket, an
\* onConnected that throws before onData, or recv's 0 for a datagram of no
\* bytes.
THEOREM DatagramsAreConserved == Spec => []DatagramsConserved
<1>1. Init => ConsInv
  BY InitInv, InitConserves DEF Inv, ConsInv
<1>2. ConsInv => DatagramsConserved
  BY DEF ConsInv, PlacesInv, Apart, Lossless, Losses, DatagramsConserved
<1> QED
  BY <1>1, <1>2, NextConserves, PTL DEF Spec

=============================================================================
