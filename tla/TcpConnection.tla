----------------------------- MODULE TcpConnection -----------------------------
(***************************************************************************)
(* The life of one TCP connection object on its event loop: TcpConnection  *)
(* and TcpClient (core/tcp_connection.cpp, core/tcp_client.cpp), the part  *)
(* of Manager that creates and forgets them (core/manager.cpp), the epoll  *)
(* registration of Socket (core/handler.cpp, core/selector_epoll.cpp) and  *)
(* the intrusive reference count that keeps the object alive (utils/rc.h). *)
(*                                                                         *)
(* Everything happens on one thread, but application callbacks run inside  *)
(* the handlers and may send on, close or keep the very connection that is *)
(* calling them.  `stack' holds the callbacks in progress, innermost last; *)
(* what a handler does after its callback is what the frame's return does. *)
(***************************************************************************)
EXTENDS Naturals, Sequences

CONSTANTS
  Uses,      \* which of Options the application and the network make use of
  MaxBytes,  \* bound: bytes the application sends in all
  MaxDepth,  \* bound: callbacks nested in callbacks
  OutLimit   \* ByteBuffer::_limit of the output buffer

Options == {
  "retain",          \* the application keeps a counted reference
  "useClosed",       \* it closes, sends on or arms a closed connection
  "failAfterClose",  \* a callback that closed the connection also fails
  "throwInClose",    \* onClose or onInitiativeClose throws
  "throwInBeat",     \* onHeartbeat throws
  "earlyKeepalive",  \* setKeepaliveTimeout before the connection is up
  "immediate",       \* ::connect succeeds at once
  "flood" }          \* the input buffer reaches its limit

ASSUME TcpConnectionAssumption ==
  /\ Uses \subseteq Options
  /\ MaxBytes \in Nat /\ MaxDepth \in Nat /\ OutLimit \in Nat

Events == {"READ", "WRITE"}
Callbacks == {"onConnected", "onAccepted", "onData", "onWrite", "onHeartbeat",
              "onClose", "onInitiativeClose", "onCreateFailed",
              "onCloseFull",    \* onClose for want of space; onData follows
              "create" }        \* no callback: createTcpClient runs the constructor

VARIABLES
  side,       \* _side
  status,     \* _status, "none" before the object exists
  timeout,    \* _timeout > 0
  connected,  \* m_sock_flags.connected
  net,        \* the three-way handshake: "pending", "up" or "refused"
  soerror,    \* an error waits to be read with SO_ERROR
  selevent,   \* m_sock_flags.selevent
  watched,    \* the events epoll watches; {} when the socket is not registered
  timer,      \* the handler has a timer armed
  due,        \* its timer expired and is about to be notified
  ready,      \* events of the current epoll batch that remain to be notified
  output,     \* _output
  wire,       \* bytes handed to the kernel, in order
  total,      \* history: bytes of the messages given to send, numbered from 1
  lost,       \* history: those that a send dropped after it sent a part
  held,       \* holders of a reference outside the stack
  stack,      \* callbacks in progress; `ref' if the handler holds a reference
  ends,       \* history: close callbacks made, 2 for more
  asked,      \* history: the application asked for the connection to be closed
  owed        \* history: a send returned a positive size, no onWrite since

life  == <<side, status, timeout>>
sock  == <<connected, net, soerror>>
poll  == <<selevent, watched>>
clock == <<timer, due>>
bytes == <<output, wire, total, lost>>
hist  == <<ends, asked, owed>>
vars  == <<life, sock, poll, clock, ready, bytes, held, stack, hist>>

TypeOK ==
  /\ side \in {"Server", "Client"}
  /\ status \in {"none", "CONNECTTING", "ESTABLISHED", "DISCONNECTED", "SOCKETERROR"}
  /\ timeout \in BOOLEAN /\ connected \in BOOLEAN /\ soerror \in BOOLEAN
  /\ timer \in BOOLEAN /\ due \in BOOLEAN
  /\ asked \in BOOLEAN /\ owed \in BOOLEAN
  /\ net \in {"pending", "up", "refused"}
  /\ selevent \subseteq Events /\ watched \subseteq Events
  /\ ready \subseteq Events
  /\ output \in Seq(1..MaxBytes) /\ wire \in Seq(1..MaxBytes)
  /\ total \in 0..MaxBytes /\ lost \subseteq 1..total
  /\ held \subseteq {"manager", "app"}
  /\ stack \in Seq([cb : Callbacks, ref : BOOLEAN])
  /\ ends \in 0..2

--------------------------------------------------------------------------------
(* Helpers *)

Alive == held # {} \/ \E i \in DOMAIN stack : stack[i].ref

Idle == stack = <<>>

Top == stack[Len(stack)]

Within(cb) == ~Idle /\ Top.cb = cb

Below == SubSeq(stack, 1, Len(stack) - 1)

Frame(cb, ref) == [cb |-> cb, ref |-> ref]

Call(cb, ref) == stack' = Append(stack, Frame(cb, ref))

Return == stack' = Below

\* The handler whose callback returned goes on to make another one.
Then(cb) == stack' = Append(Below, Frame(cb, Top.ref))

Closed == status \in {"DISCONNECTED", "SOCKETERROR"}

NoRefInHandler == FALSE

\* onConnected, onRead, onWrite and onTimeout start with RcVar ref(this).
RefOfHandler == TRUE

\* Socket::select and Selector_epoll::select.
Select(remove, add) ==
  LET gone == (remove \ add) \cap selevent
      new  == add \ selevent
  IN  /\ selevent' = (selevent \ gone) \cup new
      /\ watched' = IF gone \cup new = {} THEN watched
                    ELSE IF watched = {} THEN {"READ"} \cup new
                    ELSE selevent'

\* What handleOnClose and handleOnInitiativeClose do before the callback:
\* the status, select_timeout() and Socket::remove(), which leaves selevent.
Shut ==
  /\ status' = "DISCONNECTED"
  /\ timer' = FALSE
  /\ watched' = {}
  /\ ends' = IF ends = 2 THEN 2 ELSE ends + 1
  /\ UNCHANGED <<side, timeout, selevent>>

\* `n' bytes of the output go to the kernel.
Flushed(n) ==
  /\ wire' = wire \o SubSeq(output, 1, n)
  /\ output' = SubSeq(output, n + 1, Len(output))
  /\ UNCHANGED <<total, lost>>

Init ==
  /\ side \in {"Server", "Client"}
  /\ status = "none" /\ timeout = FALSE
  /\ connected = FALSE /\ net = "pending" /\ soerror = FALSE
  /\ selevent = {} /\ watched = {}
  /\ timer = FALSE /\ due = FALSE /\ ready = {}
  /\ output = <<>> /\ wire = <<>> /\ total = 0 /\ lost = {}
  /\ held = {} /\ stack = <<>>
  /\ ends = 0 /\ asked = FALSE /\ owed = FALSE

--------------------------------------------------------------------------------
(* Creation *)

\* Manager::createTcpConnection with a socket that can be set up.
CreateTcpConnection(keepalive) ==
  /\ status = "none" /\ side = "Server"
  /\ status' = "ESTABLISHED" /\ connected' = TRUE /\ net' = "up"
  /\ Select({}, {"READ"})
  /\ timeout' = keepalive /\ timer' = keepalive
  /\ held' = {"manager"}
  /\ Call("onAccepted", TRUE)
  /\ UNCHANGED <<side, soerror, due, ready, bytes, hist>>

\* The same when the constructor caught an exception: nothing keeps the object,
\* which is gone when createTcpConnection returns 0, and no callback is made.
CreateTcpConnectionFails ==
  /\ status = "none" /\ side = "Server"
  /\ status' = "SOCKETERROR"
  /\ UNCHANGED <<side, timeout, sock, poll, clock, ready, bytes, held, stack, hist>>

CreateTcpClientNoTimer ==
  /\ status = "none" /\ side = "Client"
  /\ status' = "CONNECTTING"
  /\ Select({}, Events)
  /\ held' = {"manager"}
  /\ UNCHANGED <<side, timeout, sock, clock, ready, bytes, stack, hist>>

\* Manager::createTcpClient when ::connect is in progress.
CreateTcpClient ==
  /\ status = "none" /\ side = "Client"
  /\ status' = "CONNECTTING" /\ timer' = TRUE
  /\ Select({}, Events)
  /\ held' = {"manager"}
  /\ UNCHANGED <<side, timeout, sock, due, ready, bytes, stack, hist>>

\* The same when ::connect succeeds at once: TcpClientSocket::select calls
\* onConnected from inside the constructor.
CreateImmediate ==
  /\ "immediate" \in Uses
  /\ status = "none" /\ side = "Client"
  /\ status' = "ESTABLISHED" /\ connected' = TRUE /\ net' = "up"
  /\ Select({}, {"READ"})
  /\ stack' = <<Frame("create", FALSE), Frame("onConnected", RefOfHandler)>>
  /\ UNCHANGED <<side, timeout, soerror, clock, ready, bytes, held, hist>>

\* The same when the constructor caught an exception: onConnected reports it.
CreateFails ==
  /\ status = "none" /\ side = "Client"
  /\ status' = "SOCKETERROR"
  /\ ends' = 1
  /\ Call("onCreateFailed", TRUE)
  /\ UNCHANGED <<side, timeout, sock, poll, clock, ready, bytes, held, asked, owed>>

Create ==
  \/ \E keepalive \in BOOLEAN : CreateTcpConnection(keepalive)
  \/ CreateTcpConnectionFails
  \/ CreateTcpClient \/ CreateImmediate \/ CreateFails

\* The peer's answer to ::connect.
Handshake(answer) ==
  /\ status # "none" /\ net = "pending"
  /\ net' = answer
  /\ soerror' = (answer = "refused")
  /\ UNCHANGED <<life, connected, poll, clock, ready, bytes, held, stack, hist>>

--------------------------------------------------------------------------------
(* The event loop *)

\* epoll_wait reports this socket.  A refused connect raises every event; a
\* socket that has just been connected is writable.
EpollWait(events) ==
  /\ Idle /\ Alive /\ ~due /\ ready = {} /\ watched # {}
  /\ net # "pending"
  /\ events # {} /\ events \subseteq watched \cup {"READ"}
  /\ net = "refused" => watched \subseteq events
  /\ ~connected => "WRITE" \in events
  /\ ready' = events
  /\ UNCHANGED <<life, sock, poll, clock, bytes, held, stack, hist>>

\* notify_event skips a handler that was destroyed earlier in the same loop.
SkipRemoved ==
  /\ Idle /\ ~Alive /\ (due \/ ready # {})
  /\ due' = FALSE /\ ready' = {}
  /\ UNCHANGED <<life, sock, poll, timer, bytes, held, stack, hist>>

NotifiedRemoved(event) ==
  /\ Idle /\ event \in ready
  /\ event = "WRITE" => "READ" \notin ready
  /\ ready' = ready \ {event}
  /\ UNCHANGED <<held, due>>

\* loop_once notifies SEL_READ before SEL_WRITE.
Notified(event) ==
  /\ Idle /\ Alive /\ event \in ready
  /\ event = "WRITE" => "READ" \notin ready
  /\ ready' = ready \ {event}
  /\ UNCHANGED <<held, due>>

ConnectOkKeepsTimer(n) ==
  /\ net # "up" => output = <<>>
  /\ n <= Len(output)
  /\ status' = "ESTABLISHED"
  /\ Flushed(n)
  /\ Select(Events, IF n < Len(output) THEN Events ELSE {"READ"})
  /\ Call("onConnected", RefOfHandler)
  /\ UNCHANGED <<side, timeout, timer, hist>>

\* onConnected on a connected socket: the output queued so far is flushed.
ConnectOk(n) ==
  /\ net # "up" => output = <<>>
  /\ n <= Len(output)
  /\ status' = "ESTABLISHED" /\ timer' = FALSE
  /\ Flushed(n)
  /\ Select(Events, IF n < Len(output) THEN Events ELSE {"READ"})
  /\ Call("onConnected", RefOfHandler)
  /\ UNCHANGED <<side, timeout, hist>>

\* handleOnClose out of a handler of the event loop.
Broken ==
  /\ Shut
  /\ Call("onClose", RefOfHandler)
  /\ UNCHANGED <<bytes, asked, owed>>

\* SEL_READ or SEL_WRITE while connecting: complete_nonblocking_connect reads,
\* and so clears, SO_ERROR.
CompleteConnect(event) ==
  /\ Notified(event) /\ ~connected
  /\ soerror' = FALSE
  /\ connected' = ~soerror
  /\ UNCHANGED net
  /\ \/ soerror /\ Broken
     \/ ~soerror /\ \E n \in 0..MaxBytes : ConnectOk(n)
     \/ ~soerror /\ output # <<>> /\ Broken   \* flush throws

OnReadData ==
  /\ Notified("READ") /\ connected
  /\ Call("onData", RefOfHandler)
  /\ UNCHANGED <<life, sock, poll, timer, bytes, hist>>

\* The peer closed, or the socket has an error.
OnReadError ==
  /\ Notified("READ") /\ connected
  /\ Broken
  /\ UNCHANGED sock

\* ResourceLimitException: handleOnClose, and no return.
OnReadNoSpace ==
  /\ "flood" \in Uses
  /\ Notified("READ") /\ connected
  /\ Shut
  /\ Call("onCloseFull", RefOfHandler)
  /\ UNCHANGED <<sock, bytes, asked, owed>>

\* onWrite: flush sends `n' bytes; the callback is made when none is left.
OnWrite(n) ==
  /\ Notified("WRITE") /\ connected
  /\ net # "up" => output = <<>>
  /\ n <= Len(output)
  /\ Flushed(n)
  /\ IF output # <<>> /\ n = Len(output) THEN Select({"WRITE"}, {}) ELSE UNCHANGED poll
  /\ IF n = Len(output)
     THEN Call("onWrite", RefOfHandler) /\ owed' = FALSE
     ELSE UNCHANGED <<stack, owed>>
  /\ UNCHANGED <<life, sock, timer, ends, asked>>

OnWriteError ==
  /\ Notified("WRITE") /\ connected /\ output # <<>>
  /\ Broken
  /\ UNCHANGED sock

\* timout_run: the timer expires ...
Expire ==
  /\ Idle /\ Alive /\ timer /\ ~due /\ ready = {}
  /\ timer' = FALSE /\ due' = TRUE
  /\ UNCHANGED <<life, sock, poll, ready, bytes, held, stack, hist>>

\* ... and is notified, perhaps after other handlers of the same click.
Timeout ==
  /\ Idle /\ Alive /\ due
  /\ due' = FALSE
  /\ UNCHANGED <<sock, ready, bytes, held, owed, asked>>

ConnectTimeout ==
  /\ Timeout /\ ~connected
  /\ Shut
  /\ Call("onClose", RefOfHandler)

\* TcpConnection::onTimeout when something was received in the meantime.
OnTimeoutRearm ==
  /\ Timeout /\ connected /\ side = "Server" /\ timeout
  /\ timer' = TRUE
  /\ UNCHANGED <<life, poll, stack, ends>>

\* TcpClient::onTimeout likewise; the timer is armed again after the callback.
OnTimeoutHeartbeat ==
  /\ Timeout /\ connected /\ side = "Client" /\ timeout
  /\ Call("onHeartbeat", RefOfHandler)
  /\ UNCHANGED <<life, poll, timer, ends>>

\* Either of them when the peer was silent for too long.
OnTimeoutRecv ==
  /\ Timeout /\ connected /\ (timeout \/ side = "Client")
  /\ Shut
  /\ Call("onInitiativeClose", RefOfHandler)

\* One notification of the event loop.
Notify ==
  \/ SkipRemoved
  \/ \E event \in Events : CompleteConnect(event)
  \/ OnReadData \/ OnReadError \/ OnReadNoSpace
  \/ \E n \in 0..MaxBytes : OnWrite(n)
  \/ OnWriteError
  \/ ConnectTimeout \/ OnTimeoutRearm \/ OnTimeoutHeartbeat \/ OnTimeoutRecv

Loop ==
  \/ \E events \in SUBSET Events : EpollWait(events)
  \/ Expire
  \/ Notify

--------------------------------------------------------------------------------
(* The end of a callback.  A handler whose object is gone has undefined        *)
(* behaviour: nothing is said of what it does.                                 *)

Ends(cbs) == ~Idle /\ Alive /\ Top.cb \in cbs

\* The callback succeeded and its handler has nothing else to do.
Finish ==
  /\ Ends({"onConnected", "onAccepted", "onData", "onWrite", "onCreateFailed"})
  /\ Return
  /\ UNCHANGED <<life, sock, poll, clock, ready, bytes, held, hist>>

FinishHeartbeatUnarmed ==
  /\ Ends({"onHeartbeat"})
  /\ Return
  /\ UNCHANGED <<life, sock, poll, clock, ready, bytes, held, hist>>

\* TcpClient::onTimeout, select_timeout(timeout) after heartbeat().
FinishHeartbeat ==
  /\ Ends({"onHeartbeat"})
  /\ timer' = TRUE
  /\ Return
  /\ UNCHANGED <<life, sock, poll, due, ready, bytes, held, hist>>

FinishCloseKeeps ==
  /\ Ends({"onClose", "onInitiativeClose", "onCloseFull"})
  /\ IF Top.cb = "onCloseFull" THEN Then("onData") ELSE Return
  /\ UNCHANGED <<life, sock, poll, clock, ready, bytes, held, hist>>

\* Manager::onClose or onInitiativeClose: removeConnection.
FinishClose ==
  /\ Ends({"onClose", "onInitiativeClose", "onCloseFull"})
  /\ held' = held \ {"manager"}
  /\ IF Top.cb = "onCloseFull" THEN Then("onData") ELSE Return
  /\ UNCHANGED <<life, sock, poll, clock, ready, bytes, hist>>

\* createTcpClient after the constructor: addConnection.
FinishCreate ==
  /\ Ends({"create"})
  /\ held' = held \cup {"manager"}
  /\ Return
  /\ UNCHANGED <<life, sock, poll, clock, ready, bytes, hist>>

MayFail == Closed => "failAfterClose" \in Uses

\* onData returned -1 or threw.
FailData ==
  /\ Ends({"onData"}) /\ MayFail
  /\ asked' = TRUE
  /\ Shut
  /\ Then("onInitiativeClose")
  /\ UNCHANGED <<sock, due, ready, bytes, held, owed>>

\* onConnected threw, or onWrite threw a socket_error.
FailCallback ==
  /\ Ends({"onConnected", "onWrite"}) /\ MayFail
  /\ Shut
  /\ Then("onClose")
  /\ UNCHANGED <<sock, due, ready, bytes, held, asked, owed>>

\* onHeartbeat threw: the exception leaves onTimeout before select_timeout.
FailHeartbeat ==
  /\ "throwInBeat" \in Uses
  /\ Ends({"onHeartbeat"})
  /\ Return
  /\ UNCHANGED <<life, sock, poll, clock, ready, bytes, held, hist>>

\* onClose threw: the exception leaves Manager::onClose before removeConnection.
FailClose ==
  /\ "throwInClose" \in Uses
  /\ Ends({"onClose", "onInitiativeClose", "onCloseFull"})
  /\ timer' = FALSE /\ watched' = {}
  /\ IF Top.cb = "onCloseFull" THEN Then("onData") ELSE Return
  /\ UNCHANGED <<life, sock, selevent, due, ready, bytes, held, hist>>

EndOfCallback ==
  \/ Finish \/ FinishHeartbeat \/ FinishClose \/ FinishCreate
  \/ FailData \/ FailCallback \/ FailHeartbeat \/ FailClose

--------------------------------------------------------------------------------
(* The application, inside a callback or in a task or another handler that *)
(* runs between two of them.                                               *)

MayUse ==
  /\ Alive
  /\ ~Within("create")
  /\ Closed => "useClosed" \in Uses

\* IConnection::close, which takes no reference.
Close ==
  /\ MayUse /\ Len(stack) < MaxDepth
  /\ asked' = TRUE
  /\ Shut
  /\ Call("onInitiativeClose", FALSE)
  /\ UNCHANGED <<sock, due, ready, bytes, held, owed>>

\* The bytes i..k of the next message.
NewBytes(i, k) == [j \in 1..(k + 1 - i) |-> total + i + j - 1]

SendDirectOutOfOrder(k, n) ==
  /\ connected /\ net = "up"
  /\ n <= k
  /\ wire' = wire \o NewBytes(1, n)
  /\ output' = output \o NewBytes(n + 1, k)
  /\ IF n < k THEN Select({}, {"WRITE"}) ELSE UNCHANGED poll
  /\ UNCHANGED lost

SendDirectUnwatched(k, n) ==
  /\ connected /\ output = <<>> /\ net = "up"
  /\ n <= k
  /\ wire' = wire \o NewBytes(1, n)
  /\ output' = NewBytes(n + 1, k)
  /\ UNCHANGED <<poll, lost>>

\* send on a connected socket with nothing queued: the kernel takes `n' bytes.
SendDirect(k, n) ==
  /\ connected /\ output = <<>> /\ net = "up"
  /\ n <= k
  /\ wire' = wire \o NewBytes(1, n)
  /\ output' = NewBytes(n + 1, k)
  /\ IF n < k THEN Select({}, {"WRITE"}) ELSE UNCHANGED poll
  /\ UNCHANGED lost

\* The same when the output has no room for the rest: write throws, and what
\* the kernel took stays on the wire.
SendPartThrows(k, n) ==
  /\ connected /\ output = <<>> /\ net = "up"
  /\ 0 < n /\ n + OutLimit < k
  /\ wire' = wire \o NewBytes(1, n)
  /\ lost' = lost \cup (total + n + 1)..(total + k)
  /\ UNCHANGED <<output, poll>>

\* send behind bytes that wait, or before the connection is up.
SendQueued(k) ==
  /\ ~connected \/ output # <<>>
  /\ output' = output \o NewBytes(1, k)
  /\ UNCHANGED <<wire, lost, poll>>

\* IConnection::send.  One that throws before the kernel took a byte changes
\* nothing.
Send(k) ==
  /\ MayUse
  /\ total + k <= MaxBytes
  /\ \/ \E n \in 0..MaxBytes : SendDirect(k, n) \/ SendPartThrows(k, n)
     \/ SendQueued(k)
  /\ Len(output') <= OutLimit
  /\ total' = total + k
  /\ owed' = (owed \/ output' # <<>>)
  /\ UNCHANGED <<life, sock, clock, ready, held, stack, ends, asked>>

SetKeepaliveTimeout ==
  /\ MayUse
  /\ status = "CONNECTTING" => "earlyKeepalive" \in Uses
  /\ timeout' = TRUE /\ timer' = TRUE
  /\ UNCHANGED <<side, status, sock, poll, due, ready, bytes, held, stack, hist>>

Retain ==
  /\ "retain" \in Uses
  /\ Alive /\ ~Idle
  /\ held' = held \cup {"app"}
  /\ UNCHANGED <<life, sock, poll, clock, ready, bytes, stack, hist>>

Release ==
  /\ "app" \in held
  /\ held' = held \ {"app"}
  /\ UNCHANGED <<life, sock, poll, clock, ready, bytes, stack, hist>>

Application ==
  \/ Close \/ SetKeepaliveTimeout \/ Retain \/ Release
  \/ \E k \in 1..MaxBytes : Send(k)

Next ==
  \/ Create
  \/ \E answer \in {"up", "refused"} : Handshake(answer)
  \/ Loop
  \/ EndOfCallback
  \/ Application

Spec == Init /\ [][Next]_vars

(***************************************************************************)
(* The loop notifies what it found, callbacks return and time passes, so   *)
(* an armed timer expires.  A peer that keeps reading makes room: epoll    *)
(* reports it again and again, and the kernel then takes some byte.        *)
(***************************************************************************)
FairSpec ==
  /\ Spec
  /\ WF_vars(Notify)
  /\ WF_vars(EndOfCallback)
  /\ SF_vars(Expire)
  /\ SF_vars(\E events \in SUBSET Events : "WRITE" \in events /\ EpollWait(events))
  /\ SF_vars(\E n \in 1..MaxBytes : OnWrite(n))

--------------------------------------------------------------------------------
(* Properties *)

\* The object is alive as long as one of its handlers has work left to do on
\* it: no callback, whatever it does to the connection, frees the object under
\* the code that called it (RcVar ref(this) in the handlers).
OutlivesItsCallbacks == ~Idle => Alive

\* The bytes of the messages, on the wire and behind it in the output, are in the
\* order of the calls to send, each there once, through direct sends, partial
\* sends, flushes and the flush at connect.  The only bytes missing are the rest
\* of a message whose send threw when part of it was on the wire.
StreamIntact ==
  LET stream == wire \o output
  IN  /\ \A i, j \in DOMAIN stream : i < j => stream[i] < stream[j]
      /\ {stream[i] : i \in DOMAIN stream} = 1..total \ lost

\* On an established connection epoll watches for room to write exactly when
\* bytes are waiting: no queued byte is forgotten and the loop never spins.
WriteWatchedIffQueued ==
  status = "ESTABLISHED" /\ Alive => (("WRITE" \in watched) <=> (output # <<>>))

\* The application hears of the end of the connection once.
CloseReportedOnce == ends <= 1

\* A closed connection makes no callback but the one that reports it.
NoCallbackAfterClose ==
  [][Closed /\ Len(stack') >= Len(stack) => stack' = stack]_vars

\* A connection that was closed is forgotten: the manager does not keep it, it
\* is in no epoll set and has no timer.
ClosedIsForgotten == Closed /\ Idle => ~Alive

\* onTimeout of a connection that never asked for a keepalive is unreachable, as
\* its assert(false) claims: the timer of the connect is gone once it is up.
TimeoutHasReason == due /\ Alive /\ connected => timeout

\* A keepalive that was asked for stays armed while the connection is up.
KeepaliveArmed ==
  status = "ESTABLISHED" /\ timeout /\ Idle /\ Alive => timer \/ due

\* A connect in progress is never left alone: the object is alive, epoll watches
\* for the answer of the peer, and the timer that ends the wait for a peer that
\* does not answer is armed or has expired, whatever is sent, armed or lost
\* meanwhile.
ConnectGuarded ==
  status = "CONNECTTING" => Alive /\ "WRITE" \in watched /\ (timer \/ due)

\* A connect ends: with a peer that never answers, by the connect timer.
ConnectEnds == status = "CONNECTTING" ~> status # "CONNECTTING"

\* Bytes that send queued, before or after the connection is up, are handed to
\* the kernel unless the connection is closed.
QueuedOutputDrains == output # <<>> ~> (output = <<>> \/ Closed)

\* A reason for onInitiativeClose is a request of the application.
InitiativeMeansAsked == Within("onInitiativeClose") => asked

\* A send that returned a positive size is followed by onWrite once the output
\* is drained.
OnWriteFollows ==
  status = "ESTABLISHED" /\ Idle /\ Alive /\ owed => output # <<>>

\* onConnected reports a connection that is up.
ConnectedMeansUp == Within("onConnected") => net = "up"
================================================================================
