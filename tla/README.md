# A verification project for lin_socket_io

lin_socket_io is a C++ networking library for Linux: IO worker threads that run
one epoll loop each, TCP and UDP connections, timers, a scheduler that sends
tasks to the worker that owns a connection, and RPC futures and coroutines on
top, with byte buffers, packet formats and an asynchronous log below. This
directory models it in TLA+, checks the models with TLC on small instances and
proves the most important results of its core with TLAPS for every instance.

## 1. The system

| Component | State | Operations | Interacts with | Hard because |
|---|---|---|---|---|
| Task queue and worker (`core/queue.*`, `core/worker.*`) | deque under a spin lock, `_notify`, a pipe | `addTask`, `push`, `get`, `notify`, `read`, `onSignals` | every thread that schedules; the worker's event loop | wake-ups are suppressed while one is pending; the pipe is watched only once the thread runs; check and push are two critical sections |
| Timers (`core/countdown.*`, `Selector::timout_run`) | a ladder of falls with accumulated time, one entry per armed handler | `select_timeout`, `click_elapse`, `timout_run` | every handler | counts are relative to their fall and must be re-based at each move; falls are skipped |
| Identifiers and routing (`core/manager.*`, `core/scheduler.cpp`) | a seed and a connection table per thread | `getConnectionId`, `addConnection`, `removeConnection`, `schedule(hashkey, ..)` | scheduler, interface | uniqueness and routing rest on residues alone; 32-bit wrap-around |
| TCP connection (`core/tcp_connection.*`, `core/tcp_client.*`, `core/handler.*`) | status, socket flags, epoll registration, timer, output buffer, counted references | constructors, `handle` (read, write, timeout), `send`, `close`, `setKeepaliveTimeout` | event loop, timers, manager, application callbacks | callbacks re-enter the object and may free it; stale events of a batch; partial sends |
| Event loop (`core/selector*`) | socket set, set of removed handlers, clock | `mainloop`, `loop_once`, `select`, `remove`, `notify_event` | all handlers | events of a batch outlive their handlers |
| Scheduler (`core/scheduler.*`) | vector of workers, `_quit` | `start`, `stop`, `schedule` (asynchronous, synchronous) | workers | start and stop run beside the workers; a synchronous call may wait for itself |
| Interface and futures (`core/interface.h`, `core/future.*`, `core/connection.h`) | promise, timer, table of futures of a connection | `call`, `get`, `close` and their asynchronous forms, replies, timeouts, `clear` | scheduler, connection, coroutines | reply, timeout, a repeated number and the end of the connection race for one future |
| Coroutines (`core/coroutine.*`) | contexts and their states | create, resume, yield, sleep | futures | what the IO thread does depends on who runs on it |
| UDP (`core/udp_*`, `ISocketManager`) | table of peers, clone sockets, connections | datagram, accept, hand-over, read, send, close | manager, scheduler | datagrams race the creation of their connection; descriptors are reused while tasks still name them |
| Listeners and framework (`core/tcp_listener.*`, `core/tcp_server.*`, `core/framework.*`) | listening sockets | accept, hand over to a worker | scheduler, manager | hand-over may be refused |
| Byte buffer (`utils/bytebuffer.h`) | storage, two offsets, a limit, a high-water mark | `write`, `erase`, `reserve`, `advance`, `resize`, `compact`, `gc` | connections, serializer | moves, growth and compaction must be invisible; unsigned differences |
| Serializer and packets (`utils/serializer.h`, `utils/packet.h`) | a window on a buffer | push, pop, skip; build and recognise a Thrift message | applications | lengths at their limits, input cut anywhere, nested values |
| Logging (`log/`) | ring of reusable blocks, ring of slots, output buffer, file | `produce`, `finish`, `sinkThreadFunc`, `~Logging` | every thread | lock-free rings, a condition variable without a predicate, shut-down |

Connections live on one worker. Other threads reach one by its 32-bit
identifier: `Scheduler::schedule(connid, task)` picks the worker by residue,
`Worker::addTask` queues the task, the pipe wakes the worker, and the task looks
the connection up in the worker's thread-local `Manager`.

## 2. Modules

| Module | Models | Role |
|---|---|---|
| `Worker` | `MessageQueue`, `Notifier`, `Worker`, the deletion in `Scheduler::schedule` | component |
| `TaskChannel` | the FIFO a worker promises | abstract specification of `Worker` |
| `Countdown` | `Countdown`, `Selector::timout_run` | component |
| `Timers` | exact timers | abstract specification of `Countdown` |
| `Manager` | `Manager` of all workers, hash of `Scheduler`, `Interface::async_close` | component |
| `TcpConnection` | `TcpConnection`, `TcpClient`, creation and removal in `Manager`, `Socket::select`, one socket's view of `Selector_epoll` | component |
| `ByteBuffer` | `ByteBuffer` | component |
| `ByteQueue` | the queue of bytes a buffer promises | abstract specification of `ByteBuffer` |
| `Packets` | `Serializer`, `Deserializer`, `pb`, `Pack`, `Unpack` | algorithm, writer and reader |
| `Thrift` | `thrift::skip`, `read_message_begin`, `build_message` | algorithm against a reference |
| `Rpc` | `Interface`, `Future`, `AsyncFuture`, the table of `Connection`, coroutines | composition: callers, worker's queue, timers, connection, coroutines |
| `Udp` | `UdpServerSocket`, `UdpServer`, `ISocketManager`, `UdpConnection`, `UdpClient`, their part of `Manager` | composition: listener, workers, connections, kernel |
| `Log` | `BlockingBuffer`, `BufferBucket`, `LogData`, `Logging` | component |
| `WorkerProofs`, `CountdownProofs`, `ManagerProofs`, `TcpConnectionProofs`, `ByteBufferProofs`, `RpcProofs`, `UdpProofs`, `LogProofs` | | theorems and lemmas |
| `MCWorker`, `MCCountdown`, `MCManager`, `MCTcpConnection`, `MCByteBuffer`, `MCPackets`, `MCThrift`, `MCRpc`, `MCUdp`, `MCLog` | | instances for TLC |

### Worker

`queue`, `force` and `pipe` are `queue_`, `_notify` and the number of bytes in
the pipe. The queue's lock makes a step of each critical section; the one
section that is split is `push`, whose system call (`Notify`) is a step of its
own with the lock held (`LockFree` guards the others). `addTask` takes two
steps, because `size()` and `push` lock separately (`AddTaskAdmit`, `Push`). The
worker thread boots, polls, drains the pipe one `read` at a time, swaps the
queue out and runs the batch; a running task may call `addTask` itself. A task
object is scheduled once; `ran` is history.

### Countdown

One record per handler, its fall and count; the lists of a fall are sets,
because the order in a list only affects the order of notifications. The
constants give the ladder (`Fall`), the click and bounds on timeouts and on the
time between two loops. `ClickElapse` is the whole of `click_elapse`: the falls
are scanned upwards, so a timer that sinks meets a fall that is already advanced
(`elapsed'`).

### Manager

`step` is the number of workers, one of `Sizes`, set before they start. `seed`
and `conns` are per manager: workers 1..`step` own one each, and manager 0
belongs to worker 0 or a loop of the application's, where the connections of a
server with `shareThread` live. The loop of `getConnectionId` is one action: it
stops at the first value of the seed that is neither 0 nor in use. `IdSpace`
stands for 2^32, and the history `wrapped` has the managers whose seed has passed
it; their residues are the same as before only if `step` divides it (`Steady`).

### TcpConnection

One connection object and the loop that serves it. `stack` holds the application
callbacks in progress, each with the counted reference of the handler that makes
it; what the handler does after the callback is the action that ends the frame
(`FinishClose`, `FailData`, ...). During a callback, and between two of them, the
application may send, close, arm the keepalive or keep a reference. `ready` and
`due` are the events and the timer that the current loop has found and not yet
notified. Bytes are numbered in the order of the calls to `send`. `Uses` names
what the application and the network do beyond the ordinary (keep a reference,
use a closed connection, throw out of `onClose` or `onHeartbeat`, connect at
once, fill the input buffer), so that each property is checked under the weakest
condition it needs. What a handler does to an object that is gone is undefined,
so such a handler takes no step and `OutlivesItsCallbacks` rules the state out.
A `send` without room in the output throws: before the kernel took a byte it
changes nothing, and after (`SendPartThrows`) the part that was taken stays on
the wire and the rest is recorded in `lost`.

### ByteBuffer and ByteQueue

`buf` is the object: capacity, the two offsets, the cells of the block, limit,
mark and the doubling flag. Memory nobody has written holds `Indeterminate`, so
that a byte read from a wrong place is seen. One action per operation; the ones
that reserve either throw and change nothing or succeed. `ByteQueue` knows only
the bytes between the offsets and the limit; the refinement mapping is
`Contents(buf)`. The sizes 1024 and 4096 of the code are constants. `compact` is
called with a positive minimum only (see the facts below). A varint is written
like input, with room reserved for the longest (`ReadInto`), and read by
`ReadVarint`.

### Packets and Thrift

A byte is a digit below `Base`, so that a length field of two bytes overflows
at 16 instead of 65536 while every width stays what it is in the code. A packet
is written field by field, loses any number of bytes at its end, and is read or
skipped field by field; `Unmarshal` is written from the reading half of the code
and not as an inverse of `Marshal`. `Varint` comes from a header the repository
does not contain; it is modelled from its use and marked external. `Thrift` uses
real bytes: a message arrives one byte at a time, and `ReadMessageBegin` is asked
after each whether it is whole. Both use `RECURSIVE` operators for nested values.

### Rpc

One connection with its table of futures, the worker's queue of the requests'
tasks, and the callers, threads or coroutines of the IO thread. Everything on
the IO thread is serialised by `Idle`; a coroutine that is resumed, by a reply,
a timer or a destructor, runs until it yields before anything else. The
destructor's loop over the table is a step per future, because a resumed
coroutine runs inside it. A request that fails before it is sent, a queue that
is full, a reply that is late, repeated or for a number in use again, and a
connection that is closed while the application holds it are all steps.

### Udp

The kernel's part is explicit: to which socket a datagram goes, the descriptor
that a new socket gets, and what `close` throws away. `sockets` is the table the
listener shares with the workers under its lock. Thread 0 runs the listener,
and with `shareThread` the connections too. `mishaps` records what
the connections cannot help (a task that outlived its socket, a connection kept
after its close, a datagram between `bind` and `connect`, a refused task, a
failed call, unread input at a close, an `onConnected` that throws, a datagram without
bytes); each property names the ones that excuse it. An output whose front is an
empty datagram, which `send(0,0)` queues, is marked `empty`.

### Log

Each atomic operation of the code is a step: taking a block, reserving room,
taking a slot, publishing, and on the other side reading, recycling (two steps),
emptying the slot and giving up the room. Positions count modulo the ring.
`raced`, `short` and `early` record a block that was taken while being recycled,
a file that took less than it was given, and a wait of `~Logging` that returned
though nobody had notified it.

## 3. Runs

| Run | Bounds | Shows |
|---|---|---|
| `worker` | 2 producers and the worker's own thread, 5 tasks, limit 0, reads of one byte | no lost wake-up, at most one byte in the pipe, at most one task per thread above the limit, one owner per task, refinement of `TaskChannel`, every accepted task runs |
| `countdown` | 2 handlers, 4 falls, click 2, timeouts to 10, loops up to 5 apart | no timer overdue, refinement of `Timers`, an armed timer expires |
| `manager_ids` | 2 or 3 workers and manager 0, 8 identifiers, 2 connections each | routing and uniqueness, across wrap-arounds with 2 workers and until then with 3 |
| `tcp_connection` | 4 bytes, 2 nested callbacks, buffer of 2, `Uses = {}` | lifetime, write interest, one close report, nothing kept, keepalive; a connect ends and queued bytes drain |
| `tcp_hostile` | 4 bytes, 3 nested callbacks, buffer of 1, all of `Uses` | order of bytes through sends that throw with a part on the wire, the unreachable `assert(false)` of `onTimeout` and the guards of a connect in progress survive everything |
| `bytebuffer` | stack of 1 cell, blocks of 2, capacity to 4, limits 2 and 4, writes to 2 bytes, with and without doubling | refinement of `ByteQueue`; offsets and mark stay in the block; compaction never grows |
| `packets` | 20 fields of every kind, 2 per packet, both byte orders, base 4, with and without bytes already in the buffer | what is read is what was written; a cut packet is refused and a whole one is not |
| `rpc` | 5 requests (2 `async_call`, a `call` by a coroutine under a number already in use, a `get`, a `close`) | a request ends once, is filed and on its way to its end until then, and ends |
| `udp` | 2 peers and a server, 2 workers and the listener's thread, 2 descriptors, 2 connections, 3 datagrams, a queue of 1 | the table names the connections; no foreign datagrams; each is in one place, none handled twice or lost without a cause; all are handled; output drains |
| `log` | 2 threads, 3 lines, one of two blocks, 2 reusable blocks, 3 slots, output of 2 | lines whole and in order, every line reaches the file, `~Logging` does not go on before the lines logged earlier are written, and returns |
| `thrift_prefix` | 9 bodies in both message layouts, every prefix | a finding |
| `log_recycle` | as `log` | a finding |

The bounds let the interesting cases happen: three threads past the size check
together with a full queue, more tasks than a batch; a ladder with two levels a
timer can sink through and clicks that overshoot a fall; several wrap-arounds of
the seed with identifiers in use; a message that is sent in three parts, one that
is sent in part and then finds a full buffer, and a
close inside a callback inside a callback; a buffer with a hole, one that is
moved, doubled and compacted, and one at its limit; strings of the longest length
and one more; three requests of which two have one number; as many connections
as descriptors, so that each close leads to a reuse; a ring of slots that is full
with two lines while both threads want another, and a line that is cut between
two writes of the file. Deadlock is not checked where the system may rest: a
worker idles in epoll, a connection, a packet or a log ends.

The type invariants are theorems (section 4); a run checks one only for
`ByteBuffer`, where it says that the offsets stay in the block.

Three passing runs have a state constraint. `manager_ids` has at most two managers
at work at a time (`TwoAtWork`): managers share nothing and the properties relate
two at most. `log` does not explore beyond a raced block or a short write
(`Unraced`): these histories never shrink and its properties promise nothing once
they are there. `udp` (`Promising`) does not explore beyond a stale task, a
throwing `onConnected` or a datagram without bytes, and beyond a kept connection
or an output with an empty front only with a single datagram. Behind the first
two of these bounds some properties still promise something: that a datagram has
one place, and after a throw or an empty datagram that table and connections
agree and datagrams reach their owner. The steps themselves are checked; what
follows them differs from what follows without them in `mishaps` alone; and the
proofs, which know no constraint, cover all of it (section 4).

Two runs record what the code does against what it says (`findings` in
`PROJECT.json`):

* `thrift_prefix`: `skip` answers -1 when the data ends inside a value, and its
  recursive calls test the answer for zero. A struct is taken to go on behind a
  value that was cut, and a prefix of a message may be taken for the whole.
* `log_recycle`: `LogData::recycle` marks a block free before it clears it. A
  thread that takes it in between writes behind the old text, and what it wrote
  may be wiped.

### Further facts

These the models show with other constants than those of the runs.

Identifiers: with three workers the residues move when a seed wraps around, and
tasks go to a worker that does not own the connection (`RoutesHome` without
`Steady` fails; the number of workers is the number of processors, at most 16, so
this concerns machines whose number is not a power of two, after 2^32 / workers
connections on one worker). Connections of a server that shares its listener's
thread, which the `create` functions with a port ask for (`tcp_server.cpp:76`,
`udp_server.cpp:81`), are in a manager no identifier routes to: `async_close` and
the other calls of `Interface` look in a worker's manager, and find nothing or a
connection that happens to have the same number (`EveryCloseReachesItsOwner`,
against `interface.h:27`, fails with the constants of `manager_ids`).

TCP connection: after a `send` that threw with a part on the wire, the next
message follows half of the one before (`lost`). By the member of `Uses`: with `"retain"` a refused connect may
report `onConnected` after `onClose`, because one event of the batch clears
`SO_ERROR` (`ConnectedMeansUp`); with `"throwInClose"` a connection whose
`onClose` throws stays in the manager (`ClosedIsForgotten`, against the comment
at `tcp_connection.cpp:464`); with none at all, bytes queued before the
connection is up cause no `onWrite`, against `connection.h:140`
(`OnWriteFollows`), and a receive timeout is reported by `onInitiativeClose`,
against `connection.h:26-27` (`InitiativeMeansAsked`); with `"earlyKeepalive"` or
`"throwInBeat"` the keepalive is no longer armed (`KeepaliveArmed`); with
`"immediate"` the object dies at the end of its constructor
(`OutlivesItsCallbacks`); with `"flood"` `onData` follows `onClose`
(`NoCallbackAfterClose`); with `"useClosed"` or `"failAfterClose"` the close is
reported twice.

Buffer and packets: `compact(0)` of an empty buffer leaves a capacity of zero,
which the doubling of `alloc_size` never leaves; a buffer may hold more than its
limit while there is room; `write_string16` drops what its length field cannot
say without an error; `StringToPacket` catches `UnpackError` only, though a cut
number throws `RuntimeException`; a block written by a Serializer on a buffer
that was not empty puts its length at the wrong place (`EarlierBytesKept` fails
with `Offsets = {1}`, `serializer.h:164`); `skip` of a Thrift map looks for 4
bytes and reads 6.

Requests: `set_exception` tests whether the promise is done in a statement of
its own (`future.h:267`), so a request that timed out while its connection was
closed and still referenced ends once more in the destructor (`kept` in
`EndsOnce`); `get` and `close` have no timer, and a function that throws in `get`
keeps its caller for ever (`broken`).

UDP: a task whose descriptor was closed, and perhaps reused for another peer,
builds a connection on it all the same (`"stale"`); the release of a connection
that was kept after its close removes its successor's entry (`"kept"`); a
datagram of another peer may be queued at a socket between its `bind` and its
`connect` (`"stray"`); a task the worker refuses leaves a socket nobody reads, in
the table (`"refused"`); `createUdpConnection` calls `onData` even if `onConnected` closed the
connection, and does not call it if `onConnected` throws, which leaves the
connection open without its first datagram (`"thrown"`); a datagram without bytes
makes a connection if it is a peer's first, and is swallowed by the connection's
own socket later (`"empty"`). `connection.h:140-141` offers `send(0,0)` to ask for
the size of the output and says that an answer above 0 is followed by `onWrite`.
On a UDP connection with nothing queued it sends an empty datagram, takes the
answer 0 for a lack of room (`udp_connection.cpp:263`), queues another and answers
1; `flush` takes the 0 the same way (`udp_connection.cpp:298`), so that the empty
datagram is sent again at each write event and never leaves the queue, and later
ones wait behind it for ever (`OnWriteFollowsSend` fails with one client, one
connection and a queue of 1; `OutputDrains` names the exception).

Log: if as many threads as the ring has slots wait for room, each may see the
others' reservations and none goes on, hence `Cardinality(Threads) < ListMax`; a
lost notification costs up to a second; lines logged between the sink's last
empty look and the end are lost, and so are earlier ones if the wait of
`~Logging`, which asks no predicate, returns of itself (`early` in
`ExitIsComplete`).

### Fairness

* `Worker`: weak fairness of each thread inside `push` and of the worker thread.
  The operating system runs every runnable thread and a task's `run()` returns.
  Nothing obliges a thread to call `addTask`. The spin lock adds nothing: a step
  that needs the lock waits only for a producer whose write is itself fair, and
  the lock is not taken again without bound because tasks are finitely many.
* `Countdown`: the loop comes round again after some time and notifies what
  expired (`mainloop`).
* `TcpConnection`: what the loop has found is notified and callbacks return
  (weak); an armed timer expires and a peer that keeps reading makes room
  (strong, because other work interrupts both again and again). Only
  `QueuedOutputDrains` needs the peer.
* `Rpc`: the worker's loop runs tasks and timers, resumed coroutines go on,
  destructors end, woken threads return. No peer has to reply, no link to close,
  and nobody has to release the connection.
* `Udp`: the loops of the listener and the workers; a socket with room to write
  is reported by epoll. No peer has to send.
* `Log`: threads that log go on, the sink runs, and `wait_for` times out.

## 4. Proofs

`WorkerProofs`, for every set of producers, limit, pipe capacity and read size.
`NoLostWakeup` is not inductive: that the queue holds a task says nothing of
where a byte that was suppressed went. The inductive invariant follows the one
wake-up token: it is in `_notify`, in the hands of the producer that must write,
in the pipe, or with the worker on its way to `get`, in exactly one of them
(`WakeToken`), and outside `_notify` exactly while the queue is not empty.
`NoLostWakeup` and `PipeHoldsOneByte` follow. `QueueBound` needs the count of
threads that have passed the size check to be added to the queue
(`AdmittedBound`). `SingleOwner` and the refinement of `TaskChannel` rest on what
each step does to `batch \o queue`.

`CountdownProofs`, for every ladder whose falls after the first are positive and
whose first step is at most a click (`CountdownAssumption`; the constructor of
`Countdown` satisfies it). The invariant `Wheel` says that a timer in a fall
above 0 has a count of at least the fall's width, which yields `NoTimerOverdue`
and, with it, that one `click_elapse` expires exactly the timers it covers.

`ManagerProofs`, for every number of workers and identifiers. The types, that 0
is never the identifier of a connection among them, hold always, and so do
`RoutesHome` and `IdsUnique`, which speak of managers whose seed has not wrapped
around or whose step divides the number of identifiers. The invariant keeps the
seed and the identifiers of such a manager in the residue it started with. A
wrap-around keeps it if the step divides, and otherwise ends what is claimed of
that manager; a step without one always keeps it. Manager 0 and worker 1 start
alike, which is why uniqueness leaves this pair out.

`TcpConnectionProofs`, for every bound on bytes, nesting and output and every set
`Uses` of things the application and the network do. `StreamIntact` is inductive
together with the types: a flush moves a prefix of `output` to the end of `wire`
(`FlushedKeepsStream`), and a send puts bytes above all earlier ones at the end
of the stream, all of the message or, if it throws, a prefix whose rest becomes a
gap (`SendKeepsStream` by `CarriesMore` and `CarriesGap`). That the bytes of the
stream rise and are all but those in `lost` is what order and completeness come
to once there may be gaps.
`TimeoutHasReason` needs three more facts (`TimerInv`): nothing refers to a
connection before it exists (`Unborn`); events and an expired timer never wait
together, and a connection that is up has a timer only for its keepalive
(`TimerReason`); a heartbeat in progress, after which the timer is armed again,
is one of a keepalive (`Beats`). `ConnectGuarded`, the safety half of
`ConnectEnds`, holds for every `Uses` too: while a connect is in progress no
callback runs and only the manager refers to the object (`Connecting`), so
nothing can close it, disarm its timer or change what epoll watches; and epoll
and the socket know nothing of an object that does not exist yet (`ConnectInv`).

The other properties of `TcpConnection` fail for some members of `Uses` (see the
further facts), so each is proved for every `Uses` without the members its
theorem names, and for every bound:

| Property | Members excluded | Invariant |
|---|---|---|
| `OutlivesItsCallbacks` | `retain`, `useClosed`, `immediate` (`Plain`) | `OutInv`: the manager keeps an open connection, and the one handler without a reference, that of `IConnection::close`, is the innermost and runs while the manager has the object |
| `ClosedIsForgotten` | `retain`, `throwInClose` (`Forgets`) | `RefInv`: only the manager holds the object, and after the close only while a callback that reports it is on the stack |
| `WriteWatchedIffQueued` | `Forgets` | `PollInv`: what is watched in each state; the handler of a connection that is up never finds it closed, by `RefInv` |
| `CloseReportedOnce` | `Forgets`, `useClosed`, `failAfterClose` (`Leaves`) | `OnceInv`: a report closes the connection, and every step that closes finds it open |
| `NoCallbackAfterClose` | `Forgets`, `Leaves`, `flood` | `NoFull`: without a full input buffer no handler closes and goes on |
| `KeepaliveArmed` | `Forgets`, `throwInBeat`, `earlyKeepalive` (`Beating`) | `KeepInv`: the timer runs, is about to be notified, or its handler is in `onHeartbeat` |

Each excluded member breaks its property by itself in TLC, except that
`KeepaliveArmed` survives `retain` and `throwInClose` alone: there `Forgets` is
what the argument uses and may be more than is needed.

`ByteBufferProofs`, for every size of the buffer on the stack, of blocks, limits
and writes. `TypeOK` becomes inductive once the capacity is known to be positive
(`Valid`), which the doubling needs to end: `Doubled` takes the first capacity
that is large enough, and that there is one rests on `Shifted`, a recursive
function that is shown to be defined (`ShiftedDef`) and to outgrow its argument.
Each operation then has one lemma that gives the new offsets and contents; it
yields the invariant, `CompactNeverGrows` and the step of `ByteQueue`.

`RpcProofs`, for every set of requests, whatever their kinds, callers and
sequence numbers, equal ones included. `PendingIsFiled` and `EndsOnce` need each
other: a request that has ended is not filed, so neither a late reply nor the
destructor finds it again, and one that is filed has not ended. The invariant
adds that a task is queued once and nothing of it is out before it runs
(`QueueInv`), that the table has under a number only requests that were sent with
that number (`TableInv`), and that a closed connection is still there only if
somebody kept it (`ConnInv`). `NobodyForgotten` is what `EveryRequestEnds` rests
on: a request that has not ended is queued, has a timer or is next in the
destructor, so some step of the IO thread brings it closer to its end. It is
inductive together with the above once a request is ready exactly when it has
ended (`WaitInv`); the delicate steps are those of the destructor, where a
resumed coroutine runs between two futures.

`UdpProofs`, for any number of peers, workers, descriptors, connections and
datagrams, with and without `shareThread` and a hash key. While no stale task has
run and nobody kept a closed connection, the table, the connections, the queued
tasks and the socket being accepted agree (`Agree`): a connection that has its
socket has it alone and lives on the thread that the tasks of the descriptor go
to, an entry of the table names a socket no destructor is about to close, and a
task whose socket is open finds it in the table or in a destructor. Descriptors
are reused at any time in between. `OwnDatagrams` adds the queues of the sockets.
The invariant was checked with TLC on the run's instance with one datagram more
before it was proved. `UdpAssumption` tells addresses, `None` and the states of a
descriptor apart, which are different values in the code.

`DatagramsConserved` looks at the same steps from the datagrams' side, in every
state and not only while nothing went wrong. A datagram is in the queue of the
listening socket, in the accept under way, in a worker's tasks, in the queue of a
connected socket, or has been handled. The inductive invariant adds that only
datagrams that were sent are anywhere (`Within`), so that a new one is in no
place yet. Each action is then one of four kinds, with a lemma each: nothing
moves, one arrives, one goes from one place to another, or some are lost and a
mishap records it (`NothingMoves`, `OneArrives`, `OneMoves`, `SomeAreLost`). An `onConnected` that
throws makes a hand-over one of the last kind instead of the third. That
taking the head of a queue removes its datagram from the place needs the queue
to have it once, which is why `OnceInPlace` belongs to the invariant.

`LogProofs`, for any number of threads, lines, parts and blocks and any sizes of
the rings, the blocks and the output. `LinesInOrder` alone says nothing of what
is still in memory. The invariant `InvAt(d, j)` says that `d` lines have left the
ring and `j` parts of the next one are written, and from there

* the counter is the room that threads hold for a slot, took only to see that
  there is none, or filled, so no slot is taken twice (`RingInv`), and each line
  has one slot, which its thread knows until the line is there (`OrderInv`);
* a slot between the two positions leads to the first unwritten part of its line
  once the line is published, and is empty before (`SlotInv`), the sink is at the
  first part that is not written (`SinkInv`), and `file \o output` is the first
  `d` lines and the `j` parts (`FileInv`);
* each used block holds a run of consecutive parts of one line and leads to the
  block with the next part, or to none only while that part is still to be made
  (`BlockInv`), and no part is in two blocks (`DisjointInv`);
* each thread holds the head and the tail of its line, and a block that it has
  taken and not yet filled is its own (`ThreadInv`).

A block taken between the two steps of its recycling ends the claim: `Racing`
covers the one state in between, until `raced` is set. The invariant was checked
with TLC on the run's instance and a larger one before it was proved. Of
`LogAssumption` it uses, besides the types, only that the ring has more than one
slot (the code has 16384). That there are fewer threads than slots, and that a
block fits into the output (`produce` cuts a call at 16 MB, the size of the
output), is there for the liveness properties. The text of a list of lines is a recursive function, which the proof
shows to be defined and to grow with the list by least counterexample
(`LeastNatural`), the library's induction theorems being out of reach.

`ExitIsComplete`, the safety half of `ExitFlushes`, rests on that invariant and
on two facts about the handshake with the sink. Every line that was logged before
`~Logging` began has a slot (`LoggedInv`), so when the sink finds the ring empty
and its output written, those lines are in the file (`EmptyIsFlushed`); and what
the file holds it keeps (`FlushedStays`). `FlushInv` carries this over the moment
between the sink's last look and its wait: if `~Logging` begins there, it has set
`_threadSync`, and the sink makes another round before it wakes it.

Model-checked only: liveness (`AcceptedTaskRuns`, `ArmedTimerExpires`,
`ConnectEnds`, `QueuedOutputDrains`, `EveryRequestEnds`, `EveryDatagramHandled`,
`OutputDrains`, `LinesReachFile`, `ExitFlushes`), which is beyond the prover;
and `Packets` and `Thrift`, whose operators are recursive, so that what they
compute for every input would take an induction over data.

## 5. Plan

Models still to write: the event loop over several handlers with its set of
removed ones, `Scheduler::start` and `stop`, `SyncFuture`, TCP accept.

## 6. Not modelled

* `Scheduler::start`, `stop` and the synchronous `schedule`: the first two run
  once, beside a vector that is read without a lock, which is undefined; nothing
  in the repository calls the third.
* `SyncFuture`, context switching, stacks and thread-local storage of coroutines.
* Start and stop of listeners and servers, the framework, the blocking
  `UdpSocket`: calls in sequence on one thread.
* `peek`, `trace`, `memset` and JSON in the serializer; file names, rolling and
  formatting in the log; options and addresses in the socket wrapper.
* Conversions (strings, dates, digests, URLs), the binary libraries under `lib/`
  and the example handlers: they hold no state another component depends on.
