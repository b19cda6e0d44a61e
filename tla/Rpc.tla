--------------------------------- MODULE Rpc ---------------------------------
(***************************************************************************)
(* Requests on one connection: Interface (core/interface.h), the futures   *)
(* they wait on (core/future.h, core/future.cpp), the table of futures in  *)
(* Connection (core/connection.h) and the coroutines of the IO thread that *)
(* may wait for them (core/coroutine.h).                                   *)
(*                                                                         *)
(* The connection lives on one IO worker.  Tasks, timers, replies and the  *)
(* steps of coroutines all run on that thread, one at a time; the other    *)
(* callers are threads.  A coroutine that is resumed runs until it yields  *)
(* or ends before the thread does anything else.                           *)
(***************************************************************************)
EXTENDS Integers, Sequences, FiniteSets, Functions

CONSTANTS
    Requests,   \* one call of an Interface method each
    Kind,       \* the method of each request
    Waiter,     \* who makes it: "thread" or "coroutine" (on the IO thread)
    Sn,         \* the sequence number of each request
    None        \* no request

Kinds == {"call", "async_call", "oneway", "get", "async_get", "close", "async_close"}

ASSUME RpcAssumption ==
    /\ IsFiniteSet(Requests) /\ None \notin Requests
    /\ Kind \in [Requests -> Kinds]
    /\ Waiter \in [Requests -> {"thread", "coroutine"}]
    /\ Sn \in [Requests -> Nat]

(* Interface methods that wait for their future, and the ones that have a  *)
(* future at all.                                                          *)
Waits(r) == Kind[r] \in {"call", "get", "close"}

HasFuture(r) == Waits(r) \/ Kind[r] = "async_call"

VARIABLES
    pc,        \* of the caller: new, queued, returned, or refused
    queue,     \* tasks of these requests in the worker, oldest first
    conn,      \* open; closed (removed from Manager, still referenced); clearing; gone
    after,     \* the Closer that continues when the destructor is through
    table,     \* Connection::_futures, the request filed under each number
    timer,     \* requests whose SimpleTimer is armed
    wire,      \* requests that reached the peer
    ends,      \* how often IFuture::done ran
    ready,     \* futures whose Cond has status ready
    stat,      \* Coroutine::_stat of the caller, when it is a coroutine
    nap,       \* whether the coroutine has slept in msleep
    running,   \* Coroutine::_running of the IO thread
    kept,      \* history: the connection was closed while referenced
    broken     \* history: requests whose user function threw

vars == <<pc, queue, conn, after, table, timer, wire, ends, ready,
          stat, nap, running, kept, broken>>

Coroutines == <<stat, running>>

(* What the end of a future changes.                                       *)
Ending == <<ends, timer, ready, stat, running>>

Numbers == {Sn[r] : r \in Requests}

Filed == {table[n] : n \in Numbers} \ {None}

Init ==
    /\ pc = [r \in Requests |-> "new"]
    /\ queue = <<>> /\ conn = "open" /\ after = None
    /\ table = [n \in Numbers |-> None]
    /\ timer = {} /\ wire = {}
    /\ ends = [r \in Requests |-> 0]
    /\ ready = {}
    /\ stat = [r \in Requests |-> "SUSPENDED"]
    /\ nap = [r \in Requests |-> "no"]
    /\ running = None /\ kept = FALSE /\ broken = {}

-----------------------------------------------------------------------------
(* The caller's side.                                                      *)

(* A coroutine of the IO thread runs when it was resumed, a thread always. *)
MayRun(r) == Waiter[r] = "coroutine" => running = r

(* Future::wait and AsyncFuture::setup: the task goes to the worker.  A    *)
(* waiting coroutine yields at once: nothing of the IO thread comes in     *)
(* between.                                                                *)
Accepted(r) ==
    /\ queue' = Append(queue, r)
    /\ IF Waits(r)
       THEN /\ pc' = [pc EXCEPT ![r] = "queued"]
            /\ IF Waiter[r] = "coroutine"
               THEN stat' = [stat EXCEPT ![r] = "NORMAL"] /\ running' = None
               ELSE UNCHANGED Coroutines
       ELSE pc' = [pc EXCEPT ![r] = "returned"] /\ UNCHANGED Coroutines

(* The queue is shared with everything else on the worker, so it may be    *)
(* full at any time: wait throws WORKER_QUEUE_FULL, the others return      *)
(* false, and the task is deleted.                                         *)
Refused(r) ==
    /\ pc' = [pc EXCEPT ![r] = "refused"]
    /\ UNCHANGED <<queue, stat, running>>

Schedule(r) ==
    /\ pc[r] = "new" /\ MayRun(r)
    /\ Accepted(r) \/ Refused(r)
    /\ UNCHANGED <<conn, after, table, timer, wire, ends, ready, nap, kept, broken>>

(* ConditionWrapper::yield lets the thread through when the status is      *)
(* ready; a coroutine comes back because it was resumed.                   *)
Return(r) ==
    /\ pc[r] = "queued" /\ MayRun(r)
    /\ r \in ready
    /\ pc' = [pc EXCEPT ![r] = "returned"]
    /\ UNCHANGED <<queue, conn, after, table, timer, wire, ends, ready,
                   stat, nap, running, kept, broken>>

-----------------------------------------------------------------------------
(* Coroutines.                                                             *)

(* The IO thread is in its loop, in no coroutine and in no destructor.     *)
Idle == running = None /\ conn # "clearing"

Resume(c) == stat' = [stat EXCEPT ![c] = "RUNNING"] /\ running' = c

(* `go': create and resume.                                                *)
Start(c) ==
    /\ Waiter[c] = "coroutine" /\ Idle /\ stat[c] = "SUSPENDED"
    /\ Resume(c)
    /\ UNCHANGED <<pc, queue, conn, after, table, timer, wire, ends, ready,
                   nap, kept, broken>>

Sleep(c) ==
    /\ running = c /\ pc[c] \in {"returned", "refused"} /\ nap[c] = "no"
    /\ nap' = [nap EXCEPT ![c] = "asleep"]
    /\ stat' = [stat EXCEPT ![c] = "NORMAL"] /\ running' = None
    /\ UNCHANGED <<pc, queue, conn, after, table, timer, wire, ends, ready,
                   kept, broken>>

Wake(c) ==
    /\ Idle /\ nap[c] = "asleep"
    /\ nap' = [nap EXCEPT ![c] = "over"]
    /\ Resume(c)
    /\ UNCHANGED <<pc, queue, conn, after, table, timer, wire, ends, ready,
                   kept, broken>>

(* _proc returns and the thread is back in its main context.               *)
Die(c) ==
    /\ running = c /\ pc[c] \in {"returned", "refused"}
    /\ stat' = [stat EXCEPT ![c] = "DEAD"] /\ running' = None
    /\ UNCHANGED <<pc, queue, conn, after, table, timer, wire, ends, ready,
                   nap, kept, broken>>

-----------------------------------------------------------------------------
(* The end of a future: set_value and set_exception, then done.            *)

(* CoroutineWrapper::resume switches to the coroutine; a second resume of  *)
(* either wrapper does nothing.                                            *)
Woken(r) ==
    IF Waits(r) /\ Waiter[r] = "coroutine" /\ r \notin ready
    THEN Resume(r) ELSE UNCHANGED Coroutines

(* Mutant: done leaves the timer as it is.                                 *)
EndKeepsTimer(r) ==
    /\ ends' = [ends EXCEPT ![r] = @ + 1]
    /\ timer' = timer
    /\ ready' = ready \cup {r}
    /\ Woken(r)

(* set_exception tests whether the promise is done in a statement of its   *)
(* own, so it ends a future that has ended before once more.               *)
End(r) ==
    /\ ends' = [ends EXCEPT ![r] = @ + 1]
    /\ timer' = timer \ {r}
    /\ ready' = ready \cup {r}
    /\ Woken(r)

EndIfFuture(r) ==
    IF HasFuture(r) THEN End(r) ELSE UNCHANGED Ending

Done(r) == ends[r] > 0

-----------------------------------------------------------------------------
(* Tasks on the IO thread.                                                 *)

Runs(r) ==
    /\ Idle /\ queue # <<>> /\ Head(queue) = r
    /\ queue' = Tail(queue)

Transports(r) == Kind[r] \in {"call", "async_call", "oneway"}

(* Transport::execute up to the send: no time left (IO_BUSY), no           *)
(* connection (CONNECTION_CLOSED), a request that does not serialize       *)
(* (PROTOCOL_ERROR), a send that throws.  run() catches them all.          *)
TransportFails(r) ==
    /\ Transports(r) /\ Runs(r)
    /\ EndIfFuture(r)
    /\ UNCHANGED <<pc, conn, after, table, wire, nap, kept, broken>>

(* Mutant: a future that is filed under the same number is forgotten.      *)
PushForgets(r) ==
    /\ table' = [table EXCEPT ![Sn[r]] = r]
    /\ timer' = (timer \ {table[Sn[r]]}) \cup {r}
    /\ UNCHANGED <<ends, ready, stat, running>>

(* The request is out, the timer runs, and Connection::push files the      *)
(* future.  One that is filed under the same number ends first.  What its  *)
(* waiter does then, if it is a coroutine, cannot see the table.           *)
Push(r) ==
    LET old == table[Sn[r]]
    IN  /\ table' = [table EXCEPT ![Sn[r]] = r]
        /\ IF old = None
           THEN timer' = timer \cup {r} /\ UNCHANGED <<ends, ready, stat, running>>
           ELSE /\ ends' = [ends EXCEPT ![old] = @ + 1]
                /\ timer' = (timer \ {old}) \cup {r}
                /\ ready' = ready \cup {old}
                /\ Woken(old)

TransportSends(r) ==
    /\ Transports(r) /\ conn = "open" /\ Runs(r)
    /\ wire' = wire \cup {r}
    /\ IF HasFuture(r) THEN Push(r)
       ELSE UNCHANGED <<table, ends, timer, ready, stat, running>>
    /\ UNCHANGED <<pc, conn, after, nap, kept, broken>>

(* Executor::run calls the user's function with the connection or with 0.  *)
(* There is no timer, and a function that throws leaves the future as it   *)
(* is.                                                                     *)
Execute(r) ==
    /\ Kind[r] \in {"get", "async_get"} /\ Runs(r)
    /\ \/ EndIfFuture(r) /\ broken' = broken
       \/ broken' = broken \cup {r} /\ UNCHANGED Ending
    /\ UNCHANGED <<pc, conn, after, table, wire, nap, kept>>

(* Closing removes the connection from Manager.  If nobody else holds a    *)
(* reference its destructor runs at once, and clear() with it.             *)
Close(held) ==
    /\ conn' = IF held THEN "closed" ELSE "clearing"
    /\ kept' = (kept \/ held)

RunCloser(r) ==
    /\ Kind[r] \in {"close", "async_close"} /\ Runs(r)
    /\ \/ /\ conn # "open"
          /\ EndIfFuture(r)
          /\ UNCHANGED <<conn, kept, after>>
       \/ /\ conn = "open"
          /\ \/ /\ Close(TRUE)
                /\ EndIfFuture(r) /\ after' = after
             \/ /\ Close(FALSE) /\ after' = r
                /\ UNCHANGED Ending
    /\ UNCHANGED <<pc, table, wire, nap, broken>>

(* The peer, a keepalive timeout or a handler closes the connection.       *)
LinkCloses ==
    /\ Idle /\ conn = "open"
    /\ \E held \in BOOLEAN : Close(held)
    /\ UNCHANGED <<pc, queue, after, table, timer, wire, ends, ready,
                   stat, nap, running, broken>>

(* The last reference to a closed connection goes.                         *)
Release ==
    /\ Idle /\ conn = "closed"
    /\ conn' = "clearing"
    /\ UNCHANGED <<pc, queue, after, table, timer, wire, ends, ready,
                   stat, nap, running, kept, broken>>

(* Connection::clear, one future per step; the map is ordered by number.   *)
ClearOne(n) ==
    /\ conn = "clearing" /\ running = None
    /\ table[n] # None /\ \A m \in Numbers : m < n => table[m] = None
    /\ End(table[n])
    /\ table' = [table EXCEPT ![n] = None]
    /\ UNCHANGED <<pc, queue, conn, after, wire, nap, kept, broken>>

Cleared ==
    /\ conn = "clearing" /\ running = None /\ Filed = {}
    /\ conn' = "gone" /\ after' = None
    /\ IF after = None THEN UNCHANGED Ending
       ELSE EndIfFuture(after)
    /\ UNCHANGED <<pc, queue, table, wire, nap, kept, broken>>

(* Mutant: a request that timed out stays filed.                           *)
TimeoutStaysFiled(r) ==
    /\ Idle /\ r \in timer
    /\ End(r)
    /\ UNCHANGED <<pc, queue, conn, after, table, wire, nap, kept, broken>>

(* Future::timeout and AsyncFuture::timeout: the entry goes only when      *)
(* Manager still knows the connection.                                     *)
Timeout(r) ==
    /\ Idle /\ r \in timer
    /\ table' = IF conn = "open" THEN [table EXCEPT ![Sn[r]] = None] ELSE table
    /\ End(r)
    /\ UNCHANGED <<pc, queue, conn, after, wire, nap, kept, broken>>

(* A reply to r, or a copy of it, arrives: the handler pops the future     *)
(* under its number, if there is one, and sets its value.                  *)
Reply(r) ==
    LET f == table[Sn[r]]
    IN  /\ Idle /\ conn = "open" /\ r \in wire /\ f # None
        /\ table' = [table EXCEPT ![Sn[r]] = None]
        /\ IF Done(f) THEN UNCHANGED Ending
           ELSE End(f)
        /\ UNCHANGED <<pc, queue, conn, after, wire, nap, kept, broken>>

-----------------------------------------------------------------------------
Caller(r) == Schedule(r) \/ Return(r)

Routine(r) == Start(r) \/ Sleep(r) \/ Wake(r) \/ Die(r)

Task(r) == TransportFails(r) \/ TransportSends(r) \/ Execute(r) \/ RunCloser(r)

Destructor == Cleared \/ \E n \in Numbers : ClearOne(n)

Next ==
    \/ \E r \in Requests :
         Caller(r) \/ Routine(r) \/ Task(r) \/ Timeout(r) \/ Reply(r)
    \/ LinkCloses \/ Release \/ Destructor

(* What the threads do without anybody's help: the worker's loop takes its *)
(* tasks and fires its timers, a resumed coroutine goes on, a destructor   *)
(* ends, a woken thread returns.  Nothing makes a peer reply, a link close *)
(* or a reference go.                                                      *)
Progress ==
    \/ Destructor
    \/ \E r \in Requests :
         \/ Return(r) \/ Task(r) \/ Timeout(r) \/ Wake(r) \/ Die(r)
         \/ Waiter[r] = "coroutine" /\ Schedule(r)

(* Each request is made once and every step uses something up, so weak     *)
(* fairness of the whole is enough.                                        *)
Fairness == WF_vars(Progress)

Spec == Init /\ [][Next]_vars /\ Fairness

-----------------------------------------------------------------------------
(* Properties.                                                             *)

(* Types; and the IO thread is in at most one coroutine, the one whose     *)
(* state says so.                                                          *)
TypeOK ==
    /\ pc \in [Requests -> {"new", "queued", "returned", "refused"}]
    /\ queue \in Seq(Requests)
    /\ conn \in {"open", "closed", "clearing", "gone"}
    /\ after \in Requests \cup {None}
    /\ table \in [Numbers -> Requests \cup {None}]
    /\ timer \subseteq Requests /\ wire \subseteq Requests
    /\ ends \in [Requests -> Nat]
    /\ ready \subseteq Requests /\ broken \subseteq Requests
    /\ stat \in [Requests -> {"SUSPENDED", "RUNNING", "NORMAL", "DEAD"}]
    /\ nap \in [Requests -> {"no", "asleep", "over"}]
    /\ \A r \in Requests : stat[r] = "RUNNING" <=> running = r
    /\ running \in Requests \cup {None}
    /\ kept \in BOOLEAN

(* However reply, timeout, repeated number and the end of the connection   *)
(* race, a request ends once: done runs once, so the callback of an        *)
(* async_call runs once.  It takes a connection that was closed while the  *)
(* application held it to break this.                                      *)
EndsOnce == ~kept => \A r \in Requests : ends[r] <= 1

(* Between the send and its end a request is filed under its number and    *)
(* its timer runs, so that a reply, the timer or the destructor will find  *)
(* it; a timer runs for no other request, and the table holds no other.    *)
PendingIsFiled ==
    \A r \in Requests :
       LET pending == r \in wire /\ HasFuture(r) /\ ends[r] = 0
       IN  /\ pending <=> r \in timer
           /\ pending => r \in Filed
           /\ ~kept /\ r \in Filed => pending

(* A request that was accepted is never forgotten: until it ends, its task *)
(* is in the queue, its timer runs, or the destructor will come to it; and *)
(* when it has ended, a caller that still waits is free to go on: a thread *)
(* finds the status ready, a coroutine has been switched to.  Only a       *)
(* function that throws in get loses its request.                          *)
NobodyForgotten ==
    \A r \in Requests \ broken :
       HasFuture(r) /\ pc[r] \in {"queued", "returned"} =>
         \/ ends[r] = 0 /\ (r \in Range(queue) \/ r \in timer \/ r = after)
         \/ ends[r] > 0 /\ (pc[r] = "queued" => r \in ready /\ MayRun(r))

(* Whatever the peer and the link do, a method that waits returns, and an  *)
(* async_call that was accepted has its callback run; only a function that *)
(* throws in get keeps its caller for ever.  (Each request is made once,   *)
(* so this is the same as one leads-to for each of them.)                  *)
EveryRequestEnds ==
    <>[](\A r \in Requests \ broken :
           /\ pc[r] # "queued"
           /\ Kind[r] = "async_call" /\ pc[r] = "returned" => ends[r] > 0)
=============================================================================
