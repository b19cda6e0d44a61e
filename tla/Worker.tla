-------------------------------- MODULE Worker --------------------------------
(***************************************************************************)
(* One IO worker and its task queue: MessageQueue and Notifier             *)
(* (core/queue.h, core/queue.cpp) and Worker (core/worker.h,               *)
(* core/worker.cpp), with the threads that call Worker::addTask.           *)
(*                                                                         *)
(* The queue is a deque under a spin lock; the worker sleeps in epoll on   *)
(* the read end of a nonblocking pipe.  A producer writes a byte only when *)
(* the queue was empty or `_notify' is set, so whether an accepted task is *)
(* ever seen rests on where the single pending wake-up currently is.       *)
(***************************************************************************)
EXTENDS Naturals, Sequences, FiniteSets, Functions

CONSTANTS
  Producers,   \* threads, other than this worker's, that schedule tasks
  IoThread,    \* the worker's own thread; a task may schedule another one
  Tasks,       \* task objects; each is scheduled at most once
  NoTask,      \* the absence of a task
  QueueLimit,  \* Worker::_queueLimit
  PipeCap,     \* bytes the pipe can hold
  ReadChunk    \* sizeof(buf) in Notifier::read

Threads == Producers \cup {IoThread}

ASSUME WorkerAssumption ==
  /\ IsFiniteSet(Producers)
  /\ IoThread \notin Producers
  /\ NoTask \notin Tasks
  /\ QueueLimit \in Nat
  /\ PipeCap \in Nat \ {0}
  /\ ReadChunk \in Nat \ {0}

VARIABLES
  queue,   \* MessageQueue::queue_
  force,   \* MessageQueue::_notify
  pipe,    \* bytes in the pipe
  pc,      \* where each thread is inside addTask
  arg,     \* the task each thread is adding
  wpc,     \* where the worker thread is
  batch,   \* `cs' of Worker::onSignals; its head is the task being run
  ran,     \* history: tasks whose run() ended, in order
  freed    \* tasks that were deleted

vars == <<queue, force, pipe, pc, arg, wpc, batch, ran, freed>>

TypeOK ==
  /\ queue \in Seq(Tasks)
  /\ force \in {0, 1}
  /\ pipe \in 0..PipeCap
  /\ pc \in [Threads -> {"idle", "push", "notify"}]
  /\ arg \in [Threads -> Tasks \cup {NoTask}]
  /\ wpc \in {"boot", "poll", "read", "get", "run"}
  /\ batch \in Seq(Tasks)
  /\ ran \in Seq(Tasks)
  /\ freed \subseteq Tasks

-------------------------------------------------------------------------------

\* The spin lock of the queue is held across a step boundary only by a
\* producer that still has to write its byte.
LockFree == \A t \in Threads : pc[t] # "notify"

Fresh(c) ==
  /\ c \notin Range(queue) \cup Range(batch) \cup Range(ran) \cup freed
  /\ \A t \in Threads : arg[t] # c

Init ==
  /\ queue = <<>>
  /\ force = 1
  /\ pipe = 0
  /\ pc = [t \in Threads |-> "idle"]
  /\ arg = [t \in Threads |-> NoTask]
  /\ wpc = "boot"
  /\ batch = <<>>
  /\ ran = <<>>
  /\ freed = {}

-------------------------------------------------------------------------------
(* Producers *)

\* A thread outside addTask may enter it; the worker's own thread does so
\* only from inside a task's run().
MayCall(t) ==
  /\ pc[t] = "idle"
  /\ t = IoThread => wpc = "run"

OverfullOffByOne == Len(queue) > QueueLimit + 1

\* addTask: size() takes and releases the lock; the comparison is with `>'.
Overfull == Len(queue) > QueueLimit

AddTaskAdmit(t, c) ==
  /\ MayCall(t) /\ LockFree /\ Fresh(c)
  /\ ~Overfull
  /\ pc' = [pc EXCEPT ![t] = "push"]
  /\ arg' = [arg EXCEPT ![t] = c]
  /\ UNCHANGED <<queue, force, pipe, wpc, batch, ran, freed>>

\* addTask returns false and its caller, Scheduler::schedule, deletes the task.
AddTaskRefuse(t, c) ==
  /\ MayCall(t) /\ LockFree /\ Fresh(c)
  /\ Overfull
  /\ freed' = freed \cup {c}
  /\ UNCHANGED <<queue, force, pipe, pc, arg, wpc, batch, ran>>

AlwaysNotify == TRUE

\* MessageQueue::push: whether this push must wake the worker.
MustNotify == queue = <<>> \/ force = 1

EnqueueAtFront(c) == <<c>> \o queue

\* queue_.push_back
Enqueue(c) == Append(queue, c)

\* MessageQueue::push up to the write to the pipe.
Push(t) ==
  /\ pc[t] = "push" /\ LockFree
  /\ queue' = Enqueue(arg[t])
  /\ arg' = [arg EXCEPT ![t] = NoTask]
  /\ IF MustNotify
     THEN force' = 0 /\ pc' = [pc EXCEPT ![t] = "notify"]
     ELSE UNCHANGED force /\ pc' = [pc EXCEPT ![t] = "idle"]
  /\ UNCHANGED <<pipe, wpc, batch, ran, freed>>

\* Notifier::notify, then the end of push releases the lock.  A write to a
\* full pipe fails with EAGAIN and is taken for a success.
Notify(t) ==
  /\ pc[t] = "notify"
  /\ pipe' = IF pipe < PipeCap THEN pipe + 1 ELSE pipe
  /\ pc' = [pc EXCEPT ![t] = "idle"]
  /\ UNCHANGED <<queue, force, arg, wpc, batch, ran, freed>>

-------------------------------------------------------------------------------
(* The worker thread *)

ConnectDrainsPipe ==
  /\ wpc = "boot"
  /\ wpc' = "poll"
  /\ pipe' = 0
  /\ UNCHANGED <<queue, force, pc, arg, batch, ran, freed>>

\* Worker::run: the pipe is watched only once the thread runs; tasks may have
\* been queued before.
Connect ==
  /\ wpc = "boot"
  /\ wpc' = "poll"
  /\ UNCHANGED <<queue, force, pipe, pc, arg, batch, ran, freed>>

\* Level-triggered epoll_wait reports the pipe; notify_event calls handle.
EpollWait ==
  /\ wpc = "poll"
  /\ pipe > 0
  /\ wpc' = "read"
  /\ UNCHANGED <<queue, force, pipe, pc, arg, batch, ran, freed>>

\* One ::read of Notifier::read; the loop ends with a short or an empty read.
ReadPipe ==
  /\ wpc = "read"
  /\ IF pipe < ReadChunk
     THEN pipe' = 0 /\ wpc' = "get"
     ELSE pipe' = pipe - ReadChunk /\ UNCHANGED wpc
  /\ UNCHANGED <<queue, force, pc, arg, batch, ran, freed>>

GetCopy ==
  /\ wpc = "get" /\ LockFree
  /\ batch' = queue
  /\ force' = 1
  /\ wpc' = IF queue = <<>> THEN "poll" ELSE "run"
  /\ UNCHANGED <<queue, pipe, pc, arg, ran, freed>>

GetOne ==
  /\ wpc = "get" /\ LockFree
  /\ queue # <<>>
  /\ batch' = <<Head(queue)>>
  /\ queue' = Tail(queue)
  /\ force' = 1
  /\ wpc' = "run"
  /\ UNCHANGED <<pipe, pc, arg, ran, freed>>

\* onSignals: MessageQueue::get swaps the whole queue out under the lock.
Get ==
  /\ wpc = "get" /\ LockFree
  /\ batch' = queue
  /\ queue' = <<>>
  /\ force' = 1
  /\ wpc' = IF queue = <<>> THEN "poll" ELSE "run"
  /\ UNCHANGED <<pipe, pc, arg, ran, freed>>

\* onSignals: run() of the head of the batch ends.  The task is deleted when
\* it returned false or threw, and belongs to someone else when it returned
\* true.
FinishTask(delete) ==
  /\ wpc = "run" /\ pc[IoThread] = "idle"
  /\ ran' = Append(ran, Head(batch))
  /\ batch' = Tail(batch)
  /\ freed' = IF delete THEN freed \cup {Head(batch)} ELSE freed
  /\ wpc' = IF Tail(batch) = <<>> THEN "poll" ELSE "run"
  /\ UNCHANGED <<queue, force, pipe, pc, arg>>

-------------------------------------------------------------------------------

WorkerStep ==
  \/ Connect
  \/ EpollWait
  \/ ReadPipe
  \/ Get
  \/ \E delete \in BOOLEAN : FinishTask(delete)

PushStep(t) == Push(t) \/ Notify(t)

Next ==
  \/ \E t \in Threads, c \in Tasks : AddTaskAdmit(t, c) \/ AddTaskRefuse(t, c)
  \/ \E t \in Threads : PushStep(t)
  \/ WorkerStep

Spec == Init /\ [][Next]_vars

(***************************************************************************)
(* The scheduler runs every thread that can run: a thread inside push ends *)
(* it, the worker thread takes its next step, and every run() returns.     *)
(* Nothing obliges a thread to call addTask.                               *)
(***************************************************************************)
FairSpec ==
  /\ Spec
  /\ \A t \in Threads : WF_vars(PushStep(t))
  /\ WF_vars(WorkerStep)

-------------------------------------------------------------------------------
(* Properties *)

\* The one pending wake-up: kept in `_notify', in the hands of the producer
\* that must write, in the pipe, or taken by the worker on its way to get().
TokenInForce  == force = 1
TokenInHand(t) == pc[t] = "notify"
TokenInPipe   == pipe > 0
TokenInWorker == wpc = "get" \/ (wpc = "read" /\ pipe = 0)

\* No lost wake-up: whenever the queue holds a task, the worker is about to
\* fetch it or something that will wake it is under way (queue.h push/get and
\* Notifier::read happen in any order on several threads).
NoLostWakeup ==
  queue # <<>> =>
    \/ \E t \in Threads : TokenInHand(t)
    \/ TokenInPipe
    \/ TokenInWorker

\* The pipe never holds more than one byte, so the EAGAIN that Notifier::notify
\* ignores never happens on a task queue, whatever the pipe's capacity.
PipeHoldsOneByte == pipe <= 1

\* addTask checks the size and pushes under two different acquisitions of the
\* lock, and compares with `>': the queue may exceed its limit by one task per
\* thread, and never by more.
QueueBound == Len(queue) <= QueueLimit + Cardinality(Threads)

\* A task that some thread, the queue or the batch still refers to has neither
\* been deleted nor run, and only one of them refers to it: onSignals and
\* schedule never delete a task twice and never run a deleted one.
Outstanding == batch \o queue

SingleOwner ==
  /\ IsInjective(Outstanding)
  /\ Range(Outstanding) \cap (freed \cup Range(ran)) = {}
  /\ \A t \in Threads : arg[t] \notin Range(Outstanding) \cup freed \cup Range(ran)
  /\ \A t, u \in Threads : t # u /\ arg[t] # NoTask => arg[t] # arg[u]

\* The worker implements the FIFO of TaskChannel: accepted tasks run once, in
\* the order of push, across the swap of get() and the boot of the thread.
Channel == INSTANCE TaskChannel WITH pending <- Outstanding

ImplementsChannel == Channel!Spec

\* Every task that addTask accepted is eventually run, also one pushed before
\* the thread has connected its pipe or while it is draining it.
AcceptedTaskRuns ==
  \A c \in Tasks : c \in Range(Outstanding) ~> c \in Range(ran)
===============================================================================
