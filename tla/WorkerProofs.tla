----------------------------- MODULE WorkerProofs -----------------------------
(***************************************************************************)
(* Proofs about Worker for every set of producers, every set of tasks and  *)
(* every queue limit, pipe capacity and read size.                         *)
(***************************************************************************)
EXTENDS Worker, FiniteSetTheorems, SequenceTheorems, TLAPS

-------------------------------------------------------------------------------
(* The wake-up token *)

\* Where the worker thread and the producers are, beyond their types: a thread
\* holds a task exactly between the size check and the push, the worker runs
\* exactly while its batch is not empty, and it is inside addTask only then.
Control ==
  /\ \A t \in Threads : pc[t] = "push" <=> arg[t] # NoTask
  /\ wpc = "run" <=> batch # <<>>
  /\ pc[IoThread] # "idle" => wpc = "run"

\* There is exactly one wake-up token, and it is outside `_notify' exactly
\* while the queue holds a task.
WakeToken ==
  /\ force = 1 <=> queue = <<>>
  /\ pipe <= 1
  /\ \A t, u \in Threads : TokenInHand(t) /\ TokenInHand(u) => t = u
  /\ TokenInForce => LockFree /\ ~TokenInPipe /\ ~TokenInWorker
  /\ \A t \in Threads : TokenInHand(t) => ~TokenInPipe /\ ~TokenInWorker
  /\ TokenInPipe => ~TokenInWorker
  /\ ~TokenInForce => (\E t \in Threads : TokenInHand(t)) \/ TokenInPipe \/ TokenInWorker

IInv == TypeOK /\ Control /\ WakeToken

\* The worker before its thread runs satisfies the inductive invariant.
LEMMA InitIInv == Init => IInv
  BY WorkerAssumption
  DEF Init, IInv, TypeOK, Control, WakeToken, TokenInForce, TokenInHand,
      TokenInPipe, TokenInWorker, LockFree, Threads

\* Every step keeps the types of the state.
LEMMA StepType == TypeOK /\ Control /\ [Next]_vars => TypeOK'
<1> SUFFICES ASSUME TypeOK, Control, [Next]_vars PROVE TypeOK'
  OBVIOUS
<1> USE WorkerAssumption DEF TypeOK
<1>1. ASSUME NEW t \in Threads, NEW c \in Tasks, AddTaskAdmit(t, c) PROVE TypeOK'
  BY <1>1 DEF AddTaskAdmit
<1>2. ASSUME NEW t \in Threads, NEW c \in Tasks, AddTaskRefuse(t, c) PROVE TypeOK'
  BY <1>2 DEF AddTaskRefuse
<1>3. ASSUME NEW t \in Threads, Push(t) PROVE TypeOK'
  <2>1. arg[t] \in Tasks
    BY <1>3 DEF Push, Control
  <2>2. queue' \in Seq(Tasks)
    BY <1>3, <2>1 DEF Push, Enqueue
  <2>3. CASE MustNotify
    BY <1>3, <2>2, <2>3 DEF Push
  <2>4. CASE ~MustNotify
    BY <1>3, <2>2, <2>4 DEF Push
  <2> QED
    BY <2>3, <2>4
<1>4. ASSUME NEW t \in Threads, Notify(t) PROVE TypeOK'
  BY <1>4 DEF Notify
<1>5. CASE Connect
  BY <1>5 DEF Connect
<1>6. CASE EpollWait
  BY <1>6 DEF EpollWait
<1>7. CASE ReadPipe
  BY <1>7 DEF ReadPipe
<1>8. CASE Get
  BY <1>8 DEF Get
<1>9. ASSUME NEW d \in BOOLEAN, FinishTask(d) PROVE TypeOK'
  <2>1. batch # <<>>
    BY <1>9 DEF FinishTask, Control
  <2>2. Head(batch) \in Tasks /\ Tail(batch) \in Seq(Tasks)
    BY <2>1
  <2> QED
    BY <1>9, <2>2 DEF FinishTask
<1>10. CASE UNCHANGED vars
  BY <1>10 DEF vars
<1> QED
  BY <1>1, <1>2, <1>3, <1>4, <1>5, <1>6, <1>7, <1>8, <1>9, <1>10
  DEF Next, PushStep, WorkerStep

\* Every step keeps the control facts: what each program counter implies
\* of the lock, the argument and the batch.
LEMMA StepControl == TypeOK /\ Control /\ [Next]_vars => Control'
<1> SUFFICES ASSUME TypeOK, Control, [Next]_vars PROVE Control'
  OBVIOUS
<1> USE WorkerAssumption DEF TypeOK, Control, Threads
<1>1. ASSUME NEW t \in Threads, NEW c \in Tasks, AddTaskAdmit(t, c) PROVE Control'
  BY <1>1 DEF AddTaskAdmit, MayCall
<1>2. ASSUME NEW t \in Threads, NEW c \in Tasks, AddTaskRefuse(t, c) PROVE Control'
  BY <1>2 DEF AddTaskRefuse
<1>3. ASSUME NEW t \in Threads, Push(t) PROVE Control'
  BY <1>3 DEF Push, MustNotify
<1>4. ASSUME NEW t \in Threads, Notify(t) PROVE Control'
  BY <1>4 DEF Notify
<1>5. CASE Connect
  BY <1>5 DEF Connect
<1>6. CASE EpollWait
  BY <1>6 DEF EpollWait
<1>7. CASE ReadPipe
  BY <1>7 DEF ReadPipe
<1>8. CASE Get
  BY <1>8 DEF Get
<1>9. ASSUME NEW d \in BOOLEAN, FinishTask(d) PROVE Control'
  BY <1>9 DEF FinishTask
<1>10. CASE UNCHANGED vars
  BY <1>10 DEF vars
<1> QED
  BY <1>1, <1>2, <1>3, <1>4, <1>5, <1>6, <1>7, <1>8, <1>9, <1>10
  DEF Next, PushStep, WorkerStep

\* Each step passes the token on: from `_notify' to the producer (Push), to the
\* pipe (Notify), to the worker (ReadPipe) and back to `_notify' (Get).
LEMMA StepWakeToken == IInv /\ [Next]_vars => WakeToken'
<1> SUFFICES ASSUME TypeOK, Control, WakeToken, [Next]_vars PROVE WakeToken'
  BY DEF IInv
<1> USE WorkerAssumption
    DEF TypeOK, WakeToken, TokenInForce, TokenInHand, TokenInPipe, TokenInWorker,
        LockFree
<1>1. ASSUME NEW t \in Threads, NEW c \in Tasks, AddTaskAdmit(t, c) PROVE WakeToken'
  BY <1>1 DEF AddTaskAdmit
<1>2. ASSUME NEW t \in Threads, NEW c \in Tasks, AddTaskRefuse(t, c) PROVE WakeToken'
  BY <1>2 DEF AddTaskRefuse
<1>3. ASSUME NEW t \in Threads, Push(t) PROVE WakeToken'
  <2>1. arg[t] \in Tasks
    BY <1>3 DEF Push, Control
  <2>2. queue' # <<>>
    BY <1>3, <2>1 DEF Push, Enqueue
  <2>3. CASE MustNotify
    BY <1>3, <2>2, <2>3 DEF Push, MustNotify
  <2>4. CASE ~MustNotify
    BY <1>3, <2>2, <2>4 DEF Push, MustNotify
  <2> QED
    BY <2>3, <2>4
<1>4. ASSUME NEW t \in Threads, Notify(t) PROVE WakeToken'
  BY <1>4 DEF Notify
<1>5. CASE Connect
  BY <1>5 DEF Connect
<1>6. CASE EpollWait
  BY <1>6 DEF EpollWait
<1>7. CASE ReadPipe
  BY <1>7 DEF ReadPipe
<1>8. CASE Get
  BY <1>8 DEF Get
<1>9. ASSUME NEW d \in BOOLEAN, FinishTask(d) PROVE WakeToken'
  BY <1>9 DEF FinishTask
<1>10. CASE UNCHANGED vars
  BY <1>10 DEF vars
<1> QED
  BY <1>1, <1>2, <1>3, <1>4, <1>5, <1>6, <1>7, <1>8, <1>9, <1>10
  DEF Next, PushStep, WorkerStep

\* The invariant holds in every reachable state.
LEMMA InductiveIInv == Spec => []IInv
<1>1. IInv /\ [Next]_vars => IInv'
  BY StepType, StepControl, StepWakeToken DEF IInv
<1> QED
  BY <1>1, InitIInv, PTL DEF Spec

\* Type correctness of the worker and its queue.
THEOREM TypeCorrect == Spec => []TypeOK
  BY InductiveIInv, PTL DEF IInv

\* push, read and get in any order on any number of threads never lose a
\* wake-up.
THEOREM WakeupNeverLost == Spec => []NoLostWakeup
<1>1. IInv => NoLostWakeup
  BY DEF IInv, WakeToken, NoLostWakeup, TokenInForce
<1> QED
  BY <1>1, InductiveIInv, PTL

\* The pipe of a worker holds at most one byte, so the write in notify never
\* meets a full pipe.
THEOREM PipeNeverFills == Spec => []PipeHoldsOneByte
<1>1. IInv => PipeHoldsOneByte
  BY DEF IInv, WakeToken, PipeHoldsOneByte
<1> QED
  BY <1>1, InductiveIInv, PTL

-------------------------------------------------------------------------------
(* The bound on the queue *)

\* Threads that passed the size check and have not pushed yet.
Admitted == {t \in Threads : pc[t] = "push"}

\* Every admitted thread saw a queue within the limit, so what is queued plus
\* what is about to be pushed stays within one task per thread of it.
AdmittedBound ==
  Len(queue) + Cardinality(Admitted) <= QueueLimit + Cardinality(Threads)

\* The threads that may call addTask are finitely many.
LEMMA FiniteThreads ==
  /\ IsFiniteSet(Threads)
  /\ Cardinality(Threads) \in Nat
  BY WorkerAssumption, FS_AddElement, FS_CardinalityType DEF Threads

\* The threads between the size check and the push are at most all threads.
LEMMA FiniteAdmitted ==
  /\ IsFiniteSet(Admitted)
  /\ Cardinality(Admitted) \in Nat
  /\ Cardinality(Admitted) <= Cardinality(Threads)
<1>1. Admitted \subseteq Threads
  BY DEF Admitted
<1> QED
  BY <1>1, FiniteThreads, FS_Subset, FS_CardinalityType

\* The size check counts on behalf of every thread that has passed it: each
\* step keeps the queue and the pending pushes within the limit.
LEMMA StepAdmittedBound ==
  TypeOK /\ TypeOK' /\ Control /\ AdmittedBound /\ [Next]_vars => AdmittedBound'
<1> SUFFICES ASSUME TypeOK, TypeOK', Control, AdmittedBound, [Next]_vars
             PROVE  AdmittedBound'
  OBVIOUS
<1>0. /\ Len(queue) \in Nat
      /\ Cardinality(Admitted') \in Nat
      /\ Cardinality(Admitted') <= Cardinality(Threads)
  <2>1. Admitted' \subseteq Threads
    BY DEF Admitted
  <2> QED
    BY <2>1, FiniteThreads, FS_Subset, FS_CardinalityType DEF TypeOK
<1> USE FiniteThreads, FiniteAdmitted, WorkerAssumption, <1>0
<1>1. ASSUME NEW t \in Threads, NEW c \in Tasks, AddTaskAdmit(t, c)
      PROVE  AdmittedBound'
  BY <1>1 DEF AddTaskAdmit, Overfull, AdmittedBound
<1>2. ASSUME NEW t \in Threads, Push(t) PROVE AdmittedBound'
  <2>1. Len(queue') = Len(queue) + 1
    BY <1>2 DEF Push, Enqueue, Control, TypeOK
  <2>2. Admitted' = Admitted \ {t} /\ t \in Admitted
    BY <1>2 DEF Push, Admitted, TypeOK
  <2>3. Cardinality(Admitted') = Cardinality(Admitted) - 1
    BY <2>2, FS_RemoveElement
  <2> QED
    BY <2>1, <2>3 DEF AdmittedBound
<1>3. CASE Get
  BY <1>3 DEF Get, AdmittedBound
<1>4. ASSUME UNCHANGED queue, Admitted' = Admitted PROVE AdmittedBound'
  BY <1>4 DEF AdmittedBound
<1>5. ASSUME NEW t \in Threads, Notify(t) PROVE Admitted' = Admitted
  BY <1>5 DEF Notify, Admitted, TypeOK
<1> QED
  BY <1>1, <1>2, <1>3, <1>4, <1>5
  DEF Next, PushStep, WorkerStep, AddTaskRefuse, Notify, Connect, EpollWait,
      ReadPipe, FinishTask, Admitted, vars

\* The check of addTask and its push are two critical sections, and still the
\* queue never exceeds its limit by more than one task per thread.
THEOREM QueueStaysBounded == Spec => []QueueBound
<1>1. Init => AdmittedBound
  <2> SUFFICES ASSUME Init PROVE AdmittedBound
    OBVIOUS
  <2>1. Len(queue) = 0 /\ Admitted = {}
    BY DEF Init, Admitted
  <2> QED
    BY <2>1, FiniteThreads, FS_EmptySet, WorkerAssumption DEF AdmittedBound
<1>2. IInv /\ IInv' /\ AdmittedBound /\ [Next]_vars => AdmittedBound'
  BY StepAdmittedBound DEF IInv
<1>3. IInv /\ AdmittedBound => QueueBound
  BY FiniteThreads, FiniteAdmitted, WorkerAssumption
  DEF IInv, TypeOK, AdmittedBound, QueueBound
<1> QED
  BY <1>1, <1>2, <1>3, InductiveIInv, PTL DEF Spec

-------------------------------------------------------------------------------
(* The FIFO of outstanding tasks *)

\* Appending adds one element to the range of a sequence.
LEMMA RangeOfAppend ==
  ASSUME NEW S, NEW s \in Seq(S), NEW e \in S
  PROVE  Range(Append(s, e)) = Range(s) \cup {e}
<1>1. <<e>> \in Seq(S) /\ Range(<<e>>) = {e}
  BY DEF Range
<1>2. Append(s, e) = s \o <<e>>
  BY AppendIsConcat
<1>3. Range(s \o <<e>>) = Range(s) \cup Range(<<e>>)
  BY <1>1, RangeConcatenation, ZenonT(30)
<1> QED
  BY <1>1, <1>2, <1>3

\* Appending a new element keeps a sequence free of repetitions.
LEMMA InjectiveAppend ==
  ASSUME NEW S, NEW s \in Seq(S), NEW e \in S, IsInjective(s), e \notin Range(s)
  PROVE  IsInjective(Append(s, e))
  BY DEF Range, IsInjective

\* Without repetitions the head of a sequence is not in its tail.
LEMMA TailOfInjective ==
  ASSUME NEW S, NEW s \in Seq(S), s # <<>>, IsInjective(s)
  PROVE  /\ IsInjective(Tail(s))
         /\ Range(Tail(s)) \subseteq Range(s) \ {Head(s)}
         /\ Head(s) \in Range(s)
  BY DEF Range, IsInjective

\* The outstanding tasks are those of the batch and those of the queue.
LEMMA OutstandingType ==
  ASSUME TypeOK
  PROVE  /\ Outstanding \in Seq(Tasks)
         /\ Range(Outstanding) = Range(batch) \cup Range(queue)
  BY ConcatProperties, RangeConcatenation DEF TypeOK, Outstanding

\* What each step does to the outstanding tasks: push appends, a finished
\* run() removes the head, and the swap of get leaves them as they are.
LEMMA PushAppends ==
  ASSUME TypeOK, Control, NEW t \in Threads, Push(t)
  PROVE  arg[t] \in Tasks /\ Outstanding' = Append(Outstanding, arg[t])
<1>1. arg[t] \in Tasks
  BY DEF Push, Control, TypeOK
<1>2. batch \o Append(queue, arg[t]) = Append(batch \o queue, arg[t])
  BY <1>1 DEF TypeOK
<1> QED
  BY <1>1, <1>2 DEF Push, Enqueue, Outstanding

\* The swap of MessageQueue::get loses and reorders nothing.
LEMMA GetKeeps ==
  ASSUME TypeOK, Control, Get
  PROVE  Outstanding' = Outstanding
<1>1. batch = <<>>
  BY DEF Get, Control
<1>2. <<>> \o queue = queue /\ queue \o <<>> = queue
  BY ConcatEmptySeq DEF TypeOK
<1> QED
  BY <1>1, <1>2 DEF Get, Outstanding

\* The end of a run() removes the oldest outstanding task.
LEMMA FinishRemovesHead ==
  ASSUME TypeOK, Control, NEW d \in BOOLEAN, FinishTask(d)
  PROVE  /\ Outstanding # <<>>
         /\ Head(Outstanding) = Head(batch)
         /\ Outstanding' = Tail(Outstanding)
<1>1. batch # <<>>
  BY DEF FinishTask, Control
<1>2. /\ batch \o queue # <<>>
      /\ Head(batch \o queue) = Head(batch)
      /\ Tail(batch) \o queue = Tail(batch \o queue)
  BY <1>1, SMTT(30) DEF TypeOK
<1> QED
  BY <1>2 DEF FinishTask, Outstanding

\* Every step leaves each task with at most one owner.
LEMMA StepSingleOwner == IInv /\ SingleOwner /\ [Next]_vars => SingleOwner'
<1> SUFFICES ASSUME TypeOK, Control, SingleOwner, [Next]_vars PROVE SingleOwner'
  BY DEF IInv
<1> USE WorkerAssumption
<1>1. ASSUME NEW t \in Threads, NEW c \in Tasks, AddTaskAdmit(t, c)
      PROVE  SingleOwner'
  <2>1. UNCHANGED <<Outstanding, ran, freed>>
    BY <1>1 DEF AddTaskAdmit, Outstanding
  <2>2. /\ c \notin Range(Outstanding) \cup freed \cup Range(ran)
        /\ \A u \in Threads : arg[u] # c
    BY <1>1, OutstandingType DEF AddTaskAdmit, Fresh
  <2>3. arg' = [arg EXCEPT ![t] = c]
    BY <1>1 DEF AddTaskAdmit
  <2> QED
    BY <2>1, <2>2, <2>3 DEF SingleOwner, TypeOK
<1>2. ASSUME NEW t \in Threads, NEW c \in Tasks, AddTaskRefuse(t, c)
      PROVE  SingleOwner'
  <2>1. UNCHANGED <<Outstanding, ran, arg>>
    BY <1>2 DEF AddTaskRefuse, Outstanding
  <2>2. /\ c \notin Range(Outstanding)
        /\ \A u \in Threads : arg[u] # c
    BY <1>2, OutstandingType DEF AddTaskRefuse, Fresh
  <2>3. freed' = freed \cup {c}
    BY <1>2 DEF AddTaskRefuse
  <2> QED
    BY <2>1, <2>2, <2>3 DEF SingleOwner
<1>3. ASSUME NEW t \in Threads, Push(t) PROVE SingleOwner'
  <2>1. arg[t] \in Tasks /\ Outstanding' = Append(Outstanding, arg[t])
    BY <1>3, PushAppends
  <2>2. arg[t] \notin Range(Outstanding) \cup freed \cup Range(ran)
    BY DEF SingleOwner
  <2>3. IsInjective(Outstanding')
    BY <2>1, <2>2, OutstandingType, InjectiveAppend DEF SingleOwner
  <2>4. Range(Outstanding') = Range(Outstanding) \cup {arg[t]}
    BY <2>1, OutstandingType, RangeOfAppend
  <2>5. UNCHANGED <<ran, freed>> /\ arg' = [arg EXCEPT ![t] = NoTask]
    BY <1>3 DEF Push
  <2>6. NoTask \notin Range(Outstanding') \cup freed \cup Range(ran)
    BY <2>1, <2>4, OutstandingType, RangeOfSeq DEF TypeOK
  <2> QED
    BY <2>1, <2>2, <2>3, <2>4, <2>5, <2>6 DEF SingleOwner, TypeOK
<1>4. CASE Get
  <2>1. UNCHANGED <<Outstanding, ran, freed, arg>>
    BY <1>4, GetKeeps DEF Get
  <2> QED
    BY <2>1 DEF SingleOwner
<1>5. ASSUME NEW d \in BOOLEAN, FinishTask(d) PROVE SingleOwner'
  <2> DEFINE c == Head(Outstanding)
  <2>1. Outstanding # <<>> /\ c = Head(batch) /\ Outstanding' = Tail(Outstanding)
    BY <1>5, FinishRemovesHead
  <2>2. /\ IsInjective(Outstanding')
        /\ Range(Outstanding') \subseteq Range(Outstanding) \ {c}
        /\ c \in Range(Outstanding)
    BY <2>1, OutstandingType, TailOfInjective DEF SingleOwner
  <2>3. Range(ran') = Range(ran) \cup {c}
    <3>1. c \in Tasks
      BY <2>2, OutstandingType, RangeOfSeq
    <3> QED
      BY <3>1, <2>1, <1>5, RangeOfAppend DEF FinishTask, TypeOK
  <2>4. freed' \subseteq freed \cup {c} /\ UNCHANGED arg
    BY <1>5, <2>1 DEF FinishTask
  <2> HIDE DEF c
  <2> QED
    BY <2>2, <2>3, <2>4 DEF SingleOwner
<1>6. ASSUME UNCHANGED <<Outstanding, ran, freed, arg>> PROVE SingleOwner'
  BY <1>6 DEF SingleOwner
<1> QED
  BY <1>1, <1>2, <1>3, <1>4, <1>5, <1>6
  DEF Next, PushStep, WorkerStep, Notify, Connect, EpollWait, ReadPipe, vars,
      Outstanding

\* No task has an owner at first.
LEMMA InitSingleOwner == Init => SingleOwner
<1> SUFFICES ASSUME Init PROVE SingleOwner
  OBVIOUS
<1>1. Outstanding = <<>>
  BY ConcatEmptySeq DEF Init, Outstanding
<1> QED
  BY <1>1 DEF Init, SingleOwner, IsInjective, Range, Threads

\* A task is never run twice, never deleted twice and never used after its
\* deletion.
THEOREM TasksHaveOneOwner == Spec => []SingleOwner
  BY InitSingleOwner, StepSingleOwner, InductiveIInv, PTL DEF Spec

\* The queue, its pipe and onSignals implement a FIFO of tasks for any number
\* of producers.
THEOREM WorkerIsChannel == Spec => ImplementsChannel
<1>1. Init => Channel!Init
  BY ConcatEmptySeq DEF Init, Channel!Init, Outstanding
<1>2. IInv /\ SingleOwner /\ [Next]_vars => [Channel!Next]_(Channel!chanVars)
  <2> SUFFICES ASSUME TypeOK, Control, SingleOwner, [Next]_vars
               PROVE  [Channel!Next]_(Channel!chanVars)
    BY DEF IInv
  <2>0. Channel!Range(Outstanding) = Range(Outstanding) /\ Channel!Range(ran) = Range(ran)
    BY DEF Range, Channel!Range
  <2>1. ASSUME NEW t \in Threads, NEW c \in Tasks, AddTaskRefuse(t, c)
        PROVE  Channel!Refuse(c)
    <3>1. UNCHANGED Outstanding
      BY <2>1 DEF AddTaskRefuse, Outstanding
    <3> QED
      BY <2>0, <2>1, <3>1, OutstandingType
      DEF AddTaskRefuse, Fresh, Channel!Refuse, Channel!Fresh
  <2>2. ASSUME NEW t \in Threads, Push(t) PROVE Channel!Accept(arg[t]) /\ arg[t] \in Tasks
    BY <2>0, <2>2, PushAppends DEF Push, SingleOwner, Channel!Accept, Channel!Fresh
  <2>3. ASSUME NEW d \in BOOLEAN, FinishTask(d) PROVE Channel!Finish
    BY <2>3, FinishRemovesHead DEF FinishTask, Channel!Finish
  <2>4. ASSUME UNCHANGED <<Outstanding, ran, freed>>
        PROVE  UNCHANGED Channel!chanVars
    BY <2>4 DEF Channel!chanVars
  <2>5. CASE Get
    BY <2>4, <2>5, GetKeeps DEF Get
  <2> QED
    BY <2>1, <2>2, <2>3, <2>4, <2>5
    DEF Next, PushStep, WorkerStep, AddTaskAdmit, Notify, Connect, EpollWait,
        ReadPipe, vars, Outstanding, Channel!Next
<1> QED
  BY <1>1, <1>2, InductiveIInv, TasksHaveOneOwner, PTL
  DEF Spec, ImplementsChannel, Channel!Spec
===============================================================================
