------------------------------ MODULE RpcProofs ------------------------------
(***************************************************************************)
(* Proofs about Rpc for every set of requests, whatever their kinds, their *)
(* callers and their sequence numbers: a request that is out is within     *)
(* reach of its end, and it ends once.                                     *)
(***************************************************************************)
EXTENDS Rpc, TLAPS

-----------------------------------------------------------------------------
(* The worker's queue.                                                     *)

Queued == Range(queue)

\* Taking the head of a queue without repetitions removes just that element.
LEMMA Dequeue ==
  ASSUME NEW S, NEW s \in Seq(S), s # <<>>, IsInjective(s)
  PROVE  /\ Head(s) \in S /\ Head(s) \in Range(s)
         /\ Tail(s) \in Seq(S) /\ IsInjective(Tail(s))
         /\ Range(Tail(s)) = Range(s) \ {Head(s)}
<1>1. /\ Len(s) \in Nat \ {0} /\ DOMAIN s = 1..Len(s)
      /\ Head(s) = s[1] /\ s[1] \in S
  OBVIOUS
<1>2. /\ Tail(s) \in Seq(S) /\ DOMAIN Tail(s) = 1..(Len(s) - 1)
      /\ \A i \in 1..(Len(s) - 1) : Tail(s)[i] = s[i + 1]
  OBVIOUS
<1>3. IsInjective(Tail(s))
  BY <1>1, <1>2 DEF IsInjective
<1>4. Range(Tail(s)) = Range(s) \ {Head(s)}
  <2>1. ASSUME NEW x \in Range(Tail(s)) PROVE x \in Range(s) \ {Head(s)}
    <3>1. PICK i \in 1..(Len(s) - 1) : x = s[i + 1]
      BY <2>1, <1>2 DEF Range
    <3> QED
      BY <3>1, <1>1 DEF Range, IsInjective
  <2>2. ASSUME NEW x \in Range(s) \ {Head(s)} PROVE x \in Range(Tail(s))
    <3>1. PICK i \in 1..Len(s) : x = s[i]
      BY <2>2, <1>1 DEF Range
    <3>2. i # 1
      BY <3>1, <2>2, <1>1
    <3>3. i - 1 \in 1..(Len(s) - 1) /\ (i - 1) + 1 = i
      BY <3>2, <1>1
    <3>4. Tail(s)[i - 1] = x
      BY <3>1, <3>3, <1>2
    <3> QED
      BY <3>3, <3>4, <1>2 DEF Range
  <2> QED
    BY <2>1, <2>2
<1> QED
  BY <1>1, <1>2, <1>3, <1>4 DEF Range

\* Appending a new element to a queue without repetitions adds just that element.
LEMMA Enqueue ==
  ASSUME NEW S, NEW s \in Seq(S), NEW x \in S, x \notin Range(s), IsInjective(s)
  PROVE  /\ Append(s, x) \in Seq(S) /\ IsInjective(Append(s, x))
         /\ Range(Append(s, x)) = Range(s) \cup {x}
<1>1. Len(s) \in Nat /\ DOMAIN s = 1..Len(s)
  OBVIOUS
<1>2. /\ Append(s, x) \in Seq(S) /\ DOMAIN Append(s, x) = 1..(Len(s) + 1)
      /\ \A i \in 1..Len(s) : Append(s, x)[i] = s[i]
      /\ Append(s, x)[Len(s) + 1] = x
  OBVIOUS
<1>3. \A i \in 1..Len(s) : s[i] # x
  BY <1>1 DEF Range
<1>4. 1..(Len(s) + 1) = 1..Len(s) \cup {Len(s) + 1}
  BY <1>1
<1>5. IsInjective(Append(s, x))
  BY <1>1, <1>2, <1>3, <1>4 DEF IsInjective
<1>6. Range(Append(s, x)) = Range(s) \cup {x}
  BY <1>1, <1>2, <1>4 DEF Range
<1> QED
  BY <1>2, <1>5, <1>6

-----------------------------------------------------------------------------
(* The inductive invariant.                                                *)

(* Not yet sent and not yet failed: the request has not reached the IO     *)
(* thread.                                                                 *)
Unborn(r) == pc[r] \in {"new", "refused"} \/ r \in Queued

(* A task is queued once, and only for a request that was accepted; until  *)
(* the IO thread takes it nothing of it is out and it has not ended.       *)
QueueInv ==
    /\ IsInjective(queue)
    /\ \A r \in Requests : r \in Queued => pc[r] \in {"queued", "returned"}
    /\ \A r \in Requests : Unborn(r) => r \notin wire /\ ends[r] = 0 /\ r # after

(* Only requests that were sent are filed, each under its own number.      *)
TableInv ==
    /\ \A r \in wire : Transports(r)
    /\ \A n \in Numbers :
         table[n] # None => /\ table[n] \in wire /\ HasFuture(table[n])
                            /\ Sn[table[n]] = n

(* A connection is closed and still there only while the application holds *)
(* it; when it is gone nothing is filed.  A Closer waits only for the end  *)
(* of the destructor.                                                      *)
ConnInv ==
    /\ kept => conn # "open"
    /\ conn = "closed" => kept
    /\ conn = "gone" => \A n \in Numbers : table[n] = None
    /\ after # None => /\ conn = "clearing" /\ ends[after] = 0
                       /\ ~Transports(after)

Pending(r) == r \in wire /\ HasFuture(r) /\ ends[r] = 0

(* PendingIsFiled with the place in the table said.                        *)
PendingInv ==
    \A r \in Requests :
       /\ Pending(r) <=> r \in timer
       /\ Pending(r) => table[Sn[r]] = r
       /\ ~kept /\ table[Sn[r]] = r => Pending(r)

Inv == TypeOK /\ QueueInv /\ TableInv /\ ConnInv /\ PendingInv /\ EndsOnce

-----------------------------------------------------------------------------
(* Types.                                                                  *)

(* The part of TypeOK that the end of a future touches.                    *)
EndTypes ==
    /\ ends \in [Requests -> Nat]
    /\ timer \subseteq Requests /\ ready \subseteq Requests
    /\ stat \in [Requests -> {"SUSPENDED", "RUNNING", "NORMAL", "DEAD"}]
    /\ running \in Requests \cup {None}
    /\ \A r \in Requests : stat[r] = "RUNNING" <=> running = r

\* Resuming a coroutine while none runs leaves exactly that one running.
LEMMA ResumeTypes ==
  ASSUME TypeOK, NEW r \in Requests, running = None, Resume(r)
  PROVE  /\ stat' \in [Requests -> {"SUSPENDED", "RUNNING", "NORMAL", "DEAD"}]
         /\ running' \in Requests \cup {None}
         /\ \A q \in Requests : stat'[q] = "RUNNING" <=> running' = q
BY RpcAssumption DEF TypeOK, Resume

\* A future that ends leaves its counts, its timer and the coroutines well typed.
LEMMA EndType ==
  ASSUME TypeOK, NEW r \in Requests, running = None, End(r)
  PROVE  EndTypes'
<1>1. /\ ends' \in [Requests -> Nat]
      /\ timer' \subseteq Requests /\ ready' \subseteq Requests
  BY DEF TypeOK, End
<1>2. CASE Waits(r) /\ Waiter[r] = "coroutine" /\ r \notin ready
  BY <1>1, <1>2, ResumeTypes DEF End, Woken, EndTypes
<1>3. CASE ~(Waits(r) /\ Waiter[r] = "coroutine" /\ r \notin ready)
  BY <1>1, <1>3 DEF End, Woken, EndTypes, TypeOK, Coroutines
<1> QED
  BY <1>2, <1>3

\* Ending a request, if it has a future, keeps the types.
LEMMA EndIfFutureType ==
  ASSUME TypeOK, NEW r \in Requests, running = None, EndIfFuture(r)
  PROVE  EndTypes'
<1>1. CASE HasFuture(r)
  BY <1>1, EndType DEF EndIfFuture
<1>2. CASE ~HasFuture(r)
  BY <1>2 DEF EndIfFuture, Ending, EndTypes, TypeOK
<1> QED
  BY <1>1, <1>2

\* Filing a request ends at most the one that was filed under its number.
LEMMA PushType ==
  ASSUME TypeOK, NEW r \in Requests, running = None, Push(r)
  PROVE  EndTypes' /\ table' \in [Numbers -> Requests \cup {None}]
<1> DEFINE old == table[Sn[r]]
<1>1. Sn[r] \in Numbers /\ old \in Requests \cup {None}
  BY DEF TypeOK, Numbers
<1>2. table' \in [Numbers -> Requests \cup {None}]
  BY <1>1 DEF TypeOK, Push
<1>3. CASE old = None
  BY <1>2, <1>3 DEF TypeOK, Push, EndTypes
<1>4. CASE old # None
  <2>1. /\ old \in Requests
        /\ ends' = [ends EXCEPT ![old] = @ + 1]
        /\ timer' = (timer \ {old}) \cup {r}
        /\ ready' = ready \cup {old}
        /\ Woken(old)
    BY <1>1, <1>4 DEF Push
  <2>2. /\ ends' \in [Requests -> Nat]
        /\ timer' \subseteq Requests /\ ready' \subseteq Requests
    BY <2>1 DEF TypeOK
  <2>3. CASE Waits(old) /\ Waiter[old] = "coroutine" /\ old \notin ready
    BY <1>2, <2>1, <2>2, <2>3, ResumeTypes DEF Woken, EndTypes
  <2>4. CASE ~(Waits(old) /\ Waiter[old] = "coroutine" /\ old \notin ready)
    BY <1>2, <2>1, <2>2, <2>4 DEF Woken, EndTypes, TypeOK, Coroutines
  <2> QED
    BY <2>3, <2>4
<1> QED
  BY <1>3, <1>4

\* What is left of the queue when the worker takes a task is a queue.
LEMMA RunsType ==
  ASSUME TypeOK, NEW r \in Requests, Runs(r) PROVE queue' \in Seq(Requests)
BY DEF TypeOK, Runs

\* Every step keeps the types.
LEMMA TypeStep == TypeOK /\ [Next]_vars => TypeOK'
<1> SUFFICES ASSUME TypeOK, [Next]_vars PROVE TypeOK'
  OBVIOUS
<1> USE RpcAssumption
<1>1. ASSUME NEW r \in Requests, Schedule(r) PROVE TypeOK'
  <2>1. CASE Accepted(r)
    <3> DEFINE away == Waits(r) /\ Waiter[r] = "coroutine"
    <3>1. queue' \in Seq(Requests)
      BY <2>1 DEF TypeOK, Accepted
    <3>2. pc' \in [Requests -> {"new", "queued", "returned", "refused"}]
      BY <2>1 DEF TypeOK, Accepted
    <3>3. CASE away
      <4>1. /\ stat' = [stat EXCEPT ![r] = "NORMAL"] /\ running' = None
            /\ running = r
        BY <1>1, <2>1, <3>3 DEF Schedule, Accepted, MayRun
      <4> QED
        BY <1>1, <3>1, <3>2, <4>1 DEF TypeOK, Schedule
    <3>4. CASE ~away
      <4>1. UNCHANGED <<stat, running>>
        BY <2>1, <3>4 DEF Accepted, Coroutines
      <4> QED
        BY <1>1, <3>1, <3>2, <4>1 DEF TypeOK, Schedule
    <3> QED
      BY <3>3, <3>4
  <2>2. CASE Refused(r)
    BY <1>1, <2>2 DEF TypeOK, Schedule, Refused
  <2> QED
    BY <1>1, <2>1, <2>2 DEF Schedule
<1>2. ASSUME NEW r \in Requests, Return(r) PROVE TypeOK'
  BY <1>2 DEF TypeOK, Return
<1>3. ASSUME NEW r \in Requests, Start(r) PROVE TypeOK'
  BY <1>3, ResumeTypes DEF TypeOK, Start, Idle
<1>4. ASSUME NEW r \in Requests, Sleep(r) PROVE TypeOK'
  BY <1>4 DEF TypeOK, Sleep
<1>5. ASSUME NEW r \in Requests, Wake(r) PROVE TypeOK'
  BY <1>5, ResumeTypes DEF TypeOK, Wake, Idle
<1>6. ASSUME NEW r \in Requests, Die(r) PROVE TypeOK'
  BY <1>6 DEF TypeOK, Die
<1>7. ASSUME NEW r \in Requests, TransportFails(r) PROVE TypeOK'
  <2>1. EndTypes'
    BY <1>7, EndIfFutureType DEF TransportFails, Runs, Idle
  <2> QED
    BY <1>7, <2>1, RunsType DEF TypeOK, TransportFails, EndTypes
<1>8. ASSUME NEW r \in Requests, TransportSends(r) PROVE TypeOK'
  <2>1. EndTypes' /\ table' \in [Numbers -> Requests \cup {None}]
    <3>1. CASE HasFuture(r)
      BY <1>8, <3>1, PushType DEF TransportSends, Runs, Idle
    <3>2. CASE ~HasFuture(r)
      BY <1>8, <3>2 DEF TransportSends, EndTypes, TypeOK
    <3> QED
      BY <3>1, <3>2
  <2> QED
    BY <1>8, <2>1, RunsType DEF TypeOK, TransportSends, EndTypes
<1>9. ASSUME NEW r \in Requests, Execute(r) PROVE TypeOK'
  <2>1. EndTypes'
    <3>1. CASE EndIfFuture(r)
      BY <1>9, <3>1, EndIfFutureType DEF Execute, Runs, Idle
    <3>2. CASE UNCHANGED Ending
      BY <3>2 DEF Ending, EndTypes, TypeOK
    <3> QED
      BY <1>9, <3>1, <3>2 DEF Execute
  <2>2. broken' \subseteq Requests
    BY <1>9 DEF Execute, TypeOK
  <2> QED
    BY <1>9, <2>1, <2>2, RunsType DEF TypeOK, Execute, EndTypes
<1>10. ASSUME NEW r \in Requests, RunCloser(r) PROVE TypeOK'
  <2>1. EndTypes'
    <3>1. CASE EndIfFuture(r)
      BY <1>10, <3>1, EndIfFutureType DEF RunCloser, Runs, Idle
    <3>2. CASE UNCHANGED Ending
      BY <3>2 DEF Ending, EndTypes, TypeOK
    <3> QED
      BY <1>10, <3>1, <3>2 DEF RunCloser
  <2>2. /\ conn' \in {"open", "closed", "clearing", "gone"}
        /\ after' \in Requests \cup {None} /\ kept' \in BOOLEAN
    BY <1>10 DEF RunCloser, Close, TypeOK
  <2> QED
    BY <1>10, <2>1, <2>2, RunsType DEF TypeOK, RunCloser, EndTypes
<1>11. ASSUME NEW r \in Requests, Timeout(r) PROVE TypeOK'
  <2>1. EndTypes'
    BY <1>11, EndType DEF Timeout, Idle
  <2>2. table' \in [Numbers -> Requests \cup {None}]
    BY <1>11 DEF Timeout, TypeOK
  <2> QED
    BY <1>11, <2>1, <2>2 DEF TypeOK, Timeout, EndTypes
<1>12. ASSUME NEW r \in Requests, Reply(r) PROVE TypeOK'
  <2>1. Sn[r] \in Numbers /\ table[Sn[r]] \in Requests
    BY <1>12 DEF Reply, TypeOK, Numbers
  <2>2. EndTypes'
    <3>1. CASE End(table[Sn[r]])
      BY <1>12, <2>1, <3>1, EndType DEF Reply, Idle
    <3>2. CASE UNCHANGED Ending
      BY <3>2 DEF Ending, EndTypes, TypeOK
    <3> QED
      BY <1>12, <3>1, <3>2 DEF Reply
  <2>3. table' \in [Numbers -> Requests \cup {None}]
    BY <1>12 DEF Reply, TypeOK
  <2> QED
    BY <1>12, <2>2, <2>3 DEF TypeOK, Reply, EndTypes
<1>13. ASSUME LinkCloses PROVE TypeOK'
  BY <1>13 DEF TypeOK, LinkCloses, Close
<1>14. ASSUME Release PROVE TypeOK'
  BY <1>14 DEF TypeOK, Release
<1>15. ASSUME NEW n \in Numbers, ClearOne(n) PROVE TypeOK'
  <2>1. EndTypes'
    BY <1>15, EndType DEF ClearOne, TypeOK
  <2>2. table' \in [Numbers -> Requests \cup {None}]
    BY <1>15 DEF ClearOne, TypeOK
  <2> QED
    BY <1>15, <2>1, <2>2 DEF TypeOK, ClearOne, EndTypes
<1>16. ASSUME Cleared PROVE TypeOK'
  <2>1. EndTypes'
    <3>1. CASE after = None
      BY <1>16, <3>1 DEF Cleared, Ending, EndTypes, TypeOK
    <3>2. CASE after # None
      BY <1>16, <3>2, EndIfFutureType DEF Cleared, TypeOK
    <3> QED
      BY <3>1, <3>2
  <2> QED
    BY <1>16, <2>1 DEF TypeOK, Cleared, EndTypes
<1>17. CASE UNCHANGED vars
  BY <1>17 DEF TypeOK, vars
<1> QED
  BY <1>1, <1>2, <1>3, <1>4, <1>5, <1>6, <1>7, <1>8, <1>9, <1>10, <1>11, <1>12,
     <1>13, <1>14, <1>15, <1>16, <1>17
     DEF Next, Caller, Routine, Task, Destructor

\* The sequence number of a request is a number of the table.
LEMMA NumberOf == \A r \in Requests : Sn[r] \in Numbers
BY DEF Numbers

-----------------------------------------------------------------------------
(* The invariant, action by action.                                        *)

(* What the parts of the invariant besides TypeOK speak of.                *)
Core == QueueInv /\ TableInv /\ ConnInv /\ PendingInv /\ EndsOnce

\* In the initial state nothing is queued, sent, filed or ended.
LEMMA InitInv == Init => Inv
<1> SUFFICES ASSUME Init PROVE Inv
  OBVIOUS
<1>1. TypeOK
  <2>1. queue \in Seq(Requests)
    BY DEF Init
  <2> QED
    BY <2>1, RpcAssumption DEF Init, TypeOK
<1>2. Queued = {} /\ IsInjective(queue)
  BY DEF Init, Queued, Range, IsInjective
<1>3. QueueInv
  BY <1>2, RpcAssumption DEF QueueInv, Init
<1>4. TableInv /\ ConnInv /\ EndsOnce
  BY RpcAssumption DEF Init, TableInv, ConnInv, EndsOnce
<1>5. PendingInv
  BY RpcAssumption, NumberOf DEF Init, PendingInv, Pending
<1> QED
  BY <1>1, <1>3, <1>4, <1>5 DEF Inv

\* A task the worker takes has not been sent, has not ended and is no longer
\* queued.
LEMMA Taken ==
  ASSUME Inv, NEW r \in Requests, Runs(r)
  PROVE  /\ IsInjective(queue') /\ Queued' = Queued \ {r}
         /\ r \in Queued /\ pc[r] \in {"queued", "returned"}
         /\ r \notin wire /\ ends[r] = 0 /\ r # after /\ ~ Pending(r)
<1>1. queue \in Seq(Requests) /\ queue # <<>> /\ IsInjective(queue)
  BY DEF Inv, TypeOK, QueueInv, Runs
<1>2. IsInjective(queue') /\ Queued' = Queued \ {r} /\ r \in Queued
  BY <1>1, Dequeue DEF Queued, Runs
<1> QED
  BY <1>2 DEF Inv, QueueInv, Unborn, Pending

\* Steps that leave tasks, table, timers and ends alone keep the invariant.
LEMMA FrameKeeps ==
  ASSUME Inv, UNCHANGED <<pc, queue, conn, after, table, timer, wire, ends, kept>>
  PROVE  Core'
BY DEF Inv, Core, QueueInv, TableInv, ConnInv, PendingInv, EndsOnce, Queued,
       Unborn, Pending, Transports, HasFuture, Waits

\* A caller queues a request that is new, or is refused.
LEMMA ScheduleKeeps ==
  ASSUME Inv, NEW r \in Requests, Schedule(r), TypeOK'
  PROVE  Core'
<1>1. r \notin Queued /\ pc[r] = "new" /\ r # after /\ Unborn(r)
  BY DEF Inv, QueueInv, Schedule, Unborn
<1>2. UNCHANGED <<conn, after, table, timer, wire, ends, kept>>
  BY DEF Schedule
<1>3. TableInv' /\ ConnInv' /\ PendingInv' /\ EndsOnce'
  BY <1>2 DEF Inv, TableInv, ConnInv, PendingInv, EndsOnce, Pending, Transports,
              HasFuture, Waits
<1>4. CASE Accepted(r)
  <2>1. IsInjective(queue') /\ Queued' = Queued \cup {r}
    BY <1>1, <1>4, Enqueue DEF Inv, TypeOK, QueueInv, Queued, Accepted
  <2>2. /\ pc'[r] \in {"queued", "returned"}
        /\ \A q \in Requests \ {r} : pc'[q] = pc[q]
    BY <1>4 DEF Accepted, Inv, TypeOK
  <2>3. QueueInv'
    BY <1>1, <1>2, <2>1, <2>2 DEF Inv, QueueInv, Unborn
  <2> QED
    BY <1>3, <2>3 DEF Core
<1>5. CASE Refused(r)
  <2>1. Queued' = Queued /\ queue' = queue
    BY <1>5 DEF Refused, Queued
  <2>2. pc' = [pc EXCEPT ![r] = "refused"]
    BY <1>5 DEF Refused
  <2>3. QueueInv'
    BY <1>1, <1>2, <2>1, <2>2 DEF Inv, TypeOK, QueueInv, Unborn
  <2> QED
    BY <1>3, <2>3 DEF Core
<1> QED
  BY <1>4, <1>5 DEF Schedule

\* A caller that returns was queued and is not new again.
LEMMA ReturnKeeps ==
  ASSUME Inv, NEW r \in Requests, Return(r), TypeOK'
  PROVE  Core'
<1>1. UNCHANGED <<queue, conn, after, table, timer, wire, ends, kept>>
  BY DEF Return
<1>2. Queued' = Queued
  BY <1>1 DEF Queued
<1>3. /\ pc[r] = "queued" /\ pc' = [pc EXCEPT ![r] = "returned"]
      /\ pc \in [Requests -> {"new", "queued", "returned", "refused"}]
  BY DEF Return, Inv, TypeOK
<1>4. QueueInv'
  BY <1>1, <1>2, <1>3 DEF Inv, QueueInv, Unborn
<1> QED
  BY <1>1, <1>4 DEF Inv, Core, TableInv, ConnInv, PendingInv, EndsOnce, Pending,
                    Transports, HasFuture, Waits

(* The counts after an end of the future of r, or with it left alone.      *)
Ended(r) == ends' = [ends EXCEPT ![r] = @ + 1] /\ timer' = timer \ {r}

NotEnded == UNCHANGED <<ends, timer>>

\* A task that was taken and not sent may end its request: it was never
\* pending, and nothing else is touched.
LEMMA FinishKeeps ==
  ASSUME Inv, NEW r \in Requests, Runs(r), TypeOK',
         UNCHANGED <<pc, wire, table>>, Ended(r) \/ NotEnded,
         after' \in {after, r}, kept' \in BOOLEAN, kept => kept'
  PROVE  QueueInv' /\ TableInv' /\ PendingInv' /\ EndsOnce'
<1>1. /\ IsInjective(queue') /\ Queued' = Queued \ {r} /\ r \in Queued
      /\ pc[r] \in {"queued", "returned"} /\ r \notin wire /\ ends[r] = 0
      /\ r # after /\ ~Pending(r) /\ r \notin timer
  BY Taken DEF Inv, PendingInv
<1>2. /\ \A q \in Requests \ {r} : ends'[q] = ends[q] /\ (q \in timer' <=> q \in timer)
      /\ ends'[r] \in {0, 1} /\ r \notin timer'
  BY <1>1 DEF Inv, TypeOK, Ended, NotEnded
<1>3. QueueInv'
  BY <1>1, <1>2 DEF Inv, QueueInv, Unborn
<1>4. TableInv'
  BY DEF Inv, TableInv, Transports, HasFuture, Waits
<1>5. \A q \in Requests : Pending(q)' <=> Pending(q)
  BY <1>1, <1>2 DEF Pending, HasFuture, Waits
<1>6. PendingInv'
  BY <1>1, <1>2, <1>5 DEF Inv, PendingInv
<1>7. EndsOnce'
  BY <1>2 DEF Inv, EndsOnce
<1> QED
  BY <1>3, <1>4, <1>6, <1>7

\* The end of a future, where the request has one, changes the counts of that
\* request only.
LEMMA EndingOf ==
  ASSUME NEW r \in Requests, EndIfFuture(r) PROVE Ended(r) \/ NotEnded
BY DEF EndIfFuture, End, Ended, NotEnded, Ending

\* A transport that fails ends its future before the request was sent.
LEMMA TransportFailsKeeps ==
  ASSUME Inv, NEW r \in Requests, TransportFails(r), TypeOK'
  PROVE  Core'
<1>1. /\ Runs(r) /\ UNCHANGED <<pc, conn, after, table, wire, kept>>
      /\ Ended(r) \/ NotEnded
  BY EndingOf DEF TransportFails
<1>2. QueueInv' /\ TableInv' /\ PendingInv' /\ EndsOnce'
  BY <1>1, FinishKeeps DEF Inv, TypeOK
<1>3. r # after
  BY <1>1, Taken
<1>4. ConnInv'
  BY <1>1, <1>3 DEF Inv, TypeOK, ConnInv, Ended, NotEnded, Transports
<1> QED
  BY <1>2, <1>4 DEF Core

\* The same for an executor, whether the user's function throws or not.
LEMMA ExecuteKeeps ==
  ASSUME Inv, NEW r \in Requests, Execute(r), TypeOK'
  PROVE  Core'
<1>1. /\ Runs(r) /\ UNCHANGED <<pc, conn, after, table, wire, kept>>
      /\ Ended(r) \/ NotEnded
  BY EndingOf DEF Execute, Ending, NotEnded
<1>2. QueueInv' /\ TableInv' /\ PendingInv' /\ EndsOnce'
  BY <1>1, FinishKeeps DEF Inv, TypeOK
<1>3. r # after
  BY <1>1, Taken
<1>4. ConnInv'
  BY <1>1, <1>3 DEF Inv, TypeOK, ConnInv, Ended, NotEnded, Transports
<1> QED
  BY <1>2, <1>4 DEF Core

\* A Closer ends at once, or waits for the destructor it has started.
LEMMA RunCloserKeeps ==
  ASSUME Inv, NEW r \in Requests, RunCloser(r), TypeOK'
  PROVE  Core'
<1>1. /\ Runs(r) /\ UNCHANGED <<pc, table, wire>> /\ ~Transports(r)
      /\ Ended(r) \/ NotEnded
      /\ after' \in {after, r} /\ kept' \in BOOLEAN /\ (kept => kept')
  BY EndingOf DEF RunCloser, Ending, NotEnded, Close, Transports, Inv, TypeOK
<1>2. QueueInv' /\ TableInv' /\ PendingInv' /\ EndsOnce'
  BY <1>1, FinishKeeps
<1>3. r # after /\ ends[r] = 0
  BY <1>1, Taken
<1>4. conn = "open" => ~kept /\ after = None
  BY DEF Inv, ConnInv
<1>5. after # None => ends'[after] = 0 /\ after \in Requests
  BY <1>1, <1>3 DEF Inv, TypeOK, ConnInv, Ended, NotEnded
<1>6. ASSUME conn # "open", UNCHANGED <<conn, kept, after>> PROVE ConnInv'
  BY <1>1, <1>5, <1>6 DEF Inv, ConnInv, Transports
<1>7. ASSUME conn = "open", Close(TRUE), after' = after PROVE ConnInv'
  BY <1>4, <1>7 DEF Inv, ConnInv, Close
<1>8. ASSUME conn = "open", Close(FALSE), after' = r, UNCHANGED Ending PROVE ConnInv'
  BY <1>1, <1>3, <1>4, <1>8 DEF Inv, ConnInv, Close, Ending, Transports
<1>9. ConnInv'
  BY <1>6, <1>7, <1>8 DEF RunCloser
<1> QED
  BY <1>2, <1>9 DEF Core

\* A request that is sent is filed and its timer armed.  A request that was
\* filed under the same number was pending, so this is its first end.
LEMMA TransportSendsKeeps ==
  ASSUME Inv, NEW r \in Requests, TransportSends(r), TypeOK'
  PROVE  Core'
<1> DEFINE old == table[Sn[r]]
<1>1. /\ Runs(r) /\ UNCHANGED <<pc, conn, after, kept>> /\ wire' = wire \cup {r}
      /\ Transports(r) /\ conn = "open" /\ ~kept /\ after = None
  BY DEF TransportSends, Inv, ConnInv
<1>2. /\ IsInjective(queue') /\ Queued' = Queued \ {r} /\ r \in Queued
      /\ pc[r] \in {"queued", "returned"} /\ r \notin wire /\ ends[r] = 0
      /\ ~Pending(r) /\ r \notin timer
  BY <1>1, Taken DEF Inv, PendingInv
<1>3. Sn[r] \in Numbers /\ old \in Requests \cup {None}
  BY NumberOf DEF Inv, TypeOK
<1>4. CASE ~HasFuture(r)
  <2>1. UNCHANGED <<table, ends, timer>>
    BY <1>4 DEF TransportSends
  <2>2. QueueInv'
    BY <1>1, <1>2, <2>1 DEF Inv, QueueInv, Unborn
  <2>3. TableInv' /\ ConnInv' /\ EndsOnce'
    BY <1>1, <2>1 DEF Inv, TableInv, ConnInv, EndsOnce, Transports, HasFuture, Waits
  <2>4. \A q \in Requests : Pending(q)' <=> Pending(q)
    BY <1>1, <1>4, <2>1 DEF Pending, HasFuture, Waits
  <2>5. PendingInv'
    BY <1>1, <2>1, <2>4 DEF Inv, PendingInv
  <2> QED
    BY <2>2, <2>3, <2>5 DEF Core
<1>5. CASE HasFuture(r) /\ old = None
  <2>1. /\ table' = [table EXCEPT ![Sn[r]] = r]
        /\ timer' = timer \cup {r} /\ ends' = ends
    BY <1>5 DEF TransportSends, Push
  <2>2. QueueInv'
    BY <1>1, <1>2, <2>1 DEF Inv, QueueInv, Unborn
  <2>3. \A n \in Numbers : table'[n] = IF n = Sn[r] THEN r ELSE table[n]
    BY <1>3, <2>1 DEF Inv, TypeOK
  <2>4. TableInv'
    BY <1>1, <1>3, <1>5, <2>3 DEF Inv, TableInv, Transports, HasFuture, Waits
  <2>5. ConnInv' /\ EndsOnce'
    BY <1>1, <2>1 DEF Inv, ConnInv, EndsOnce
  <2>6. \A q \in Requests : Pending(q)' <=> (Pending(q) \/ q = r)
    BY <1>1, <1>2, <1>5, <2>1 DEF Pending, HasFuture, Waits
  <2>7. PendingInv'
    BY <1>1, <1>2, <1>5, <2>1, <2>3, <2>6, NumberOf, RpcAssumption
       DEF Inv, PendingInv
  <2> QED
    BY <2>2, <2>4, <2>5, <2>7 DEF Core
<1>6. CASE HasFuture(r) /\ old # None
  <2>1. /\ table' = [table EXCEPT ![Sn[r]] = r]
        /\ timer' = (timer \ {old}) \cup {r}
        /\ ends' = [ends EXCEPT ![old] = @ + 1]
    BY <1>6 DEF TransportSends, Push
  <2>2. /\ old \in Requests /\ old \in wire /\ Sn[old] = Sn[r] /\ old # r
        /\ Pending(old) /\ ends[old] = 0 /\ ~Unborn(old)
    BY <1>1, <1>2, <1>3, <1>6 DEF Inv, TableInv, PendingInv, Pending, QueueInv
  <2>3. \A n \in Numbers : table'[n] = IF n = Sn[r] THEN r ELSE table[n]
    BY <1>3, <2>1 DEF Inv, TypeOK
  <2>4. \A q \in Requests : ends'[q] = IF q = old THEN 1 ELSE ends[q]
    BY <2>1, <2>2 DEF Inv, TypeOK
  <2>5. QueueInv'
    BY <1>1, <1>2, <2>2, <2>4 DEF Inv, QueueInv, Unborn
  <2>6. TableInv'
    BY <1>1, <1>3, <1>6, <2>3 DEF Inv, TableInv, Transports, HasFuture, Waits
  <2>7. ConnInv' /\ EndsOnce'
    BY <1>1, <2>4 DEF Inv, ConnInv, EndsOnce
  <2>8. \A q \in Requests :
           /\ Pending(q)' <=> ((Pending(q) /\ q # old) \/ q = r)
           /\ (Pending(q) /\ q # old) => Sn[q] # Sn[r]
    BY <1>1, <1>2, <1>6, <2>2, <2>4 DEF Pending, HasFuture, Waits, Inv, PendingInv
  <2>9. PendingInv'
    BY <1>1, <1>2, <2>1, <2>2, <2>3, <2>8, NumberOf DEF Inv, PendingInv
  <2> QED
    BY <2>5, <2>6, <2>7, <2>9 DEF Core
<1> QED
  BY <1>4, <1>5, <1>6

\* A link that closes, or a last reference that goes, ends nothing yet.
LEMMA ClosesKeeps ==
  ASSUME Inv, LinkCloses \/ Release
  PROVE  Core'
<1>1. /\ UNCHANGED <<pc, queue, after, table, timer, wire, ends>>
      /\ kept \in BOOLEAN /\ kept' \in BOOLEAN /\ (kept => kept')
      /\ conn # "clearing" /\ conn' \in {"closed", "clearing"}
      /\ conn' = "closed" => kept'
  BY DEF LinkCloses, Release, Close, Idle, Inv, TypeOK
<1>2. Queued' = Queued
  BY <1>1 DEF Queued
<1>3. QueueInv' /\ TableInv'
  BY <1>1, <1>2 DEF Inv, QueueInv, TableInv, Unborn, Transports, HasFuture, Waits
<1>4. ConnInv'
  BY <1>1 DEF Inv, ConnInv
<1>5. PendingInv' /\ EndsOnce'
  BY <1>1 DEF Inv, PendingInv, Pending, EndsOnce, HasFuture, Waits
<1> QED
  BY <1>3, <1>4, <1>5 DEF Core

\* A filed request that ends and leaves the table: if nobody held the closed
\* connection it was pending, so this is its first end.
LEMMA FiledEnds ==
  ASSUME Inv, NEW n \in Numbers, table[n] # None, Ended(table[n]), TypeOK',
         table' = [table EXCEPT ![n] = None],
         UNCHANGED <<pc, queue, conn, after, wire, kept>>
  PROVE  Core'
<1> DEFINE f == table[n]
<1>1. /\ f \in Requests /\ f \in wire /\ HasFuture(f) /\ Sn[f] = n
      /\ Transports(f) /\ f # after /\ ~Unborn(f)
  BY DEF Inv, TypeOK, TableInv, ConnInv, QueueInv
<1>2. ~kept => Pending(f) /\ ends[f] = 0
  BY <1>1 DEF Inv, PendingInv, Pending
<1>3. /\ \A q \in Requests \ {f} : ends'[q] = ends[q]
      /\ ends'[f] = ends[f] + 1 /\ ends[f] \in Nat /\ ends'[f] # 0
  BY <1>1 DEF Inv, TypeOK, Ended
<1>4. \A m \in Numbers : table'[m] = IF m = n THEN None ELSE table[m]
  BY DEF Inv, TypeOK
<1>5. Queued' = Queued
  BY DEF Queued
<1>6. QueueInv'
  BY <1>1, <1>3, <1>5 DEF Inv, QueueInv, Unborn
<1>7. TableInv'
  BY <1>4 DEF Inv, TableInv, Transports, HasFuture, Waits
<1>8. ConnInv'
  BY <1>1, <1>3, <1>4 DEF Inv, TypeOK, ConnInv, Transports
<1>9. \A q \in Requests : Pending(q)' <=> (Pending(q) /\ q # f)
  BY <1>1, <1>3 DEF Pending, HasFuture, Waits
<1>10. \A q \in Requests : Pending(q) /\ q # f => Sn[q] # n
  BY DEF Inv, PendingInv
<1>11. PendingInv'
  BY <1>1, <1>4, <1>9, <1>10, NumberOf, RpcAssumption DEF Inv, PendingInv, Ended
<1>12. EndsOnce'
  BY <1>2, <1>3 DEF Inv, EndsOnce
<1> QED
  BY <1>6, <1>7, <1>8, <1>11, <1>12 DEF Core

\* A reply finds a request of an open connection.
LEMMA ReplyKeeps ==
  ASSUME Inv, NEW r \in Requests, Reply(r), TypeOK'
  PROVE  Core'
<1> DEFINE f == table[Sn[r]]
<1>1. /\ Sn[r] \in Numbers /\ f # None /\ ~kept
      /\ table' = [table EXCEPT ![Sn[r]] = None]
      /\ UNCHANGED <<pc, queue, conn, after, wire, kept>>
  BY NumberOf DEF Reply, Inv, ConnInv
<1>2. f \in Requests /\ Sn[f] = Sn[r] /\ ends[f] = 0
  BY <1>1 DEF Inv, TypeOK, TableInv, PendingInv, Pending
<1>3. Ended(f)
  BY <1>2 DEF Reply, Done, End, Ended
<1> QED
  BY <1>1, <1>3, FiledEnds

\* The destructor ends the requests one by one.
LEMMA ClearOneKeeps ==
  ASSUME Inv, NEW n \in Numbers, ClearOne(n), TypeOK'
  PROVE  Core'
<1>1. /\ table[n] # None /\ Ended(table[n])
      /\ table' = [table EXCEPT ![n] = None]
      /\ UNCHANGED <<pc, queue, conn, after, wire, kept>>
  BY DEF ClearOne, End, Ended
<1> QED
  BY <1>1, FiledEnds

\* A timer fires only for a pending request.  Its entry goes with it unless the
\* connection was closed while it was held.
LEMMA TimeoutKeeps ==
  ASSUME Inv, NEW r \in Requests, Timeout(r), TypeOK'
  PROVE  Core'
<1>1. /\ Pending(r) /\ table[Sn[r]] = r /\ Sn[r] \in Numbers /\ r # None
      /\ Ended(r) /\ conn # "clearing"
      /\ UNCHANGED <<pc, queue, conn, after, wire, kept>>
  BY NumberOf, RpcAssumption DEF Timeout, Idle, End, Ended, Inv, PendingInv
<1>2. CASE conn = "open"
  <2>1. table' = [table EXCEPT ![Sn[r]] = None]
    BY <1>2 DEF Timeout
  <2> QED
    BY <1>1, <2>1, FiledEnds
<1>3. CASE conn # "open"
  <2>1. kept /\ kept' /\ table' = table /\ after = None
    BY <1>1, <1>3 DEF Timeout, Inv, ConnInv, TypeOK
  <2>2. /\ \A q \in Requests : ends'[q] = IF q = r THEN 1 ELSE ends[q]
        /\ ~Unborn(r)
    BY <1>1 DEF Inv, TypeOK, Pending, Ended, QueueInv
  <2>3. Queued' = Queued
    BY <1>1 DEF Queued
  <2>4. QueueInv'
    BY <1>1, <2>2, <2>3 DEF Inv, QueueInv, Unborn
  <2>5. TableInv' /\ ConnInv' /\ EndsOnce'
    BY <1>1, <2>1 DEF Inv, TableInv, ConnInv, EndsOnce, Transports, HasFuture, Waits
  <2>6. \A q \in Requests : Pending(q)' <=> (Pending(q) /\ q # r)
    BY <1>1, <2>2 DEF Pending, HasFuture, Waits
  <2>7. PendingInv'
    BY <1>1, <2>1, <2>6 DEF Inv, PendingInv, Ended
  <2> QED
    BY <2>4, <2>5, <2>7 DEF Core
<1> QED
  BY <1>2, <1>3

\* When nothing is filed any more the connection is gone, and the Closer that
\* waited for that ends for the first time.
LEMMA ClearedKeeps ==
  ASSUME Inv, Cleared, TypeOK'
  PROVE  Core'
<1>1. /\ UNCHANGED <<pc, queue, table, wire, kept>>
      /\ conn = "clearing" /\ conn' = "gone" /\ after' = None
      /\ \A n \in Numbers : table[n] = None
  BY DEF Cleared, Filed
<1>2. CASE NotEnded
  <2>1. Queued' = Queued /\ UNCHANGED <<ends, timer>>
    BY <1>1, <1>2 DEF Queued, NotEnded
  <2>2. QueueInv'
    BY <1>1, <2>1, RpcAssumption DEF Inv, QueueInv, Unborn
  <2>3. TableInv' /\ ConnInv' /\ PendingInv' /\ EndsOnce'
    BY <1>1, <2>1 DEF Inv, TableInv, ConnInv, PendingInv, EndsOnce, Pending,
                      Transports, HasFuture, Waits
  <2> QED
    BY <2>2, <2>3 DEF Core
<1>3. CASE after # None /\ Ended(after)
  <2>1. /\ after \in Requests /\ ends[after] = 0 /\ after \notin wire
        /\ ~Unborn(after) /\ after \notin timer
    BY <1>3 DEF Inv, TypeOK, ConnInv, TableInv, QueueInv, PendingInv, Pending
  <2>2. /\ \A q \in Requests : ends'[q] = IF q = after THEN 1 ELSE ends[q]
        /\ timer' = timer
    BY <1>3, <2>1 DEF Inv, TypeOK, Ended
  <2>3. Queued' = Queued
    BY <1>1 DEF Queued
  <2>4. QueueInv'
    BY <1>1, <2>1, <2>2, <2>3, RpcAssumption DEF Inv, QueueInv, Unborn
  <2>5. TableInv' /\ ConnInv' /\ EndsOnce'
    BY <1>1, <2>2 DEF Inv, TableInv, ConnInv, EndsOnce, Transports, HasFuture, Waits
  <2>6. \A q \in Requests : Pending(q)' <=> Pending(q)
    BY <1>1, <2>1, <2>2 DEF Pending, HasFuture, Waits
  <2>7. PendingInv'
    BY <1>1, <2>2, <2>6 DEF Inv, PendingInv
  <2> QED
    BY <2>4, <2>5, <2>7 DEF Core
<1>4. NotEnded \/ (after # None /\ Ended(after))
  BY EndingOf DEF Cleared, Ending, NotEnded, Inv, TypeOK
<1> QED
  BY <1>2, <1>3, <1>4

-----------------------------------------------------------------------------
(* The theorems.                                                           *)

\* Every step keeps the invariant.
LEMMA NextInv == Inv /\ [Next]_vars => Inv'
<1> SUFFICES ASSUME Inv, [Next]_vars PROVE Inv'
  OBVIOUS
<1>1. TypeOK'
  BY TypeStep DEF Inv
<1>2. ASSUME NEW r \in Requests, Caller(r) PROVE Core'
  BY <1>1, <1>2, ScheduleKeeps, ReturnKeeps DEF Caller
<1>3. ASSUME NEW r \in Requests, Routine(r) PROVE Core'
  BY <1>3, FrameKeeps DEF Routine, Start, Sleep, Wake, Die
<1>4. ASSUME NEW r \in Requests, Task(r) PROVE Core'
  BY <1>1, <1>4, TransportFailsKeeps, TransportSendsKeeps, ExecuteKeeps,
     RunCloserKeeps DEF Task
<1>5. ASSUME NEW r \in Requests, Timeout(r) \/ Reply(r) PROVE Core'
  BY <1>1, <1>5, TimeoutKeeps, ReplyKeeps
<1>6. ASSUME LinkCloses \/ Release PROVE Core'
  BY <1>6, ClosesKeeps
<1>7. ASSUME Destructor PROVE Core'
  BY <1>1, <1>7, ClearedKeeps, ClearOneKeeps DEF Destructor
<1>8. ASSUME UNCHANGED vars PROVE Core'
  BY <1>8, FrameKeeps DEF vars
<1>9. Core'
  BY <1>2, <1>3, <1>4, <1>5, <1>6, <1>7, <1>8 DEF Next
<1> QED
  BY <1>1, <1>9 DEF Inv, Core

\* Invariant: what the state of the requests looks like in every reachable state.
THEOREM Invariant == Spec => []Inv
BY InitInv, NextInv, PTL DEF Spec

\* Whatever races between a reply, a timer, a repeated sequence number, a
\* failing task and the destructor, done() runs at most once for a request as
\* long as nobody held the connection across its close.
THEOREM RequestsEndOnce == Spec => []EndsOnce
<1>1. Inv => EndsOnce
  BY DEF Inv
<1> QED
  BY <1>1, Invariant, PTL

\* A request that was sent and has not ended is filed in the connection under
\* its number with its timer armed, and no other request has a timer.
THEOREM PendingRequestsAreFiled == Spec => []PendingIsFiled
<1>1. Inv => PendingIsFiled
  <2> SUFFICES ASSUME Inv, NEW r \in Requests
               PROVE  /\ Pending(r) <=> r \in timer
                      /\ Pending(r) => r \in Filed
                      /\ ~kept /\ r \in Filed => Pending(r)
    BY DEF PendingIsFiled, Pending
  <2>1. Pending(r) => r \in Filed
    BY NumberOf, RpcAssumption DEF Inv, PendingInv, Filed
  <2>2. ASSUME ~kept, r \in Filed PROVE Pending(r)
    <3>1. PICK n \in Numbers : table[n] = r
      BY <2>2 DEF Filed
    <3>2. Sn[r] = n
      BY <3>1, RpcAssumption DEF Inv, TableInv
    <3> QED
      BY <2>2, <3>1, <3>2 DEF Inv, PendingInv
  <2> QED
    BY <2>1, <2>2 DEF Inv, PendingInv
<1> QED
  BY <1>1, Invariant, PTL

-----------------------------------------------------------------------------
(* Nobody is forgotten.                                                    *)

WaitInv ==
    /\ \A r \in Requests : r \in ready <=> ends[r] > 0
    /\ \A r \in Requests : pc[r] = "queued" => Waits(r)
    /\ NobodyForgotten

(* Where the end of a request is to come from.                             *)
Expected(r) == r \in Queued \/ r \in timer \/ r = after

\* While no coroutine runs, none that was resumed is still waiting.
LEMMA NoneResumed ==
  ASSUME Inv, WaitInv, running = None,
         NEW r \in Requests \ broken, HasFuture(r), pc[r] = "queued", ends[r] > 0
  PROVE  Waiter[r] = "thread"
<1>1. ~(ends[r] = 0)
  OBVIOUS
<1>2. MayRun(r)
  BY <1>1 DEF WaitInv, NobodyForgotten
<1>3. running # r
  BY RpcAssumption
<1> QED
  BY <1>2, <1>3, RpcAssumption DEF MayRun

\* The future of a request ends while no coroutine runs: whoever waits for it
\* goes on, and what the others wait for is left to them.
LEMMA EndForgetsNobody ==
  ASSUME Inv, WaitInv, TypeOK', running = None, NEW f \in Requests,
         ends' = [ends EXCEPT ![f] = @ + 1], ready' = ready \cup {f}, Woken(f),
         pc' = pc, broken \subseteq broken',
         \A q \in Requests \ {f} : Expected(q) /\ ends[q] = 0 => Expected(q)'
  PROVE  WaitInv'
<1>1. /\ ends \in [Requests -> Nat] /\ pc \in [Requests -> {"new", "queued", "returned", "refused"}]
      /\ \A r \in Requests : r \in ready <=> ends[r] > 0
  BY DEF Inv, TypeOK, WaitInv
<1>2. /\ ends'[f] = ends[f] + 1 /\ ends'[f] > 0
      /\ \A q \in Requests \ {f} : ends'[q] = ends[q]
  BY <1>1
<1>3. \A r \in Requests : r \in ready' <=> ends'[r] > 0
  BY <1>1, <1>2
<1>4. ASSUME NEW r \in Requests \ broken', HasFuture(r), pc[r] \in {"queued", "returned"}
      PROVE  \/ ends'[r] = 0 /\ Expected(r)'
             \/ ends'[r] > 0 /\ (pc[r] = "queued" => r \in ready' /\ MayRun(r)')
  <2>1. \/ ends[r] = 0 /\ Expected(r)
        \/ ends[r] > 0 /\ (pc[r] = "queued" => r \in ready /\ MayRun(r))
    BY <1>4 DEF WaitInv, NobodyForgotten, Expected, Queued
  <2>2. CASE r = f
    <3>1. CASE pc[r] = "queued" /\ Waiter[r] = "coroutine"
      <4>1. ends[f] = 0
        BY <1>1, <1>4, <2>2, <3>1, NoneResumed
      <4>2. Waits(f) /\ f \notin ready
        <5>1. f \notin ready
          BY <1>1, <4>1
        <5> QED
          BY <2>2, <3>1, <5>1 DEF WaitInv
      <4>3. running' = f
        BY <2>2, <3>1, <4>2 DEF Woken, Resume
      <4> QED
        BY <1>2, <2>2, <4>3 DEF MayRun
    <3>2. CASE Waiter[r] # "coroutine" \/ pc[r] # "queued"
      BY <1>2, <2>2, <3>2 DEF MayRun
    <3> QED
      BY <3>1, <3>2
  <2>3. CASE r # f /\ ends[r] = 0
    BY <1>2, <2>1, <2>3
  <2>4. CASE r # f /\ ends[r] > 0
    <3>1. pc[r] = "queued" => Waiter[r] = "thread" /\ r \in ready
      BY <1>1, <1>4, <2>4, NoneResumed
    <3> QED
      BY <1>2, <2>4, <3>1 DEF MayRun
  <2> QED
    BY <1>1, <2>2, <2>3, <2>4
<1>5. NobodyForgotten'
  BY <1>4 DEF NobodyForgotten, Expected, Queued, HasFuture, Waits
<1>6. \A r \in Requests : pc'[r] = "queued" => Waits(r)
  BY DEF WaitInv
<1> QED
  BY <1>3, <1>5, <1>6 DEF WaitInv, Waits

\* No future ends: a caller goes on, or the request changes its place.
LEMMA PlacesForgetNobody ==
  ASSUME Inv, WaitInv, TypeOK', UNCHANGED <<ends, ready>>, broken \subseteq broken',
         NEW f \in Requests,
         \A q \in Requests \ {f} : pc'[q] = pc[q],
         \A q \in Requests \ {f} : Expected(q) => Expected(q)',
         \A q \in Requests \ {f} : pc[q] = "queued" /\ running = q => running' = q,
         pc'[f] = "queued" => Waits(f),
         \/ f \in broken' \/ ~HasFuture(f)
         \/ pc'[f] \in {"new", "refused"}
         \/ ends[f] = 0 /\ Expected(f)'
         \/ ends[f] > 0 /\ pc'[f] = "returned"
  PROVE  WaitInv'
<1>1. \A r \in Requests : r \in ready' <=> ends'[r] > 0
  BY DEF WaitInv
<1>2. \A r \in Requests : pc'[r] = "queued" => Waits(r)
  BY DEF WaitInv
<1>3. ASSUME NEW r \in Requests \ broken', HasFuture(r), pc'[r] \in {"queued", "returned"}
      PROVE  \/ ends'[r] = 0 /\ Expected(r)'
             \/ ends'[r] > 0 /\ (pc'[r] = "queued" => r \in ready' /\ MayRun(r)')
  <2>1. CASE r = f
    BY <1>3, <2>1
  <2>2. CASE r # f
    <3>1. \/ ends[r] = 0 /\ Expected(r)
          \/ ends[r] > 0 /\ (pc[r] = "queued" => r \in ready /\ MayRun(r))
      BY <1>3, <2>2 DEF WaitInv, NobodyForgotten, Expected, Queued
    <3>2. pc[r] = "queued" /\ MayRun(r) => MayRun(r)'
      BY <2>2 DEF MayRun
    <3> QED
      BY <2>2, <3>1, <3>2
  <2> QED
    BY <2>1, <2>2
<1>4. NobodyForgotten'
  BY <1>3 DEF NobodyForgotten, Expected, Queued, HasFuture, Waits
<1> QED
  BY <1>1, <1>2, <1>4 DEF WaitInv, Waits

\* The steps of callers and coroutines.  Only the coroutine that runs can leave
\* the IO thread, and it does not wait for anything that has ended.
LEMMA CallersForgetNobody ==
  ASSUME Inv, WaitInv, TypeOK', NEW r \in Requests, Caller(r) \/ Routine(r)
  PROVE  WaitInv'
<1>0. /\ pc \in [Requests -> {"new", "queued", "returned", "refused"}]
      /\ queue \in Seq(Requests) /\ IsInjective(queue) /\ ends \in [Requests -> Nat]
      /\ pc[r] \in {"new", "refused"} => r \notin Queued /\ ends[r] = 0
  BY DEF Inv, TypeOK, QueueInv, Unborn
<1>1. CASE Schedule(r)
  <2>1. UNCHANGED <<ends, ready, timer, after, broken>> /\ pc[r] = "new" /\ MayRun(r)
    BY <1>1 DEF Schedule
  <2>2. \A q \in Requests \ {r} : pc'[q] = pc[q]
    BY <1>0, <1>1 DEF Schedule, Accepted, Refused
  <2>3. CASE Accepted(r)
    <3>1. Queued' = Queued \cup {r}
      BY <1>0, <2>1, <2>3, Enqueue DEF Accepted, Queued
    <3>2. pc'[r] = "queued" => Waits(r)
      BY <1>0, <2>3 DEF Accepted
    <3>3. running' = running \/ running = r
      BY <2>1, <2>3 DEF Accepted, Coroutines, MayRun
    <3>4. ends[r] = 0 /\ \A q \in Requests : Expected(q) \/ q = r => Expected(q)'
      BY <1>0, <2>1, <3>1 DEF Expected
    <3> QED
      BY <2>1, <2>2, <3>2, <3>3, <3>4, PlacesForgetNobody
  <2>4. CASE Refused(r)
    <3>1. pc'[r] = "refused" /\ running' = running /\ Queued' = Queued
      BY <1>0, <2>4 DEF Refused, Queued
    <3>2. \A q \in Requests : Expected(q) => Expected(q)'
      BY <2>1, <3>1 DEF Expected
    <3> QED
      BY <2>1, <2>2, <3>1, <3>2, PlacesForgetNobody
  <2> QED
    BY <1>1, <2>3, <2>4 DEF Schedule
<1>2. CASE Return(r)
  <2>1. /\ UNCHANGED <<ends, ready, timer, after, broken, queue, running>>
        /\ pc' = [pc EXCEPT ![r] = "returned"] /\ r \in ready
    BY <1>2 DEF Return
  <2>2. pc'[r] = "returned" /\ \A q \in Requests \ {r} : pc'[q] = pc[q]
    BY <1>0, <2>1
  <2>3. \A q \in Requests : Expected(q) => Expected(q)'
    BY <2>1 DEF Expected, Queued
  <2>4. ends[r] > 0
    BY <2>1 DEF WaitInv
  <2> QED
    BY <2>1, <2>2, <2>3, <2>4, PlacesForgetNobody
<1>3. CASE Routine(r)
  <2>1. UNCHANGED <<pc, queue, after, timer, ends, ready, broken>>
    BY <1>3 DEF Routine, Start, Sleep, Wake, Die
  <2>2. \/ running = None
        \/ running = r /\ pc[r] \in {"returned", "refused"}
    BY <1>3 DEF Routine, Start, Sleep, Wake, Die, Idle
  <2>3. \A q \in Requests : Expected(q) => Expected(q)'
    BY <2>1 DEF Expected, Queued
  <2>4. \A q \in Requests : pc[q] = "queued" => running # q
    BY <2>2, RpcAssumption
  <2>5. \A q \in Requests \ broken : HasFuture(q) /\ pc[q] \in {"queued", "returned"} =>
          \/ ends[q] = 0 /\ Expected(q)
          \/ ends[q] > 0 /\ (pc[q] = "queued" => q \in ready /\ Waiter[q] # "coroutine")
    BY <2>4 DEF WaitInv, NobodyForgotten, MayRun, Expected, Queued
  <2>6. NobodyForgotten'
    BY <2>1, <2>3, <2>5 DEF NobodyForgotten, MayRun, Expected, Queued, HasFuture, Waits
  <2> QED
    BY <2>1, <2>6 DEF WaitInv, Waits
<1> QED
  BY <1>1, <1>2, <1>3 DEF Caller

\* A task takes its request from the queue: it ends it, files it, or leaves it
\* to the destructor or to the user's function that threw.
LEMMA TasksForgetNobody ==
  ASSUME Inv, WaitInv, TypeOK', NEW r \in Requests, Task(r)
  PROVE  WaitInv'
<1>1. Runs(r) /\ pc' = pc /\ running = None
  BY DEF Task, TransportFails, TransportSends, Execute, RunCloser, Runs, Idle
<1>2. Queued' = Queued \ {r} /\ ends[r] = 0 /\ r \notin wire /\ r # after
  BY <1>1, Taken
<1>3. \A q \in Requests : pc[q] = "queued" => Waits(q)
  BY DEF WaitInv
<1>4. \A q \in Requests : running # q
  BY <1>1, RpcAssumption
<1>5. ASSUME EndIfFuture(r), after' = after, broken' = broken PROVE WaitInv'
  <2>1. CASE HasFuture(r)
    <3>1. End(r)
      BY <1>5, <2>1 DEF EndIfFuture
    <3>2. \A q \in Requests \ {r} : Expected(q) => Expected(q)'
      BY <1>2, <1>5, <3>1 DEF End, Expected
    <3> QED
      BY <1>1, <1>5, <3>1, <3>2, EndForgetsNobody DEF End
  <2>2. CASE ~HasFuture(r)
    <3>1. UNCHANGED <<ends, timer, ready, running>>
      BY <1>5, <2>2 DEF EndIfFuture, Ending
    <3>2. \A q \in Requests \ {r} : Expected(q) => Expected(q)'
      BY <1>2, <1>5, <3>1 DEF Expected
    <3> QED
      BY <1>1, <1>3, <1>5, <2>2, <3>1, <3>2, PlacesForgetNobody
  <2> QED
    BY <2>1, <2>2
<1>6. CASE TransportFails(r)
  BY <1>5, <1>6 DEF TransportFails
<1>7. CASE TransportSends(r) /\ ~HasFuture(r)
  <2>1. UNCHANGED <<ends, timer, ready, running, after, broken>>
    BY <1>7 DEF TransportSends
  <2>2. \A q \in Requests \ {r} : Expected(q) => Expected(q)'
    BY <1>2, <2>1 DEF Expected
  <2> QED
    BY <1>1, <1>3, <1>7, <2>1, <2>2, PlacesForgetNobody
<1>8. CASE TransportSends(r) /\ HasFuture(r)
  <2> DEFINE old == table[Sn[r]]
  <2>1. Push(r) /\ UNCHANGED <<after, broken>>
    BY <1>8 DEF TransportSends
  <2>2. CASE old = None
    <3>1. timer' = timer \cup {r} /\ UNCHANGED <<ends, ready, running>>
      BY <2>1, <2>2 DEF Push
    <3>2. (\A q \in Requests \ {r} : Expected(q) => Expected(q)') /\ Expected(r)'
      BY <1>2, <2>1, <3>1 DEF Expected
    <3> QED
      BY <1>1, <1>2, <1>3, <2>1, <3>1, <3>2, PlacesForgetNobody
  <2>3. CASE old # None
    <3>1. /\ ends' = [ends EXCEPT ![old] = @ + 1]
          /\ timer' = (timer \ {old}) \cup {r}
          /\ ready' = ready \cup {old}
          /\ Woken(old)
      BY <2>1, <2>3 DEF Push
    <3>2. old \in Requests /\ old \in wire
      BY <2>3, NumberOf DEF Inv, TypeOK, TableInv
    <3>3. \A q \in Requests \ {old} : Expected(q) => Expected(q)'
      BY <1>2, <2>1, <3>1 DEF Expected
    <3> HIDE DEF old
    <3> QED
      BY <1>1, <2>1, <3>1, <3>2, <3>3, EndForgetsNobody
  <2> QED
    BY <2>2, <2>3
<1>9. CASE Execute(r)
  <2>1. CASE EndIfFuture(r) /\ broken' = broken
    BY <1>5, <1>9, <2>1 DEF Execute
  <2>2. CASE broken' = broken \cup {r} /\ UNCHANGED Ending
    <3>1. UNCHANGED <<ends, timer, ready, running, after>>
      BY <1>9, <2>2 DEF Execute, Ending
    <3>2. \A q \in Requests \ {r} : Expected(q) => Expected(q)'
      BY <1>2, <3>1 DEF Expected
    <3> QED
      BY <1>1, <1>3, <2>2, <3>1, <3>2, PlacesForgetNobody
  <2> QED
    BY <1>9, <2>1, <2>2 DEF Execute
<1>10. CASE RunCloser(r)
  <2>1. CASE EndIfFuture(r) /\ after' = after
    BY <1>5, <1>10, <2>1 DEF RunCloser
  <2>2. CASE conn = "open" /\ after' = r /\ UNCHANGED Ending
    <3>1. UNCHANGED <<ends, timer, ready, running, broken>>
      BY <1>10, <2>2 DEF RunCloser, Ending
    <3>2. after = None
      BY <2>2 DEF Inv, ConnInv
    <3>3. (\A q \in Requests \ {r} : Expected(q) => Expected(q)') /\ Expected(r)'
      BY <1>2, <2>2, <3>1, <3>2, RpcAssumption DEF Expected
    <3> QED
      BY <1>1, <1>2, <1>3, <3>1, <3>3, PlacesForgetNobody
  <2> QED
    BY <1>10, <2>1, <2>2 DEF RunCloser
<1> QED
  BY <1>6, <1>7, <1>8, <1>9, <1>10 DEF Task

\* A timeout, a reply and the destructor end a request.
LEMMA EndsForgetNobody ==
  ASSUME Inv, WaitInv, TypeOK',
         Destructor \/ \E r \in Requests : Timeout(r) \/ Reply(r)
  PROVE  WaitInv'
<1>1. UNCHANGED <<pc, queue, broken>> /\ running = None
  BY DEF Destructor, Cleared, ClearOne, Timeout, Reply, Idle
<1>2. ASSUME NEW f \in Requests, End(f),
             \A q \in Requests \ {f} : q = after => q = after'
      PROVE  WaitInv'
  <2>1. \A q \in Requests \ {f} : Expected(q) => Expected(q)'
    BY <1>1, <1>2 DEF End, Expected, Queued
  <2> QED
    BY <1>1, <1>2, <2>1, EndForgetsNobody DEF End
<1>3. ASSUME UNCHANGED Ending, after' = after \/ after = None \/ ~HasFuture(after)
      PROVE  WaitInv'
  BY <1>1, <1>3, RpcAssumption
  DEF WaitInv, NobodyForgotten, Ending, MayRun, HasFuture, Waits
<1>4. ASSUME NEW r \in Requests, Timeout(r) PROVE WaitInv'
  BY <1>2, <1>4 DEF Timeout
<1>5. ASSUME NEW r \in Requests, Reply(r) PROVE WaitInv'
  <2>1. table[Sn[r]] \in Requests
    BY <1>5, NumberOf DEF Reply, Inv, TypeOK
  <2> QED
    BY <1>2, <1>3, <1>5, <2>1 DEF Reply
<1>6. ASSUME NEW n \in Numbers, ClearOne(n) PROVE WaitInv'
  <2>1. table[n] \in Requests
    BY <1>6 DEF ClearOne, Inv, TypeOK
  <2> QED
    BY <1>2, <1>6, <2>1 DEF ClearOne
<1>7. CASE Cleared
  <2>1. CASE after = None \/ ~HasFuture(after)
    BY <1>3, <1>7, <2>1 DEF Cleared, EndIfFuture
  <2>2. CASE after # None /\ HasFuture(after)
    <3>1. after \in Requests /\ End(after)
      BY <1>7, <2>2 DEF Cleared, EndIfFuture, Inv, TypeOK
    <3> QED
      BY <1>2, <3>1
  <2> QED
    BY <2>1, <2>2
<1> QED
  BY <1>4, <1>5, <1>6, <1>7 DEF Destructor

\* Every step keeps the way of each request to its end.
LEMMA StepForgetsNobody == Inv /\ WaitInv /\ [Next]_vars => WaitInv'
<1> SUFFICES ASSUME Inv, WaitInv, [Next]_vars PROVE WaitInv'
  OBVIOUS
<1>1. TypeOK'
  BY TypeStep DEF Inv
<1>2. CASE LinkCloses \/ Release \/ UNCHANGED vars
  BY <1>2
  DEF LinkCloses, Release, vars, WaitInv, NobodyForgotten, MayRun, HasFuture, Waits
<1> QED
  BY <1>1, <1>2, CallersForgetNobody, TasksForgetNobody, EndsForgetNobody DEF Next

\* In every reachable state each accepted request is on its way to its end, or
\* has ended and its caller is free to go on, for every set of requests,
\* callers and sequence numbers: what the termination that TLC checks under
\* fairness rests on.
THEOREM NobodyIsForgotten == Spec => []NobodyForgotten
<1>1. Init => WaitInv
  BY DEF Init, WaitInv, NobodyForgotten
<1>2. WaitInv => NobodyForgotten
  BY DEF WaitInv
<1> QED
  BY <1>1, <1>2, Invariant, StepForgetsNobody, PTL DEF Spec

=============================================================================
