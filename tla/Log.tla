--------------------------------- MODULE Log ---------------------------------
(***************************************************************************)
(* The asynchronous log (log/src/logging.cpp, logging.h, logger.cpp).      *)
(* Each thread builds a line in a chain of blocks of its own, taken from a *)
(* shared ring of reusable blocks or from the heap, and publishes the      *)
(* chain in a ring of slots.  One sink thread empties the slots in order,  *)
(* returns the blocks and writes the file.  ~Logging makes the sink empty  *)
(* the ring once more and then ends it.                                    *)
(*                                                                         *)
(* A line is a number of parts, one call of LogLine::append each; a block  *)
(* holds BlockSize of them.  The atomic operations are the code's.         *)
(***************************************************************************)
EXTENDS Naturals, Sequences, SequencesExt, FiniteSets, FiniteSetsExt

CONSTANTS
    Threads,     \* threads that log
    Lines,       \* bound: lines each of them logs
    Parts,       \* parts of each line of a thread
    BlockSize,   \* parts a LogData holds
    Bucket,      \* BufferBucket::_capacity
    Heap,        \* bound: blocks on the heap
    ListMax,     \* LOG_LIST_MAX_SIZE
    OutputMax    \* parts the output buffer holds

ASSUME LogAssumption ==
    /\ IsFiniteSet(Threads) /\ Lines \in [Threads -> Nat]
    /\ Parts \in [Threads -> Nat \ {0}]
    /\ BlockSize \in Nat \ {0} /\ Bucket \in Nat \ {0} /\ Heap \in Nat
    /\ ListMax \in Nat /\ ListMax > 1 /\ Cardinality(Threads) < ListMax
    /\ OutputMax \in Nat /\ OutputMax >= BlockSize

Reusable == 1..Bucket
Blocks   == 1..(Bucket + Heap)
Nil      == 0

VARIABLES
    (* BlockingBuffer *)
    queueSize, producePos, consumePos,
    slots,      \* _logQueue: first block of the line in each slot
    next,       \* BufferBucket::_pos
    used,       \* LogData::_used; of a heap block, that it exists
    text,       \* what a block holds
    link,       \* LogData::_next
    (* the threads that log *)
    pc, line, part,
    node,       \* LogDataNode of each thread
    spare,      \* the block being linked, or the slot being filled
    (* the sink thread *)
    sink, cur, rest, output,
    (* ~Logging and the file *)
    threadSync, threadExit, destructor, file,
    (* history *)
    order,      \* lines in the order of their slots
    before,     \* lines logged when ~Logging began
    raced,      \* a block was taken again before recycle() had cleared it
    short,      \* the file took less than it was given
    early       \* ~Logging went on though nobody had notified it

buffer   == <<queueSize, producePos, consumePos, slots>>
blocks   == <<next, used, text, link>>
thread   == <<pc, line, part, node, spare>>
sinking  == <<sink, cur, rest, output>>
ending   == <<threadSync, threadExit, destructor, file>>
history  == <<order, before, raced, short, early>>
vars     == <<buffer, blocks, thread, sinking, ending, history>>

Init ==
    /\ queueSize = 0 /\ producePos = 0 /\ consumePos = 1
    /\ slots = [i \in 0..(ListMax - 1) |-> Nil]
    /\ next = 0
    /\ used = [b \in Blocks |-> FALSE]
    /\ text = [b \in Blocks |-> <<>>] /\ link = [b \in Blocks |-> Nil]
    /\ pc = [t \in Threads |-> "append"]
    /\ line = [t \in Threads |-> 1] /\ part = [t \in Threads |-> 1]
    /\ node = [t \in Threads |-> [head |-> Nil, tail |-> Nil]]
    /\ spare = [t \in Threads |-> Nil]
    /\ sink = "loop" /\ cur = Nil /\ rest = Nil /\ output = <<>>
    /\ threadSync = FALSE /\ threadExit = FALSE /\ destructor = "no"
    /\ file = <<>>
    /\ order = <<>> /\ before = {} /\ raced = FALSE /\ short = FALSE
    /\ early = FALSE

TextOf(t, n) == [i \in 1..Parts[t] |-> <<t, n, i>>]

-----------------------------------------------------------------------------
(* Blocks.                                                                 *)

(* BufferBucket::alloc: the next block of the ring if its owner let it go, *)
(* else one from the heap.                                                 *)
Turn == (next % Bucket) + 1

HeapFree == {b \in Blocks \ Reusable : ~used[b]}

CanAlloc == ~used[Turn] \/ HeapFree # {}

Allocated == IF used[Turn] THEN Min(HeapFree) ELSE Turn

Alloc ==
    /\ CanAlloc
    /\ next' = (next + 1) % Bucket
    /\ used' = [used EXCEPT ![Allocated] = TRUE]
    /\ UNCHANGED <<text, link>>

Room(b) == Len(text[b]) < BlockSize

(* LogData::write: what does not fit is left out.                          *)
Written(b, p) == IF Room(b) THEN Append(text[b], p) ELSE text[b]

-----------------------------------------------------------------------------
(* A thread that logs.                                                     *)

Logs(t, at) == pc[t] = at /\ destructor # "done"

NextPart(t) ==
    /\ part' = [part EXCEPT ![t] = @ + 1]
    /\ pc' = [pc EXCEPT ![t] = IF part[t] = Parts[t] THEN "finish" ELSE "append"]

ThisPart(t) == <<t, line[t], part[t]>>

(* BlockingBuffer::produce: the first block of a line ...                  *)
StartChain(t) ==
    /\ Logs(t, "append") /\ line[t] <= Lines[t] /\ node[t].head = Nil
    /\ Alloc
    /\ node' = [node EXCEPT ![t] = [head |-> Allocated, tail |-> Allocated]]
    /\ UNCHANGED <<buffer, pc, line, part, spare, sinking, ending, history>>

(* ... a part that fits ...                                                *)
WritePart(t) ==
    LET b == node[t].tail
    IN  /\ Logs(t, "append") /\ b # Nil /\ Room(b)
        /\ text' = [text EXCEPT ![b] = Written(b, ThisPart(t))]
        /\ NextPart(t)
        /\ UNCHANGED <<buffer, next, used, link, line, node, spare, sinking, ending, history>>

(* ... and one that does not: another block is taken, filled and linked.   *)
Extend(t) ==
    /\ Logs(t, "append") /\ node[t].tail # Nil /\ ~Room(node[t].tail)
    /\ Alloc
    /\ spare' = [spare EXCEPT ![t] = Allocated]
    /\ pc' = [pc EXCEPT ![t] = "link"]
    /\ UNCHANGED <<buffer, line, part, node, sinking, ending, history>>

LinkNext(t) ==
    LET b == spare[t]
    IN  /\ Logs(t, "link")
        /\ text' = [text EXCEPT ![b] = Written(b, ThisPart(t))]
        /\ link' = [link EXCEPT ![node[t].tail] = b]
        /\ node' = [node EXCEPT ![t].tail = b]
        /\ spare' = [spare EXCEPT ![t] = Nil]
        /\ NextPart(t)
        /\ UNCHANGED <<buffer, next, used, line, sinking, ending, history>>

(* BlockingBuffer::finish: wait for room ...                               *)
Full == queueSize + 1 >= ListMax

Reserve(t) ==
    /\ Logs(t, "finish")
    /\ queueSize' = queueSize + 1
    /\ pc' = [pc EXCEPT ![t] = IF Full THEN "backoff" ELSE "place"]
    /\ UNCHANGED <<producePos, consumePos, slots, blocks, line, part, node, spare,
                   sinking, ending, history>>

BackOff(t) ==
    /\ Logs(t, "backoff")
    /\ queueSize' = queueSize - 1
    /\ pc' = [pc EXCEPT ![t] = "finish"]
    /\ UNCHANGED <<producePos, consumePos, slots, blocks, line, part, node, spare,
                   sinking, ending, history>>

(* ... take a slot ...                                                     *)
Place(t) ==
    /\ Logs(t, "place")
    /\ producePos' = (producePos + 1) % ListMax
    /\ spare' = [spare EXCEPT ![t] = producePos']
    /\ order' = Append(order, <<t, line[t]>>)
    /\ pc' = [pc EXCEPT ![t] = "publish"]
    /\ UNCHANGED <<queueSize, consumePos, slots, blocks, line, part, node, sinking, ending,
                   before, raced, short, early>>

(* _proceedCond.notify_one: a sink that is not waiting misses it.          *)
Notified == IF sink = "wait" THEN "loop" ELSE sink

(* ... and put the chain there, if it is empty; Logging::finish notifies.  *)
Publish(t) ==
    /\ Logs(t, "publish")
    /\ IF slots[spare[t]] = Nil
       THEN slots' = [slots EXCEPT ![spare[t]] = node[t].head] /\ UNCHANGED queueSize
       ELSE queueSize' = queueSize - 1 /\ UNCHANGED slots
    /\ node' = [node EXCEPT ![t] = [head |-> Nil, tail |-> Nil]]
    /\ spare' = [spare EXCEPT ![t] = Nil]
    /\ line' = [line EXCEPT ![t] = @ + 1] /\ part' = [part EXCEPT ![t] = 1]
    /\ pc' = [pc EXCEPT ![t] = "append"]
    /\ sink' = Notified
    /\ UNCHANGED <<producePos, consumePos, blocks, cur, rest, output, ending, history>>

-----------------------------------------------------------------------------
(* The sink thread.                                                        *)

Sinks(from) == sink = from

(* Where consume returns to: with nothing read, sleep; else write.         *)
Consumed(out) == IF out = <<>> THEN "idle" ELSE "write"

SinkLoop ==
    /\ Sinks("loop")
    /\ sink' = IF threadExit THEN "end" ELSE "take"
    /\ UNCHANGED <<buffer, blocks, thread, cur, rest, output, ending, history>>

Take ==
    LET b == slots[consumePos]
    IN  /\ Sinks("take")
        /\ cur' = IF queueSize > 0 THEN b ELSE Nil
        /\ sink' = IF cur' = Nil THEN Consumed(output) ELSE "copy"
        /\ UNCHANGED <<buffer, blocks, thread, rest, output, ending, history>>

(* Mutant: the slot still names the blocks that were let go.               *)
CopyLaterForgets ==
    /\ Sinks("copy") /\ Len(output) + Len(text[cur]) > OutputMax
    /\ sink' = Consumed(output)
    /\ UNCHANGED <<buffer, blocks, thread, cur, rest, output, ending, history>>

(* The output buffer is full: the rest of the line stays in the slot.      *)
CopyLater ==
    /\ Sinks("copy") /\ Len(output) + Len(text[cur]) > OutputMax
    /\ slots' = [slots EXCEPT ![consumePos] = cur]
    /\ sink' = Consumed(output)
    /\ UNCHANGED <<queueSize, producePos, consumePos, blocks, thread, cur, rest, output,
                   ending, history>>

(* The next block of the chain, or the end of the line.                    *)
GoOn(b) == cur' = b /\ sink' = IF b = Nil THEN "empty" ELSE "copy"

(* Copy a block and let it go: delete, or the first half of recycle().     *)
Copy ==
    /\ Sinks("copy") /\ Len(output) + Len(text[cur]) <= OutputMax
    /\ output' = output \o text[cur]
    /\ used' = [used EXCEPT ![cur] = FALSE]
    /\ IF cur \in Reusable
       THEN /\ rest' = link[cur] /\ sink' = "clear"
            /\ UNCHANGED <<text, link, cur>>
       ELSE /\ text' = [text EXCEPT ![cur] = <<>>] /\ link' = [link EXCEPT ![cur] = Nil]
            /\ GoOn(link[cur]) /\ UNCHANGED rest
    /\ UNCHANGED <<buffer, next, thread, ending, history>>

(* The second half: _size = 0, _next = 0.                                  *)
Clear ==
    /\ Sinks("clear")
    /\ text' = [text EXCEPT ![cur] = <<>>] /\ link' = [link EXCEPT ![cur] = Nil]
    /\ raced' = (raced \/ used[cur])
    /\ rest' = Nil /\ GoOn(rest)
    /\ UNCHANGED <<buffer, next, used, thread, output, ending, order, before, short,
                   early>>

(* The line is done: empty the slot, and only then give it up.             *)
EmptySlot ==
    /\ Sinks("empty")
    /\ slots' = [slots EXCEPT ![consumePos] = Nil]
    /\ consumePos' = (consumePos + 1) % ListMax
    /\ sink' = "count"
    /\ UNCHANGED <<queueSize, producePos, blocks, thread, cur, rest, output, ending, history>>

Count ==
    /\ Sinks("count")
    /\ queueSize' = queueSize - 1
    /\ sink' = "take"
    /\ UNCHANGED <<producePos, consumePos, slots, blocks, thread, cur, rest, output,
                   ending, history>>

(* Nothing was read.                                                       *)
Idle ==
    /\ Sinks("idle")
    /\ sink' = IF queueSize > 0 THEN "loop" ELSE "lock"
    /\ UNCHANGED <<buffer, blocks, thread, cur, rest, output, ending, history>>

(* Mutant: the sink does not look at the request of ~Logging.              *)
SleepIgnoresSync ==
    /\ Sinks("lock")
    /\ sink' = "wait"
    /\ destructor' = IF destructor = "waits" THEN "woken" ELSE destructor
    /\ UNCHANGED <<buffer, blocks, thread, cur, rest, output, threadSync, threadExit,
                   file, history>>

(* Under _condMutex: another round if ~Logging asks for it; else tell it   *)
(* that the ring is empty, and wait.                                       *)
Sleep ==
    /\ Sinks("lock")
    /\ sink' = IF threadSync THEN "loop" ELSE "wait"
    /\ threadSync' = FALSE
    /\ destructor' = IF ~threadSync /\ destructor = "waits" THEN "woken" ELSE destructor
    /\ UNCHANGED <<buffer, blocks, thread, cur, rest, output, threadExit, file, history>>

(* Mutant: wait instead of wait_for.                                       *)
WaitForever ==
    /\ Sinks("wait") /\ FALSE
    /\ UNCHANGED vars

(* wait_for returns after a second.                                        *)
WaitTimesOut ==
    /\ Sinks("wait")
    /\ sink' = "loop"
    /\ UNCHANGED <<buffer, blocks, thread, cur, rest, output, ending, history>>

(* LogFile::write; fwrite may fail after n parts.                          *)
WriteFile(n) ==
    /\ Sinks("write") /\ n <= Len(output)
    /\ file' = file \o SubSeq(output, 1, n)
    /\ short' = (short \/ n < Len(output))
    /\ output' = <<>>
    /\ sink' = "loop"
    /\ UNCHANGED <<buffer, blocks, thread, cur, rest, threadSync, threadExit,
                   destructor, order, before, raced, early>>

-----------------------------------------------------------------------------
(* ~Logging, on a thread that does not log any more; others still may.     *)

Logged == UNION {{<<t, n>> : n \in 1..(line[t] - 1)} : t \in Threads}

BeginExit ==
    /\ destructor = "no"
    /\ destructor' = "waits" /\ threadSync' = TRUE
    /\ before' = Logged
    /\ sink' = Notified
    /\ UNCHANGED <<buffer, blocks, thread, cur, rest, output, threadExit, file,
                   order, raced, short, early>>

(* wait() may return without a notification, and no predicate is asked.    *)
WakesEarly ==
    /\ destructor = "waits"
    /\ destructor' = "woken" /\ early' = TRUE
    /\ UNCHANGED <<buffer, blocks, thread, sinking, threadSync, threadExit, file, order,
                   before, raced, short>>

StopSink ==
    /\ destructor = "woken"
    /\ destructor' = "joins" /\ threadExit' = TRUE
    /\ sink' = Notified
    /\ UNCHANGED <<buffer, blocks, thread, cur, rest, output, threadSync, file, history>>

Join ==
    /\ destructor = "joins" /\ sink = "end"
    /\ destructor' = "done"
    /\ UNCHANGED <<buffer, blocks, thread, sinking, threadSync, threadExit, file, history>>

-----------------------------------------------------------------------------
Thread(t) ==
    \/ StartChain(t) \/ WritePart(t) \/ Extend(t) \/ LinkNext(t)
    \/ Reserve(t) \/ BackOff(t) \/ Place(t) \/ Publish(t)

Sink ==
    \/ SinkLoop \/ Take \/ CopyLater \/ Copy \/ Clear
    \/ EmptySlot \/ Count \/ Idle \/ Sleep \/ WaitTimesOut
    \/ \E n \in 0..OutputMax : WriteFile(n)

Next ==
    \/ \E t \in Threads : Thread(t)
    \/ Sink
    \/ BeginExit \/ WakesEarly \/ StopSink \/ Join

(* Threads that log go on, wait_for times out, and the sink runs.          *)
Spec ==
    /\ Init /\ [][Next]_vars
    /\ \A t \in Threads : WF_vars(Thread(t))
    /\ WF_vars(Sink)
    /\ WF_vars(StopSink \/ Join)

-----------------------------------------------------------------------------
(* Properties.                                                             *)

(* The text of the first k lines of a list, for each k.                    *)
TextUpTo(lines) ==
    LET upTo[k \in 0..Len(lines)] ==
            IF k = 0 THEN <<>> ELSE upTo[k - 1] \o TextOf(lines[k][1], lines[k][2])
    IN  upTo

AllLines == TextUpTo(order)[Len(order)]

(* The file holds the lines whole, each once, in the order of their slots: *)
(* nothing is lost between threads that fill the ring and the sink that    *)
(* empties it, nor when a line is cut between two writes.                  *)
LinesInOrder == raced \/ short \/ IsPrefix(file \o output, AllLines)

(* A block that a thread took, because _used was 0, is its own: the line   *)
(* written there reaches the file whole.                                   *)
BlockIsOwned == short \/ IsPrefix(file \o output, AllLines)

(* Every line reaches the file, though a notification may come when the    *)
(* sink is about to wait and is lost.                                      *)
LinesReachFile ==
    []<>(raced \/ short \/ destructor # "no" \/ file = AllLines)

(* Every line that was logged before ~Logging began is in the file.        *)
Flushed == \A l \in before : \A i \in 1..Parts[l[1]] : Contains(file, <<l[1], l[2], i>>)

(* ~Logging does not go on from its wait, nor ends the sink, while a line  *)
(* that was logged before it began is not whole in the file, though lines  *)
(* are logged and the sink falls asleep at any time around it, unless the  *)
(* wait itself returns too early.                                          *)
ExitIsComplete ==
    destructor \in {"woken", "joins", "done"} => Flushed \/ raced \/ short \/ early

(* ~Logging returns, with those lines in the file.                         *)
ExitFlushes ==
    destructor = "waits" ~> (destructor = "done" /\ (Flushed \/ early)) \/ raced \/ short
=============================================================================
