----------------------------- MODULE ByteBuffer -----------------------------
(***************************************************************************)
(* lin_io::ByteBuffer (utils/bytebuffer.h): one block of memory with a     *)
(* read offset and a write offset.  The connections, the serializer and    *)
(* the packets keep their bytes in it.                                     *)
(*                                                                         *)
(*      hole           size            space                               *)
(*   [          ********************             ]   0 .. cap - 1           *)
(*              head                tail                                   *)
(***************************************************************************)
EXTENDS Integers, Sequences, FiniteSetsExt

CONSTANTS
    Bytes,          \* values of a byte
    Indeterminate,  \* content of memory nobody has written
    StackSize,      \* 1024 in the code: the buffer inside the object
    BlockSize,      \* 4096 in the code: heap blocks are multiples of it
    Slack,          \* 1024 in the code: less than this is not worth moving
    Limits,         \* limits the user may ask for
    MaxAdd,         \* longest single write of the model
    MaxCap          \* bound on the capacity the model lets grow

ASSUME SizesAssumption ==
    /\ {StackSize, BlockSize, Slack, MaxAdd, MaxCap} \subseteq Nat \ {0}
    /\ Limits \subseteq Nat
    /\ StackSize <= Slack
    /\ Indeterminate \notin Bytes

VARIABLES buf,    \* the object: cap, head, tail, mem, limit, mark, x2
          threw   \* the last call threw ResourceLimitException

vars == <<buf, threw>>

Cell == Bytes \cup {Indeterminate}

Fresh(n) == [i \in 0..n-1 |-> Indeterminate]

Size(b) == b.tail - b.head

Space(b) == b.cap - b.tail

Contents(b) == [i \in 1..Size(b) |-> b.mem[b.head + i - 1]]

Init ==
    /\ threw = FALSE
    /\ \E x2 \in BOOLEAN, n \in Limits :
         buf = [cap |-> StackSize, head |-> 0, tail |-> 0,
                mem |-> Fresh(StackSize), limit |-> n, mark |-> 0, x2 |-> x2]

-----------------------------------------------------------------------------
(* Growth.                                                                 *)

BlockedSize(n) == ((n + BlockSize - 1) \div BlockSize) * BlockSize

(* k shifts by one bit.                                                    *)
Shifted[k \in Nat] == IF k = 0 THEN 1 ELSE 2 * Shifted[k - 1]

(* The doubling of alloc_size: the first of cap, 2 * cap, 4 * cap, ...     *)
(* that is not below n.                                                    *)
Doubled(cap, n) == Min({m \in {cap * Shifted[k] : k \in 0..n} : m >= n})

AllocSize(b, n) == BlockedSize(IF b.x2 THEN Doubled(b.cap, n) ELSE n)

(* The bytes in use move to the front of a block of newCap bytes.          *)
Moved(b, newCap) ==
    [b EXCEPT !.cap = newCap, !.head = 0, !.tail = Size(b),
              !.mem = [i \in 0..newCap-1 |->
                         IF i < Size(b) THEN b.mem[b.head + i]
                                        ELSE Indeterminate]]

(* Mutant: the offsets are reset but the bytes stay where they were.       *)
RecycledInPlace(b) == [b EXCEPT !.head = 0, !.tail = Size(b)]

(* memmove inside the block: cells behind the moved bytes keep what they   *)
(* held.                                                                   *)
Recycled(b) ==
    [b EXCEPT !.head = 0, !.tail = Size(b),
              !.mem = [i \in 0..b.cap-1 |->
                         IF i < Size(b) THEN b.mem[b.head + i] ELSE b.mem[i]]]

Overflows(b, n) == b.head + Space(b) < n /\ Size(b) + n > b.limit

(* Mutant: the hole in front counts as room behind the tail.               *)
ReservedInHole(b, n) ==
    IF b.head + Space(b) >= n THEN b
    ELSE Moved(b, AllocSize(b, Size(b) + n))

(* reserve(n): n contiguous cells behind the tail.                         *)
Reserved(b, n) ==
    IF Space(b) >= n THEN b
    ELSE IF b.head + Space(b) >= n THEN Recycled(b)
    ELSE Moved(b, AllocSize(b, Size(b) + n))

Marked(b) == [b EXCEPT !.mark = Max({@, Size(b)})]

Filled(b, bs) ==
    [b EXCEPT !.tail = @ + Len(bs),
              !.mem = [i \in DOMAIN b.mem |->
                         IF i \in b.tail .. b.tail + Len(bs) - 1
                         THEN bs[i - b.tail + 1] ELSE b.mem[i]]]

-----------------------------------------------------------------------------
(* Operations.                                                             *)

Strings == UNION {[1..n -> Bytes] : n \in 1..MaxAdd}

Throws(n) ==
    /\ Overflows(buf, n)
    /\ threw' = TRUE
    /\ UNCHANGED buf

Returns(b) ==
    /\ b.cap <= MaxCap
    /\ buf' = b
    /\ threw' = FALSE

(* write and write_u8 .. write_u64: reserve, copy, raise the mark.         *)
Write(bs) ==
    \/ Throws(Len(bs))
    \/ /\ ~Overflows(buf, Len(bs))
       /\ Returns(Marked(Filled(Reserved(buf, Len(bs)), bs)))

(* The use for input: reserve n, let the system call fill some of it,      *)
(* advance by what arrived.  A varint is written in the same way, with     *)
(* room for the longest one.                                               *)
ReadInto(n, bs) ==
    /\ Len(bs) <= n
    /\ \/ Throws(n)
       \/ ~Overflows(buf, n) /\ Returns(Marked(Filled(Reserved(buf, n), bs)))

(* forward (Put, Push): as write, but the mark stays.                      *)
Forward(bs) ==
    \/ Throws(Len(bs))
    \/ ~Overflows(buf, Len(bs)) /\ Returns(Filled(Reserved(buf, Len(bs)), bs))

(* back (Pop): a longer step than there is data is ignored.                *)
Back(n) ==
    Returns(IF Size(buf) >= n THEN [buf EXCEPT !.tail = @ - n] ELSE buf)

Reset(b) == [b EXCEPT !.head = 0, !.tail = 0]

Erase(n) ==
    LET k == Min({n, Size(buf)})
    IN  Returns(IF buf.head + k >= buf.tail THEN Reset(buf)
                                            ELSE [buf EXCEPT !.head = @ + k])

EraseAll == Returns(Reset(buf))

(* read_varint: the n bytes of a whole varint, which Varint::read finds at *)
(* the front, are passed over; unlike erase it leaves an empty buffer      *)
(* where it is.  Without a whole varint nothing changes.                   *)
ReadVarint(n) ==
    Returns(IF n <= Size(buf) THEN [buf EXCEPT !.head = @ + n] ELSE buf)

Resize(n) ==
    LET more == n - Size(buf)
        b    == IF more > 0 THEN Reserved(buf, more) ELSE buf
    IN  \/ more > 0 /\ Throws(more)
        \/ /\ ~(more > 0 /\ Overflows(buf, more))
           /\ Returns(Marked([b EXCEPT !.tail = b.head + n]))

(* Mutant: a buffer with little to gain is moved all the same.             *)
CompactedAlways(b, minCapacity) ==
    IF b.cap < minCapacity THEN b
    ELSE [Moved(b, BlockedSize(Max({Size(b), minCapacity})))
            EXCEPT !.mark = Size(b)]

Compacted(b, minCapacity) ==
    IF b.cap <= minCapacity \/ b.cap - Size(b) <= Slack THEN b
    ELSE [Moved(b, BlockedSize(Max({Size(b), minCapacity})))
            EXCEPT !.mark = Size(b)]

(* What callers keep: compact(0) of an empty buffer would leave a capacity *)
(* of zero, which the doubling of alloc_size can never leave again.        *)
MinCapacities == {1, BlockSize}

Compact(minCapacity) == Returns(Compacted(buf, minCapacity))

(* (_cap - _high_water_mark) / 2 is an unsigned division; both operands    *)
(* are below 2^32 and the mark never passes the capacity (TypeOK).         *)
Gc ==
    LET gcsize == (buf.cap - buf.mark) \div 2
    IN  Returns(IF gcsize < Slack THEN buf
                ELSE Compacted(buf, Size(buf) + gcsize))

SetLimit(n) == Returns([buf EXCEPT !.limit = Max({n, Size(buf)})])

Next ==
    \/ \E bs \in Strings : Write(bs) \/ Forward(bs)
    \/ \E n \in 1..MaxAdd : Back(n) \/ Erase(n) \/ ReadVarint(n)
    \/ \E n \in 1..MaxAdd, bs \in Strings \cup {<<>>} : ReadInto(n, bs)
    \/ \E n \in 0..Size(buf) + MaxAdd : Resize(n)
    \/ EraseAll \/ Gc
    \/ \E n \in MinCapacities : Compact(n)
    \/ \E n \in Limits : SetLimit(n)

Spec == Init /\ [][Next]_vars

-----------------------------------------------------------------------------
(* Properties.                                                             *)

(* The offsets stay ordered and inside the block, which is the stack       *)
(* buffer or a multiple of the block size, and so does the high water mark *)
(* through any mix of growth, compaction and writes that do not raise it:  *)
(* gc subtracts the mark from the capacity without a sign.                 *)
TypeOK ==
    /\ threw \in BOOLEAN
    /\ buf.mem \in [0..buf.cap-1 -> Cell]
    /\ 0 <= buf.head /\ buf.head <= buf.tail /\ buf.tail <= buf.cap
    /\ buf.cap = StackSize \/ buf.cap % BlockSize = 0
    /\ buf.limit \in Nat /\ buf.mark \in 0..buf.cap /\ buf.x2 \in BOOLEAN

(* compact and gc return the bytes they freed as an unsigned difference of *)
(* capacities: neither may ever move to a larger block, the stack buffer   *)
(* (which is no multiple of the block size) included.                      *)
CompactNeverGrows ==
    [][Gc \/ (\E n \in MinCapacities : Compact(n)) => buf'.cap <= buf.cap]_vars

Queue == INSTANCE ByteQueue WITH items <- Contents(buf), limit <- buf.limit

(* Hole, recycling, doubling and compaction are invisible: the buffer      *)
(* behaves as a queue of bytes that refuses only what passes its limit.    *)
ImplementsQueue == Queue!Spec
=============================================================================
