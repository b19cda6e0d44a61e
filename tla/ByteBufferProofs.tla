--------------------------- MODULE ByteBufferProofs ---------------------------
(***************************************************************************)
(* Proofs about ByteBuffer for buffers, blocks, limits and writes of any   *)
(* size: the offsets stay inside the block, compaction never grows it, and *)
(* the buffer is a queue of bytes.                                         *)
(***************************************************************************)
EXTENDS ByteBuffer, WellFoundedInduction, TLAPS

-----------------------------------------------------------------------------
(* Natural numbers.                                                        *)

\* Every nonempty set of natural numbers has a least element.
LEMMA LeastNatural ==
  ASSUME NEW T, T \subseteq Nat, T # {}
  PROVE  \E x \in T : \A y \in T : x <= y
<1>1. PICK x \in T : \A y \in T : ~(<<y, x>> \in OpToRel(<, Nat))
  BY NatLessThanWellFounded, WFMin, Zenon
<1>2. \A y \in Nat : <<y, x>> \in OpToRel(<, Nat) <=> y < x
  BY DEF OpToRel
<1>3. \A y \in T : ~(y < x)
  BY <1>1, <1>2, Zenon
<1> QED
  BY <1>3

-----------------------------------------------------------------------------
(* Arithmetic of the growth.                                               *)

\* The doubling is well defined: there is a function that satisfies the
\* recursion of Shifted.
LEMMA ShiftedDef ==
  /\ Shifted \in [Nat -> Nat] /\ Shifted[0] = 1
  /\ \A k \in Nat \ {0} : Shifted[k] = 2 * Shifted[k - 1]
<1> DEFINE Upto(n, g) == /\ g \in [0..n -> Nat] /\ g[0] = 1
                         /\ \A k \in 1..n : g[k] = 2 * g[k - 1]
<1>1. \A n \in Nat : \E g : Upto(n, g)
  <2> DEFINE T == {n \in Nat : ~ \E g : Upto(n, g)}
  <2>1. SUFFICES ASSUME T # {} PROVE FALSE
    OBVIOUS
  <2>2. PICK n \in T : \A m \in T : n <= m
    BY <2>1, LeastNatural
  <2>3. n # 0
    <3>1. Upto(0, [k \in 0..0 |-> 1])
      OBVIOUS
    <3> QED
      BY <2>2, <3>1
  <2>4. PICK g : Upto(n - 1, g)
    <3> HIDE DEF Upto
    <3>1. n \in Nat
      OBVIOUS
    <3>2. n - 1 \in Nat /\ n - 1 \notin T
      <4> HIDE DEF T
      <4> QED
        BY <2>2, <2>3, <3>1
    <3> QED
      BY <3>2
  <2>5. Upto(n, [k \in 0..n |-> IF k = n THEN 2 * g[n - 1] ELSE g[k]])
    BY <2>2, <2>3, <2>4, SMTT(30)
  <2> QED
    BY <2>2, <2>5
<1>2. ASSUME NEW n \in Nat, NEW g, NEW h, Upto(n, g), Upto(n, h) PROVE g[n] = h[n]
  <2> DEFINE T == {k \in 0..n : g[k] # h[k]}
  <2>1. SUFFICES ASSUME T # {} PROVE FALSE
    <3> HIDE DEF Upto
    <3> QED
      OBVIOUS
  <2>2. PICK k \in T : \A m \in T : k <= m
    <3>1. T \subseteq Nat
      OBVIOUS
    <3> HIDE DEF T
    <3> QED
      BY <2>1, <3>1, LeastNatural
  <2>3. k # 0
    BY <1>2, <2>2
  <2>4. g[k - 1] = h[k - 1]
    BY <2>2, <2>3
  <2> QED
    BY <1>2, <2>2, <2>3, <2>4
<1> DEFINE A(n) == CHOOSE g : Upto(n, g)
           S == [n \in Nat |-> A(n)[n]]
<1>3. \A n \in Nat : Upto(n, A(n))
  BY <1>1
<1> HIDE DEF A
<1>4. S \in [Nat -> Nat] /\ S[0] = 1
  BY <1>3
<1>5. ASSUME NEW k \in Nat \ {0} PROVE S[k] = 2 * S[k - 1]
  <2>1. Upto(k - 1, [i \in 0..(k - 1) |-> A(k)[i]])
    <3>1. /\ A(k) \in [0..k -> Nat] /\ A(k)[0] = 1
          /\ \A i \in 1..k : A(k)[i] = 2 * A(k)[i - 1]
      BY <1>3
    <3>2. \A i \in 0..(k - 1) : i \in 0..k /\ A(k)[i] \in Nat
      BY <3>1
    <3>3. \A i \in 1..(k - 1) : i - 1 \in 0..(k - 1) /\ i \in 0..(k - 1) /\ i \in 1..k
      OBVIOUS
    <3>4. 0 \in 0..(k - 1)
      OBVIOUS
    <3> QED
      BY <3>1, <3>2, <3>3, <3>4
  <2>2. Upto(k - 1, A(k - 1))
    BY <1>3
  <2>3. A(k)[k - 1] = A(k - 1)[k - 1]
    <3> HIDE DEF Upto
    <3>1. [i \in 0..(k - 1) |-> A(k)[i]][k - 1] = A(k - 1)[k - 1]
      BY <1>2, <2>1, <2>2
    <3> QED
      BY <3>1
  <2>4. A(k)[k] = 2 * A(k)[k - 1]
    BY <1>3
  <2> QED
    BY <2>3, <2>4
<1> HIDE DEF S
<1>6. S = [k \in Nat |-> IF k = 0 THEN 1 ELSE 2 * S[k - 1]]
  BY <1>4, <1>5
<1>7. Shifted = CHOOSE f : f = [k \in Nat |-> IF k = 0 THEN 1 ELSE 2 * f[k - 1]]
  BY DEF Shifted
<1>8. Shifted = [k \in Nat |-> IF k = 0 THEN 1 ELSE 2 * Shifted[k - 1]]
  BY <1>6, <1>7
<1>9. \A k \in Nat : Shifted[k] \in Nat
  <2> DEFINE T == {k \in Nat : Shifted[k] \notin Nat}
  <2>1. SUFFICES ASSUME T # {} PROVE FALSE
    OBVIOUS
  <2>2. PICK k \in T : \A m \in T : k <= m
    BY <2>1, LeastNatural
  <2>3. k # 0
    BY <1>8, <2>2
  <2>4. Shifted[k - 1] \in Nat
    BY <2>2, <2>3
  <2> QED
    BY <1>8, <2>2, <2>3, <2>4
<1> QED
  BY <1>8, <1>9

\* n shifts pass n.
LEMMA ShiftedPasses == \A n \in Nat : Shifted[n] > n
<1> DEFINE T == {n \in Nat : ~(Shifted[n] > n)}
<1>1. SUFFICES ASSUME T # {} PROVE FALSE
  OBVIOUS
<1>2. PICK n \in T : \A m \in T : n <= m
  BY <1>1, LeastNatural
<1>3. n # 0
  BY <1>2, ShiftedDef
<1>4. Shifted[n - 1] > n - 1 /\ Shifted[n] = 2 * Shifted[n - 1] /\ Shifted[n - 1] \in Nat
  BY <1>2, <1>3, ShiftedDef
<1> QED
  BY <1>2, <1>3, <1>4

\* Min of a set of naturals is its least element.
LEMMA MinOf ==
  ASSUME NEW S, S \subseteq Nat, S # {} PROVE Min(S) \in S /\ \A x \in S : Min(S) <= x
<1>1. \E x \in S : \A y \in S : x <= y
  BY LeastNatural
<1> QED
  BY <1>1 DEF Min

\* Min of two numbers.
LEMMA MinOfTwo ==
  ASSUME NEW a \in Nat, NEW b \in Nat PROVE Min({a, b}) = IF a <= b THEN a ELSE b
<1>1. Min({a, b}) \in {a, b} /\ \A x \in {a, b} : Min({a, b}) <= x
  BY MinOf
<1> QED
  BY <1>1

\* Max of two numbers.
LEMMA MaxOfTwo ==
  ASSUME NEW a \in Nat, NEW b \in Nat PROVE Max({a, b}) = IF a >= b THEN a ELSE b
<1>1. \E x \in {a, b} : \A y \in {a, b} : x >= y
  OBVIOUS
<1>2. Max({a, b}) \in {a, b} /\ \A x \in {a, b} : Max({a, b}) >= x
  BY <1>1 DEF Max
<1> QED
  BY <1>2

\* A rounded size is a number of blocks and the least one that is large enough.
LEMMA BlockedSizeSpec ==
  ASSUME NEW n \in Nat
  PROVE  /\ BlockedSize(n) \in Nat /\ BlockedSize(n) >= n
         /\ BlockedSize(n) % BlockSize = 0
         /\ \A m \in Nat : m % BlockSize = 0 /\ n <= m => BlockedSize(n) <= m
<1> DEFINE q == (n + BlockSize - 1) \div BlockSize
<1>0. BlockSize \in Nat \ {0}
  BY SizesAssumption
<1>1. /\ q \in Nat /\ q * BlockSize \in Nat /\ q * BlockSize >= n
      /\ q * BlockSize <= n + BlockSize - 1
  BY <1>0
<1>2. (q * BlockSize) % BlockSize = 0
  BY <1>0
<1>3. ASSUME NEW m \in Nat, m % BlockSize = 0, n <= m PROVE q * BlockSize <= m
  <2> DEFINE k == m \div BlockSize
  <2>1. k \in Nat /\ m = k * BlockSize
    BY <1>0, <1>3
  <2> HIDE DEF k, q
  <2>2. SUFFICES ASSUME q > k PROVE FALSE
    BY <1>0, <1>1, <2>1
  <2>3. (k + 1) * BlockSize <= q * BlockSize
    BY <1>0, <1>1, <2>1, <2>2
  <2> QED
    BY <1>0, <1>1, <1>3, <2>1, <2>3
<1> QED
  BY <1>1, <1>2, <1>3 DEF BlockedSize

\* alloc_size gives at least what is asked for, in whole blocks.
LEMMA AllocSizeSpec ==
  ASSUME NEW b, b.cap \in Nat \ {0}, NEW n \in Nat
  PROVE  /\ AllocSize(b, n) \in Nat /\ AllocSize(b, n) >= n
         /\ AllocSize(b, n) % BlockSize = 0
<1>1. Doubled(b.cap, n) \in Nat /\ Doubled(b.cap, n) >= n
  <2> DEFINE S == {m \in {b.cap * Shifted[k] : k \in 0..n} : m >= n}
  <2>1. S \subseteq Nat
    BY ShiftedDef
  <2>2. b.cap * Shifted[n] \in S
    <3>1. \A x \in Nat \ {0}, y \in Nat : x * y \in Nat /\ x * y >= y
      OBVIOUS
    <3>2. Shifted[n] \in Nat /\ Shifted[n] > n /\ n \in 0..n
      BY ShiftedDef, ShiftedPasses
    <3> QED
      BY <3>1, <3>2
  <2>3. Min(S) \in S
    <3> HIDE DEF S
    <3> QED
      BY <2>1, <2>2, MinOf
  <2> QED
    BY <2>1, <2>3 DEF Doubled
<1> QED
  BY <1>1, BlockedSizeSpec DEF AllocSize

-----------------------------------------------------------------------------
(* What the operations on a buffer keep.                                   *)

Buffer ==
    [cap : Nat \ {0}, head : Nat, tail : Nat,
     mem : UNION {[0..n-1 -> Cell] : n \in Nat},
     limit : Nat, mark : Nat, x2 : BOOLEAN]

(* TypeOK of one buffer, and its capacity is never 0.                      *)
Valid(b) ==
    /\ b \in Buffer
    /\ b.mem \in [0..b.cap-1 -> Cell]
    /\ b.head <= b.tail /\ b.tail <= b.cap /\ b.mark <= b.cap
    /\ b.cap = StackSize \/ b.cap % BlockSize = 0

(* The same bytes under the same limit.                                    *)
Same(b, a) == Contents(b) = Contents(a) /\ b.limit = a.limit /\ Size(b) = Size(a)

\* What a valid buffer's sizes are.
LEMMA Sizes ==
  ASSUME NEW b, Valid(b)
  PROVE  /\ b.cap \in Nat \ {0} /\ b.head \in Nat /\ b.tail \in Nat /\ b.limit \in Nat
         /\ b.mark \in Nat /\ b.x2 \in BOOLEAN
         /\ Size(b) \in Nat /\ Size(b) <= b.cap /\ Space(b) \in Nat
         /\ b.tail = b.head + Size(b) /\ b.cap = b.head + Size(b) + Space(b)
         /\ Contents(b) \in Seq(Cell) /\ Len(Contents(b)) = Size(b)
         /\ DOMAIN Contents(b) = 1..Size(b)
         /\ \A i \in 1..Size(b) : Contents(b)[i] = b.mem[b.head + i - 1]
<1>1. /\ b.cap \in Nat \ {0} /\ b.head \in Nat /\ b.tail \in Nat /\ b.limit \in Nat
      /\ b.mark \in Nat /\ b.x2 \in BOOLEAN
      /\ b.head <= b.tail /\ b.tail <= b.cap /\ b.mem \in [0..b.cap-1 -> Cell]
  BY DEF Valid, Buffer
<1>2. /\ Size(b) \in Nat /\ Size(b) <= b.cap /\ Space(b) \in Nat
      /\ b.tail = b.head + Size(b) /\ b.cap = b.head + Size(b) + Space(b)
  BY <1>1 DEF Size, Space
<1>3. \A i \in 1..Size(b) : b.mem[b.head + i - 1] \in Cell
  <2> SUFFICES ASSUME NEW i \in 1..Size(b) PROVE b.mem[b.head + i - 1] \in Cell
    OBVIOUS
  <2>1. b.head + i - 1 \in 0..b.cap-1
    BY <1>1, <1>2, SMTT(30)
  <2> QED
    BY <1>1, <2>1
<1>4. /\ Contents(b) \in Seq(Cell) /\ Len(Contents(b)) = Size(b)
      /\ DOMAIN Contents(b) = 1..Size(b)
      /\ \A i \in 1..Size(b) : Contents(b)[i] = b.mem[b.head + i - 1]
  BY <1>2, <1>3 DEF Contents
<1> QED
  BY <1>1, <1>2, <1>4

\* Buffers with the same number of bytes and the same bytes have equal contents.
LEMMA SameContents ==
  ASSUME NEW b, NEW a, Size(b) = Size(a),
         \A i \in 1..Size(a) : b.mem[b.head + i - 1] = a.mem[a.head + i - 1]
  PROVE  Contents(b) = Contents(a)
BY DEF Contents

\* The bytes in use move to the front of another block.
LEMMA MovedSpec ==
  ASSUME NEW b, Valid(b), NEW c \in Nat \ {0}, c >= Size(b), c >= b.mark,
         c % BlockSize = 0
  PROVE  /\ Valid(Moved(b, c)) /\ Same(Moved(b, c), b)
         /\ Moved(b, c).cap = c /\ Space(Moved(b, c)) = c - Size(b)
<1> DEFINE m == Moved(b, c)
           mem == [i \in 0..c-1 |-> IF i < Size(b) THEN b.mem[b.head + i]
                                                   ELSE Indeterminate]
<1>1. b \in Buffer /\ b.mem \in [0..b.cap-1 -> Cell]
  BY DEF Valid
<1>2. mem \in [0..c-1 -> Cell]
  <2> SUFFICES ASSUME NEW i \in 0..c-1, i < Size(b) PROVE b.mem[b.head + i] \in Cell
    BY DEF Cell
  <2>1. b.head + i \in 0..b.cap-1
    BY Sizes, SMTT(30)
  <2> QED
    BY <1>1, <2>1
<1>3. m = [b EXCEPT !.cap = c, !.head = 0, !.tail = Size(b), !.mem = mem]
  BY DEF Moved
<1> HIDE DEF mem, m
<1>4. /\ m.cap = c /\ m.head = 0 /\ m.tail = Size(b) /\ m.mem = mem
      /\ m.limit = b.limit /\ m.mark = b.mark /\ m.x2 = b.x2
  BY <1>1, <1>3 DEF Buffer
<1>5. mem \in UNION {[0..n-1 -> Cell] : n \in Nat}
  BY <1>2
<1>6. m \in Buffer
  <2>1. Size(b) \in Nat /\ 0 \in Nat
    BY Sizes
  <2> QED
    BY <1>1, <1>3, <1>5, <2>1 DEF Buffer
<1>7. Valid(m)
  BY <1>2, <1>4, <1>6, Sizes DEF Valid
<1>8. Size(m) = Size(b) /\ Space(m) = c - Size(b)
  BY <1>4, Sizes DEF Size, Space
<1>9. \A i \in 1..Size(b) : m.mem[m.head + i - 1] = b.mem[b.head + i - 1]
  <2> SUFFICES ASSUME NEW i \in 1..Size(b)
               PROVE  m.mem[m.head + i - 1] = b.mem[b.head + i - 1]
    OBVIOUS
  <2>1. /\ m.head + i - 1 = i - 1 /\ i - 1 \in 0..c-1 /\ i - 1 < Size(b)
        /\ b.head + (i - 1) = b.head + i - 1
    BY <1>4, Sizes
  <2> QED
    BY <1>4, <2>1 DEF mem
<1> QED
  BY <1>4, <1>7, <1>8, <1>9, SameContents DEF Same, m

\* memmove inside the block.
LEMMA RecycledSpec ==
  ASSUME NEW b, Valid(b)
  PROVE  /\ Valid(Recycled(b)) /\ Same(Recycled(b), b)
         /\ Space(Recycled(b)) = b.head + Space(b)
<1> DEFINE m == Recycled(b)
           mem == [i \in 0..b.cap-1 |-> IF i < Size(b) THEN b.mem[b.head + i]
                                                       ELSE b.mem[i]]
<1>1. b \in Buffer /\ b.mem \in [0..b.cap-1 -> Cell]
  BY DEF Valid
<1>2. mem \in [0..b.cap-1 -> Cell]
  <2> SUFFICES ASSUME NEW i \in 0..b.cap-1, i < Size(b) PROVE b.mem[b.head + i] \in Cell
    BY <1>1
  <2>1. b.head + i \in 0..b.cap-1
    BY Sizes
  <2> QED
    BY <1>1, <2>1
<1>3. m = [b EXCEPT !.head = 0, !.tail = Size(b), !.mem = mem]
  BY DEF Recycled
<1> HIDE DEF mem, m
<1>4. /\ m.cap = b.cap /\ m.head = 0 /\ m.tail = Size(b) /\ m.mem = mem
      /\ m.limit = b.limit /\ m.mark = b.mark /\ m.x2 = b.x2
  BY <1>1, <1>3 DEF Buffer
<1>5. mem \in UNION {[0..n-1 -> Cell] : n \in Nat}
  BY <1>2, Sizes
<1>6. m \in Buffer
  <2>1. Size(b) \in Nat /\ 0 \in Nat
    BY Sizes
  <2> QED
    BY <1>1, <1>3, <1>5, <2>1 DEF Buffer
<1>7. Valid(m)
  BY <1>2, <1>4, <1>6, Sizes DEF Valid
<1>8. Size(m) = Size(b) /\ Space(m) = b.head + Space(b)
  BY <1>4, Sizes DEF Size, Space
<1>9. \A i \in 1..Size(b) : m.mem[m.head + i - 1] = b.mem[b.head + i - 1]
  <2> SUFFICES ASSUME NEW i \in 1..Size(b)
               PROVE  m.mem[m.head + i - 1] = b.mem[b.head + i - 1]
    OBVIOUS
  <2>1. /\ m.head + i - 1 = i - 1 /\ i - 1 \in 0..b.cap-1 /\ i - 1 < Size(b)
        /\ b.head + (i - 1) = b.head + i - 1
    BY <1>4, Sizes
  <2> QED
    BY <1>4, <2>1 DEF mem
<1> QED
  BY <1>7, <1>8, <1>9, <1>4, SameContents DEF Same, m

\* reserve leaves the bytes alone and gives the room that was asked for.
LEMMA ReservedSpec ==
  ASSUME NEW b, Valid(b), NEW n \in Nat \ {0}
  PROVE  Valid(Reserved(b, n)) /\ Same(Reserved(b, n), b) /\ Space(Reserved(b, n)) >= n
<1>0. /\ b.head \in Nat /\ Space(b) \in Nat /\ Size(b) \in Nat /\ b.cap \in Nat \ {0}
      /\ b.cap = b.head + Size(b) + Space(b) /\ b.mark \in Nat /\ b.mark <= b.cap
  BY Sizes DEF Valid
<1>1. CASE Space(b) >= n
  BY <1>1 DEF Reserved, Same
<1>2. CASE ~(Space(b) >= n) /\ b.head + Space(b) >= n
  BY <1>2, RecycledSpec DEF Reserved
<1>3. CASE ~(Space(b) >= n) /\ ~(b.head + Space(b) >= n)
  <2> DEFINE c == AllocSize(b, Size(b) + n)
  <2>1. c \in Nat /\ c >= Size(b) + n /\ c % BlockSize = 0
    BY <1>0, AllocSizeSpec
  <2> HIDE DEF c
  <2>2. c \in Nat \ {0} /\ c >= Size(b) /\ c >= b.mark /\ c - Size(b) >= n
    BY <1>0, <1>3, <2>1
  <2>3. Reserved(b, n) = Moved(b, c)
    BY <1>0, <1>3 DEF Reserved, c
  <2> QED
    BY <2>1, <2>2, <2>3, MovedSpec
<1> QED
  BY <1>1, <1>2, <1>3

\* Two sequences of one length with the same elements are equal.
LEMMA SeqEqual ==
  ASSUME NEW S, NEW s \in Seq(S), NEW t \in Seq(S), NEW n \in Nat, Len(s) = n, Len(t) = n,
         \A i \in 1..n : s[i] = t[i]
  PROVE  s = t
OBVIOUS

\* The mark is no part of the contents.
LEMMA MarkSpec ==
  ASSUME NEW b, Valid(b), NEW k \in Nat, k <= b.cap
  PROVE  Valid([b EXCEPT !.mark = k]) /\ Same([b EXCEPT !.mark = k], b)
<1> DEFINE m == [b EXCEPT !.mark = k]
<1>1. b \in Buffer
  BY DEF Valid
<1>2. m \in Buffer
  BY <1>1 DEF Buffer
<1>3. /\ m.cap = b.cap /\ m.head = b.head /\ m.tail = b.tail /\ m.mem = b.mem
      /\ m.limit = b.limit /\ m.mark = k
  BY <1>1 DEF Buffer
<1> HIDE DEF m
<1>4. Valid(m)
  BY <1>2, <1>3 DEF Valid
<1>5. Same(m, b)
  BY <1>3 DEF Same, Contents, Size
<1> QED
  BY <1>4, <1>5 DEF m

\* Copying bytes behind the tail appends them.
LEMMA FilledSpec ==
  ASSUME NEW b, Valid(b), NEW bs \in Seq(Cell), Len(bs) <= Space(b)
  PROVE  /\ Valid(Filled(b, bs)) /\ Contents(Filled(b, bs)) = Contents(b) \o bs
         /\ Filled(b, bs).limit = b.limit
<1> DEFINE m == Filled(b, bs)
           mem == [i \in 0..b.cap-1 |-> IF i \in b.tail .. b.tail + Len(bs) - 1
                                        THEN bs[i - b.tail + 1] ELSE b.mem[i]]
<1>0. /\ b.cap \in Nat /\ b.head \in Nat /\ b.tail \in Nat /\ Size(b) \in Nat /\ Len(bs) \in Nat
      /\ b.tail = b.head + Size(b) /\ b.tail + Len(bs) <= b.cap
  <2>1. /\ b.cap \in Nat /\ b.head \in Nat /\ b.tail \in Nat /\ Size(b) \in Nat
        /\ Space(b) \in Nat /\ b.tail = b.head + Size(b) /\ b.cap = b.head + Size(b) + Space(b)
    BY Sizes
  <2> QED
    BY <2>1
<1>1. b \in Buffer /\ b.mem \in [0..b.cap-1 -> Cell] /\ Len(bs) \in Nat
  BY DEF Valid
<1>2. mem \in [0..b.cap-1 -> Cell]
  <2> SUFFICES ASSUME NEW i \in 0..b.cap-1, i \in b.tail .. b.tail + Len(bs) - 1
               PROVE  bs[i - b.tail + 1] \in Cell
    BY <1>1
  <2>1. i - b.tail + 1 \in 1..Len(bs)
    BY <1>1, Sizes
  <2> QED
    BY <2>1
<1>3. m = [b EXCEPT !.tail = b.tail + Len(bs), !.mem = mem]
  <2>1. DOMAIN b.mem = 0..b.cap-1
    BY <1>1
  <2> QED
    BY <1>1, <2>1 DEF Filled, Buffer
<1> HIDE DEF mem, m
<1>4. /\ m.cap = b.cap /\ m.head = b.head /\ m.tail = b.tail + Len(bs) /\ m.mem = mem
      /\ m.limit = b.limit /\ m.mark = b.mark /\ m.x2 = b.x2
  BY <1>1, <1>3 DEF Buffer
<1>5. mem \in UNION {[0..n-1 -> Cell] : n \in Nat}
  BY <1>2, Sizes
<1>6. m \in Buffer
  <2>1. b.tail + Len(bs) \in Nat
    BY <1>1, Sizes
  <2> QED
    BY <1>1, <1>3, <1>5, <2>1 DEF Buffer
<1>7. Valid(m)
  BY <1>0, <1>2, <1>4, <1>6 DEF Valid
<1>8. Size(m) = Size(b) + Len(bs)
  BY <1>1, <1>4, Sizes DEF Size
<1>9. Contents(m) = Contents(b) \o bs
  <2>1. /\ Contents(m) \in Seq(Cell) /\ Len(Contents(m)) = Size(b) + Len(bs)
        /\ \A i \in 1..Size(m) : Contents(m)[i] = m.mem[m.head + i - 1]
    BY <1>7, <1>8, Sizes
  <2>2. Contents(b) \in Seq(Cell) /\ Len(Contents(b)) = Size(b) /\ Size(b) \in Nat
    BY Sizes
  <2>3. ASSUME NEW i \in 1..Size(b) PROVE Contents(m)[i] = Contents(b)[i]
    <3>1. i \in 1..Size(m) /\ b.head + i - 1 \in 0..b.cap-1 /\ b.head + i - 1 < b.tail
      BY <1>1, <1>8, Sizes, SMTT(30)
    <3>2. ~(b.head + i - 1 \in b.tail .. b.tail + Len(bs) - 1)
      BY <1>1, <3>1, Sizes
    <3>3. mem[b.head + i - 1] = b.mem[b.head + i - 1]
      BY <3>1, <3>2 DEF mem
    <3>4. Contents(b)[i] = b.mem[b.head + i - 1]
      BY Sizes
    <3> QED
      BY <1>4, <2>1, <3>1, <3>3, <3>4
  <2>4. ASSUME NEW i \in 1..Len(bs) PROVE Contents(m)[Size(b) + i] = bs[i]
    <3>1. /\ Size(b) + i \in 1..Size(m) /\ b.head + (Size(b) + i) - 1 = b.tail + i - 1
          /\ b.tail + i - 1 \in 0..b.cap-1
          /\ b.tail + i - 1 \in b.tail .. b.tail + Len(bs) - 1
          /\ (b.tail + i - 1) - b.tail + 1 = i
      <4>1. i \in Nat /\ 1 <= i /\ i <= Len(bs)
        BY <1>0
      <4>2. Size(b) + i \in 1..Size(b) + Len(bs)
        BY <1>0, <4>1
      <4>3. /\ b.head + (Size(b) + i) - 1 = b.tail + i - 1
            /\ (b.tail + i - 1) - b.tail + 1 = i
        BY <1>0, <4>1, SMTT(30)
      <4>4. /\ b.tail + i - 1 \in 0..b.cap-1
            /\ b.tail + i - 1 \in b.tail .. b.tail + Len(bs) - 1
        <5>1. \A t, l, c, j \in Nat : t + l <= c /\ 1 <= j /\ j <= l
                => t + j - 1 \in 0..c-1 /\ t + j - 1 \in t .. t + l - 1
          OBVIOUS
        <5> QED
          BY <1>0, <4>1, <5>1
      <4> QED
        BY <1>8, <4>2, <4>3, <4>4
    <3>2. mem[b.tail + i - 1] = bs[i]
      BY <3>1 DEF mem
    <3> QED
      BY <1>4, <2>1, <3>1, <3>2
  <2>5. /\ Contents(b) \o bs \in Seq(Cell) /\ Len(Contents(b) \o bs) = Size(b) + Len(bs)
        /\ \A i \in 1..Size(b) + Len(bs) :
             (Contents(b) \o bs)[i] = IF i <= Size(b) THEN Contents(b)[i] ELSE bs[i - Size(b)]
    BY <2>2
  <2>6. ASSUME NEW i \in 1..Size(b) + Len(bs) PROVE Contents(m)[i] = (Contents(b) \o bs)[i]
    <3>1. CASE i <= Size(b)
      <4>1. i \in 1..Size(b)
        BY <1>1, <2>2, <3>1
      <4> QED
        BY <2>3, <2>5, <3>1, <4>1
    <3>2. CASE ~(i <= Size(b))
      <4>1. i - Size(b) \in 1..Len(bs) /\ Size(b) + (i - Size(b)) = i
        BY <1>1, <2>2, <3>2
      <4> QED
        BY <2>4, <2>5, <3>2, <4>1
    <3> QED
      BY <3>1, <3>2
  <2> QED
    BY <1>1, <2>1, <2>2, <2>5, <2>6, SeqEqual
<1> QED
  BY <1>4, <1>7, <1>9 DEF m

\* Raising the mark to the size.
LEMMA MarkedSpec == ASSUME NEW b, Valid(b) PROVE Valid(Marked(b)) /\ Same(Marked(b), b)
<1>1. PICK k \in Nat : k = Max({b.mark, Size(b)}) /\ k <= b.cap
  <2>1. b.mark \in Nat /\ Size(b) \in Nat /\ b.mark <= b.cap /\ Size(b) <= b.cap
    BY Sizes DEF Valid
  <2> QED
    BY <2>1, MaxOfTwo
<1>2. Marked(b) = [b EXCEPT !.mark = k]
  BY <1>1 DEF Marked
<1> QED
  BY <1>1, <1>2, MarkSpec

\* Moving the tail drops bytes at the back, or takes in what the memory behind
\* the tail holds.
LEMMA TailSpec ==
  ASSUME NEW b, Valid(b), NEW t \in Nat, b.head <= t, t <= b.cap
  PROVE  LET m == [b EXCEPT !.tail = t]
         IN  /\ Valid(m) /\ m.limit = b.limit /\ Size(m) = t - b.head
             /\ t <= b.tail => Contents(m) = SubSeq(Contents(b), 1, t - b.head)
             /\ t > b.tail => \E bs \in [1..(t - b.tail) -> Cell] :
                                Contents(m) = Contents(b) \o bs
<1> DEFINE m == [b EXCEPT !.tail = t]
<1>0. /\ b.cap \in Nat /\ b.head \in Nat /\ b.tail \in Nat /\ Size(b) \in Nat
      /\ b.tail = b.head + Size(b)
  BY Sizes
<1>1. b \in Buffer /\ b.mem \in [0..b.cap-1 -> Cell]
  BY DEF Valid
<1>2. m \in Buffer
  BY <1>1 DEF Buffer
<1>3. /\ m.cap = b.cap /\ m.head = b.head /\ m.tail = t /\ m.mem = b.mem
      /\ m.limit = b.limit /\ m.mark = b.mark
  BY <1>1 DEF Buffer
<1> HIDE DEF m
<1>4. Valid(m)
  BY <1>2, <1>3 DEF Valid
<1>5. Size(m) = t - b.head /\ Size(m) \in Nat
  BY <1>3, Sizes DEF Size
<1>6. /\ Contents(m) \in Seq(Cell) /\ Len(Contents(m)) = Size(m)
      /\ \A i \in 1..Size(m) : Contents(m)[i] = b.mem[b.head + i - 1]
  BY <1>3, <1>4, Sizes
<1>7. /\ Contents(b) \in Seq(Cell) /\ Len(Contents(b)) = Size(b) /\ Size(b) \in Nat
      /\ \A i \in 1..Size(b) : Contents(b)[i] = b.mem[b.head + i - 1]
  BY Sizes
<1>8. ASSUME t <= b.tail PROVE Contents(m) = SubSeq(Contents(b), 1, t - b.head)
  <2>1. Size(m) <= Size(b)
    BY <1>5, <1>8, Sizes
  <2>2. /\ SubSeq(Contents(b), 1, Size(m)) \in Seq(Cell)
        /\ Len(SubSeq(Contents(b), 1, Size(m))) = Size(m)
        /\ \A i \in 1..Size(m) : SubSeq(Contents(b), 1, Size(m))[i] = Contents(b)[i]
    BY <1>5, <1>7, <2>1
  <2>3. \A i \in 1..Size(m) : i \in 1..Size(b)
    BY <1>5, <1>7, <2>1
  <2>4. \A i \in 1..Size(m) : Contents(m)[i] = SubSeq(Contents(b), 1, Size(m))[i]
    BY <1>6, <1>7, <2>2, <2>3
  <2>5. Contents(m) = SubSeq(Contents(b), 1, Size(m))
    BY <1>5, <1>6, <2>2, <2>4, SeqEqual
  <2> QED
    BY <1>5, <2>5
<1>9. ASSUME t > b.tail
      PROVE  \E bs \in [1..(t - b.tail) -> Cell] : Contents(m) = Contents(b) \o bs
  <2> DEFINE n == t - b.tail
             bs == [i \in 1..n |-> b.mem[b.tail + i - 1]]
  <2>1. n \in Nat /\ Size(m) = Size(b) + n
    BY <1>5, <1>9, Sizes, SMTT(30)
  <2>2. \A i \in 1..n : b.tail + i - 1 \in 0..b.cap-1
    BY <1>0, <1>9
  <2>3. bs \in [1..n -> Cell]
    BY <1>1, <2>2
  <2>a. \A i \in 1..n : bs[i] = b.mem[b.tail + i - 1]
    OBVIOUS
  <2> HIDE DEF bs, n
  <2>4. bs \in Seq(Cell) /\ Len(bs) = n
    BY <2>1, <2>3
  <2>5. /\ Contents(b) \o bs \in Seq(Cell) /\ Len(Contents(b) \o bs) = Size(b) + n
        /\ \A i \in 1..Size(b) + n :
             (Contents(b) \o bs)[i] = IF i <= Size(b) THEN Contents(b)[i] ELSE bs[i - Size(b)]
    <3>1. \A s, u \in Seq(Cell) :
            /\ s \o u \in Seq(Cell) /\ Len(s \o u) = Len(s) + Len(u)
            /\ \A i \in 1..Len(s) + Len(u) :
                 (s \o u)[i] = IF i <= Len(s) THEN s[i] ELSE u[i - Len(s)]
      OBVIOUS
    <3>2. /\ Contents(b) \o bs \in Seq(Cell)
          /\ Len(Contents(b) \o bs) = Len(Contents(b)) + Len(bs)
          /\ \A i \in 1..Len(Contents(b)) + Len(bs) :
               (Contents(b) \o bs)[i] = IF i <= Len(Contents(b)) THEN Contents(b)[i]
                                        ELSE bs[i - Len(Contents(b))]
      BY <1>7, <2>4, <3>1, Zenon
    <3> QED
      BY <1>7, <2>4, <3>2, Zenon
  <2>6. ASSUME NEW i \in 1..Size(b) + n PROVE Contents(m)[i] = (Contents(b) \o bs)[i]
    <3>1. CASE i <= Size(b)
      <4>1. i \in 1..Size(b)
        BY <1>7, <2>1, <3>1
      <4> QED
        BY <1>6, <1>7, <2>1, <2>5, <3>1, <4>1
    <3>2. CASE ~(i <= Size(b))
      <4>1. i - Size(b) \in 1..n /\ b.tail + (i - Size(b)) - 1 = b.head + i - 1
        BY <1>7, <2>1, <3>2, Sizes, SMTT(30)
      <4> QED
        BY <1>6, <2>1, <2>a, <2>5, <3>2, <4>1
    <3> QED
      BY <3>1, <3>2
  <2>7. Contents(m) = Contents(b) \o bs
    BY <1>5, <1>6, <2>1, <2>5, <2>6, SeqEqual, ZenonT(30)
  <2> QED
    BY <2>3, <2>7 DEF n
<1> QED
  BY <1>3, <1>4, <1>5, <1>8, <1>9 DEF m

\* Moving the head drops bytes at the front.
LEMMA HeadSpec ==
  ASSUME NEW b, Valid(b), NEW k \in Nat, k <= Size(b)
  PROVE  LET m == [b EXCEPT !.head = @ + k]
         IN  /\ Valid(m) /\ m.limit = b.limit
             /\ Contents(m) = SubSeq(Contents(b), k + 1, Size(b))
<1> DEFINE m == [b EXCEPT !.head = @ + k]
<1>1. b \in Buffer
  BY DEF Valid
<1>2. m \in Buffer
  <2>1. b.head + k \in Nat
    BY Sizes
  <2> QED
    BY <1>1, <2>1 DEF Buffer
<1>3. /\ m.cap = b.cap /\ m.head = b.head + k /\ m.tail = b.tail /\ m.mem = b.mem
      /\ m.limit = b.limit /\ m.mark = b.mark
  BY <1>1 DEF Buffer
<1> HIDE DEF m
<1>4. Valid(m)
  BY <1>2, <1>3, Sizes DEF Valid
<1>5. Size(m) = Size(b) - k /\ Size(m) \in Nat
  BY <1>3, Sizes, SMTT(30) DEF Size
<1>6. /\ Contents(m) \in Seq(Cell) /\ Len(Contents(m)) = Size(m)
      /\ \A i \in 1..Size(m) : Contents(m)[i] = b.mem[b.head + k + i - 1]
  BY <1>3, <1>4, Sizes
<1>7. /\ Contents(b) \in Seq(Cell) /\ Len(Contents(b)) = Size(b) /\ Size(b) \in Nat
      /\ \A i \in 1..Size(b) : Contents(b)[i] = b.mem[b.head + i - 1]
  BY Sizes
<1> DEFINE u == SubSeq(Contents(b), k + 1, Size(b))
<1>8. /\ u \in Seq(Cell) /\ Len(u) = Size(m)
      /\ \A i \in 1..Size(m) : u[i] = Contents(b)[k + i]
  BY <1>5, <1>7
<1> HIDE DEF u
<1>9. ASSUME NEW i \in 1..Size(m) PROVE Contents(m)[i] = u[i]
  <2>1. k + i \in 1..Size(b) /\ b.head + (k + i) - 1 = b.head + k + i - 1
    BY <1>5, <1>7, Sizes
  <2> QED
    BY <1>6, <1>7, <1>8, <2>1
<1> QED
  BY <1>3, <1>4, <1>5, <1>6, <1>8, <1>9, SeqEqual DEF m, u

\* An erased buffer is empty.
LEMMA ResetSpec ==
  ASSUME NEW b, Valid(b)
  PROVE  Valid(Reset(b)) /\ Contents(Reset(b)) = <<>> /\ Reset(b).limit = b.limit
<1> DEFINE m == Reset(b)
<1>1. b \in Buffer
  BY DEF Valid
<1>2. m \in Buffer
  BY <1>1 DEF Buffer, Reset
<1>3. /\ m.cap = b.cap /\ m.head = 0 /\ m.tail = 0 /\ m.mem = b.mem
      /\ m.limit = b.limit /\ m.mark = b.mark
  BY <1>1 DEF Buffer, Reset
<1> HIDE DEF m
<1>4. Valid(m)
  BY <1>2, <1>3, Sizes DEF Valid
<1>5. Size(m) = 0
  BY <1>3 DEF Size
<1>6. Contents(m) \in Seq(Cell) /\ Len(Contents(m)) = 0
  BY <1>4, <1>5, Sizes
<1> QED
  BY <1>3, <1>4, <1>6 DEF m

\* Compaction keeps the bytes and never takes a larger block: the stack buffer
\* is no larger than the slack, and a number of blocks that holds the bytes is
\* at least the rounded size.
LEMMA CompactedSpec ==
  ASSUME NEW b, Valid(b), NEW c \in Nat \ {0}
  PROVE  /\ Valid(Compacted(b, c)) /\ Same(Compacted(b, c), b)
         /\ Compacted(b, c).cap <= b.cap
<1>0. /\ b.cap \in Nat \ {0} /\ Size(b) \in Nat /\ Size(b) <= b.cap
      /\ b.cap = StackSize \/ b.cap % BlockSize = 0
      /\ StackSize \in Nat /\ Slack \in Nat /\ StackSize <= Slack
  BY Sizes, SizesAssumption DEF Valid
<1>1. CASE b.cap <= c \/ b.cap - Size(b) <= Slack
  BY <1>0, <1>1 DEF Compacted, Same
<1>2. CASE ~(b.cap <= c \/ b.cap - Size(b) <= Slack)
  <2> DEFINE a == [b EXCEPT !.mark = Size(b)]
             k == Max({Size(b), c})
             d == BlockedSize(k)
  <2>1. k \in Nat \ {0} /\ k >= Size(b) /\ k <= b.cap
    BY <1>0, <1>2, MaxOfTwo
  <2>2. b.cap % BlockSize = 0
    BY <1>0, <1>2
  <2> HIDE DEF k
  <2>3. d \in Nat \ {0} /\ d >= Size(b) /\ d % BlockSize = 0 /\ d <= b.cap
    BY <1>0, <2>1, <2>2, BlockedSizeSpec
  <2> HIDE DEF d
  <2>4. Valid(a) /\ Same(a, b)
    BY <1>0, MarkSpec
  <2>5. a.mark = Size(b) /\ Size(a) = Size(b)
    BY <2>4 DEF Same, Valid, Buffer
  <2>6. Valid(Moved(a, d)) /\ Same(Moved(a, d), a) /\ Moved(a, d).cap = d
    BY <2>3, <2>4, <2>5, MovedSpec
  <2>7. Compacted(b, c) = [Moved(b, d) EXCEPT !.mark = Size(b)]
    BY <1>2 DEF Compacted, d, k
  <2>8. Compacted(b, c) = Moved(a, d)
    <3>1. b \in Buffer
      BY DEF Valid
    <3>2. a.mem = b.mem /\ a.head = b.head
      BY <3>1 DEF Buffer
    <3> HIDE DEF a
    <3> DEFINE mem == [i \in 0..d-1 |-> IF i < Size(b) THEN b.mem[b.head + i]
                                                       ELSE Indeterminate]
    <3>3. Moved(a, d) = [a EXCEPT !.cap = d, !.head = 0, !.tail = Size(b), !.mem = mem]
      BY <2>5, <3>2 DEF Moved
    <3>4. Moved(b, d) = [b EXCEPT !.cap = d, !.head = 0, !.tail = Size(b), !.mem = mem]
      BY DEF Moved
    <3> HIDE DEF mem
    <3> QED
      BY <2>7, <3>1, <3>3, <3>4, ZenonT(30) DEF Buffer, a
  <2> QED
    BY <2>3, <2>4, <2>6, <2>8 DEF Same
<1> QED
  BY <1>1, <1>2

-----------------------------------------------------------------------------
(* The steps.                                                              *)

IInv == Valid(buf) /\ threw \in BOOLEAN

\* A string a caller adds is a sequence of cells no longer than MaxAdd.
LEMMA StringsAreSequences ==
  ASSUME NEW bs \in Strings \cup {<<>>}
  PROVE  /\ bs \in Seq(Cell) /\ Len(bs) \in 0..MaxAdd
         /\ bs \in Strings => Len(bs) # 0
         /\ bs \in [1..Len(bs) -> Cell]
<1>0. MaxAdd \in Nat
  BY SizesAssumption
<1>1. CASE bs = <<>>
  <2>1. \A k \in 1..MaxAdd : <<>> \notin [1..k -> Bytes]
    BY <1>0
  <2> QED
    BY <1>0, <1>1, <2>1 DEF Strings
<1>2. CASE bs \in Strings
  <2>1. PICK n \in 1..MaxAdd : bs \in [1..n -> Bytes]
    BY <1>2 DEF Strings
  <2>2. n \in Nat /\ bs \in [1..n -> Cell]
    BY <1>0, <2>1 DEF Cell
  <2>3. bs \in Seq(Cell) /\ Len(bs) = n
    BY <2>2
  <2> QED
    BY <1>0, <2>1, <2>2, <2>3
<1> QED
  BY <1>1, <1>2

\* A refused call is one the queue refuses: the bytes would pass the limit.
LEMMA ThrowsRefuses ==
  ASSUME Valid(buf), NEW n \in 0..MaxAdd, Throws(n)
  PROVE  IInv' /\ Queue!Next
<1>1. Len(Contents(buf)) + n > buf.limit /\ threw' = TRUE /\ buf' = buf
  BY Sizes DEF Throws, Overflows
<1>2. Contents(buf)' = Contents(buf) /\ (buf.limit)' = buf.limit
  BY <1>1
<1>3. Queue!Refuse(n)
  BY <1>1, <1>2 DEF Queue!Refuse
<1>4. IInv'
  BY <1>1 DEF IInv
<1> QED
  BY <1>3, <1>4 DEF Queue!Next

\* Reserving and filling is an extension of the queue.
LEMMA FillExtends ==
  ASSUME Valid(buf), NEW n \in 1..MaxAdd, NEW bs \in Strings \cup {<<>>}, Len(bs) <= n,
         NEW b, b = Filled(Reserved(buf, n), bs)
  PROVE  /\ Valid(b) /\ b.limit = buf.limit
         /\ Contents(b) = Contents(buf) \o bs
<1> DEFINE r == Reserved(buf, n)
<1>0. n \in Nat \ {0}
  BY SizesAssumption
<1>1. Valid(r) /\ Same(r, buf) /\ Space(r) >= n
  BY <1>0, ReservedSpec
<1>2. bs \in Seq(Cell) /\ Len(bs) \in Nat
  BY StringsAreSequences, SizesAssumption
<1> HIDE DEF r
<1>3. Len(bs) <= Space(r)
  <2>1. Space(r) \in Nat
    BY <1>1, Sizes
  <2> QED
    BY <1>0, <1>1, <1>2, <2>1
<1>4. Valid(Filled(r, bs)) /\ Contents(Filled(r, bs)) = Contents(r) \o bs /\ Filled(r, bs).limit = r.limit
  BY <1>1, <1>2, <1>3, FilledSpec
<1> QED
  BY <1>1, <1>4 DEF Same, r

\* A call that returns a buffer with the bytes of the old one and more behind
\* them is an extension of the queue.
LEMMA ReturnsExtends ==
  ASSUME Valid(buf), NEW b, Valid(b), b.limit = buf.limit, Returns(b),
         NEW n \in 0..MaxAdd, NEW bs \in [1..n -> Cell], Contents(b) = Contents(buf) \o bs
  PROVE  IInv' /\ Queue!Next
<1>1. buf' = b /\ threw' = FALSE
  BY DEF Returns
<1>2. bs \in Queue!Strings(n)
  <2>1. n \in 0..n
    BY SizesAssumption
  <2> QED
    BY <2>1 DEF Queue!Strings, Queue!Cell, Cell
<1>3. Contents(buf)' = Contents(buf) \o bs /\ (buf.limit)' = buf.limit
  BY <1>1
<1>4. Queue!Extend(n)
  BY <1>1, <1>2, <1>3 DEF Queue!Extend
<1>5. IInv'
  BY <1>1 DEF IInv
<1> QED
  BY <1>4, <1>5 DEF Queue!Next

\* A call that returns a buffer with the same bytes is a rearrangement.
LEMMA ReturnsRearranges ==
  ASSUME NEW b, Valid(b), Same(b, buf), Returns(b)
  PROVE  IInv' /\ Queue!Next
<1>1. buf' = b /\ threw' = FALSE
  BY DEF Returns
<1>2. Contents(buf)' = Contents(buf) /\ (buf.limit)' = buf.limit
  BY <1>1 DEF Same
<1>3. Queue!Rearrange
  BY <1>1, <1>2 DEF Queue!Rearrange
<1>4. IInv'
  BY <1>1 DEF IInv
<1> QED
  BY <1>3, <1>4 DEF Queue!Next

\* A call that returns a buffer without some bytes at the front.
LEMMA ReturnsDropsFront ==
  ASSUME Valid(buf), NEW b, Valid(b), b.limit = buf.limit, Returns(b), NEW k \in 0..Size(buf),
         Contents(b) = SubSeq(Contents(buf), k + 1, Size(buf))
  PROVE  IInv' /\ Queue!Next
<1>1. buf' = b /\ threw' = FALSE
  BY DEF Returns
<1>2. Contents(buf)' = SubSeq(Contents(buf), k + 1, Size(buf)) /\ (buf.limit)' = buf.limit
  BY <1>1
<1>3. Len(Contents(buf)) = Size(buf)
  BY Sizes
<1>4. Queue!DropFront
  BY <1>1, <1>2, <1>3 DEF Queue!DropFront
<1>5. IInv'
  BY <1>1 DEF IInv
<1> QED
  BY <1>4, <1>5 DEF Queue!Next

\* A call that returns a buffer without some bytes at the back.
LEMMA ReturnsDropsBack ==
  ASSUME Valid(buf), NEW b, Valid(b), b.limit = buf.limit, Returns(b), NEW k \in 0..Size(buf),
         Contents(b) = SubSeq(Contents(buf), 1, k)
  PROVE  IInv' /\ Queue!Next
<1>1. buf' = b /\ threw' = FALSE
  BY DEF Returns
<1>2. Contents(buf)' = SubSeq(Contents(buf), 1, k) /\ (buf.limit)' = buf.limit
  BY <1>1
<1>3. Len(Contents(buf)) = Size(buf)
  BY Sizes
<1>4. Queue!DropBack
  BY <1>1, <1>2, <1>3 DEF Queue!DropBack
<1>5. IInv'
  BY <1>1 DEF IInv
<1> QED
  BY <1>4, <1>5 DEF Queue!Next

\* write, and the reserve-and-advance of a read.
LEMMA ReadIntoStep ==
  ASSUME IInv, NEW n \in 1..MaxAdd, NEW bs \in Strings \cup {<<>>}, ReadInto(n, bs)
  PROVE  IInv' /\ Queue!Next
<1>0. Valid(buf) /\ n \in 0..MaxAdd /\ Len(bs) <= n
  BY SizesAssumption DEF IInv, ReadInto
<1>1. CASE Throws(n)
  BY <1>0, <1>1, ThrowsRefuses
<1>2. CASE Returns(Marked(Filled(Reserved(buf, n), bs)))
  <2>1. PICK b : b = Filled(Reserved(buf, n), bs)
    OBVIOUS
  <2>2. Valid(b) /\ b.limit = buf.limit /\ Contents(b) = Contents(buf) \o bs
    BY <1>0, <2>1, FillExtends
  <2>3. Valid(Marked(b)) /\ Same(Marked(b), b)
    BY <2>2, MarkedSpec
  <2>4. Len(bs) \in 0..MaxAdd /\ bs \in [1..Len(bs) -> Cell]
    BY StringsAreSequences
  <2>5. /\ Returns(Marked(b)) /\ Marked(b).limit = buf.limit
        /\ Contents(Marked(b)) = Contents(buf) \o bs
    BY <1>2, <2>1, <2>2, <2>3 DEF Same
  <2> QED
    BY <1>0, <2>3, <2>4, <2>5, ReturnsExtends
<1> QED
  BY <1>1, <1>2 DEF ReadInto

\* A write is a read of exactly what was reserved.
LEMMA WriteStep ==
  ASSUME IInv, NEW bs \in Strings, Write(bs)
  PROVE  IInv' /\ Queue!Next
<1>1. Len(bs) \in 1..MaxAdd /\ Len(bs) <= Len(bs)
  BY StringsAreSequences, SizesAssumption
<1>2. ReadInto(Len(bs), bs)
  BY <1>1 DEF Write, ReadInto
<1> QED
  BY <1>1, <1>2, ReadIntoStep

\* forward leaves the mark alone.
LEMMA ForwardStep ==
  ASSUME IInv, NEW bs \in Strings, Forward(bs)
  PROVE  IInv' /\ Queue!Next
<1>0. /\ Valid(buf) /\ Len(bs) \in 1..MaxAdd /\ Len(bs) \in 0..MaxAdd /\ Len(bs) <= Len(bs)
      /\ bs \in [1..Len(bs) -> Cell]
  BY StringsAreSequences, SizesAssumption DEF IInv
<1>1. CASE Throws(Len(bs))
  BY <1>0, <1>1, ThrowsRefuses
<1>2. CASE Returns(Filled(Reserved(buf, Len(bs)), bs))
  <2>1. PICK b : b = Filled(Reserved(buf, Len(bs)), bs)
    OBVIOUS
  <2>2. Valid(b) /\ b.limit = buf.limit /\ Contents(b) = Contents(buf) \o bs
    BY <1>0, <2>1, FillExtends
  <2> QED
    BY <1>0, <1>2, <2>1, <2>2, ReturnsExtends
<1> QED
  BY <1>1, <1>2 DEF Forward

\* back drops bytes at the back, or nothing.
LEMMA BackStep ==
  ASSUME IInv, NEW n \in 1..MaxAdd, Back(n)
  PROVE  IInv' /\ Queue!Next
<1>0. /\ Valid(buf) /\ n \in Nat /\ Size(buf) \in Nat /\ buf.head \in Nat /\ buf.tail \in Nat
      /\ buf.tail = buf.head + Size(buf) /\ buf.tail <= buf.cap /\ buf.cap \in Nat
  BY Sizes, SizesAssumption DEF IInv, Valid
<1>1. CASE Size(buf) >= n
  <2>1. PICK t \in Nat : t = buf.tail - n /\ buf.head <= t /\ t <= buf.cap /\ t <= buf.tail
    BY <1>0, <1>1
  <2>2. PICK b : b = [buf EXCEPT !.tail = t]
    OBVIOUS
  <2>3. Returns(b)
    BY <1>1, <2>1, <2>2 DEF Back
  <2>4. PICK k \in 0..Size(buf) : k = t - buf.head
    BY <1>0, <1>1, <2>1
  <2>5. Valid(b) /\ b.limit = buf.limit /\ Contents(b) = SubSeq(Contents(buf), 1, k)
    BY <1>0, <2>1, <2>2, <2>4, TailSpec
  <2> QED
    BY <1>0, <2>3, <2>5, ReturnsDropsBack
<1>2. CASE ~(Size(buf) >= n)
  <2>1. Returns(buf) /\ Same(buf, buf)
    BY <1>2 DEF Back, Same
  <2> QED
    BY <1>0, <2>1, ReturnsRearranges
<1> QED
  BY <1>1, <1>2

\* Erasing everything drops all bytes at the front.
LEMMA ResetStep ==
  ASSUME IInv, Returns(Reset(buf))
  PROVE  IInv' /\ Queue!Next
<1>1. PICK b : b = Reset(buf)
  OBVIOUS
<1>2. Valid(buf) /\ Valid(b) /\ Contents(b) = <<>> /\ b.limit = buf.limit /\ Returns(b)
  BY <1>1, ResetSpec DEF IInv
<1>3. /\ Contents(buf) \in Seq(Cell) /\ Len(Contents(buf)) = Size(buf) /\ Size(buf) \in Nat
  BY <1>2, Sizes
<1>4. SubSeq(Contents(buf), Size(buf) + 1, Size(buf)) = <<>> /\ Size(buf) \in 0..Size(buf)
  BY <1>3
<1> QED
  BY <1>2, <1>4, ReturnsDropsFront

\* erase drops bytes at the front.
LEMMA EraseStep ==
  ASSUME IInv, NEW n \in 1..MaxAdd, Erase(n)
  PROVE  IInv' /\ Queue!Next
<1>0. Valid(buf) /\ n \in Nat /\ Size(buf) \in Nat
  BY Sizes, SizesAssumption DEF IInv
<1>1. PICK k \in Nat : k = Min({n, Size(buf)}) /\ k <= Size(buf)
  BY <1>0, MinOfTwo
<1>2. CASE buf.head + k >= buf.tail
  BY <1>1, <1>2, ResetStep DEF Erase
<1>3. CASE ~(buf.head + k >= buf.tail)
  <2>1. PICK b : b = [buf EXCEPT !.head = @ + k]
    OBVIOUS
  <2>2. Returns(b) /\ k \in 0..Size(buf)
    BY <1>0, <1>1, <1>3, <2>1 DEF Erase
  <2>3. Valid(b) /\ b.limit = buf.limit /\ Contents(b) = SubSeq(Contents(buf), k + 1, Size(buf))
    BY <1>0, <1>1, <2>1, HeadSpec
  <2> QED
    BY <1>0, <2>2, <2>3, ReturnsDropsFront
<1> QED
  BY <1>2, <1>3

\* read_varint drops bytes at the front, or nothing.
LEMMA ReadVarintStep ==
  ASSUME IInv, NEW n \in 1..MaxAdd, ReadVarint(n)
  PROVE  IInv' /\ Queue!Next
<1>0. Valid(buf) /\ n \in Nat /\ Size(buf) \in Nat
  BY Sizes, SizesAssumption DEF IInv
<1>1. CASE n <= Size(buf)
  <2>1. PICK b : b = [buf EXCEPT !.head = @ + n]
    OBVIOUS
  <2>2. Returns(b) /\ n \in 0..Size(buf)
    BY <1>0, <1>1, <2>1 DEF ReadVarint
  <2>3. Valid(b) /\ b.limit = buf.limit /\ Contents(b) = SubSeq(Contents(buf), n + 1, Size(buf))
    BY <1>0, <1>1, <2>1, HeadSpec
  <2> QED
    BY <1>0, <2>2, <2>3, ReturnsDropsFront
<1>2. CASE ~(n <= Size(buf))
  <2>1. Returns(buf) /\ Same(buf, buf)
    BY <1>2 DEF ReadVarint, Same
  <2> QED
    BY <1>0, <2>1, ReturnsRearranges
<1> QED
  BY <1>1, <1>2

\* resize drops bytes at the back or takes in what the memory behind the tail
\* holds.
LEMMA ResizeStep ==
  ASSUME IInv, NEW n \in 0..Size(buf) + MaxAdd, Resize(n)
  PROVE  IInv' /\ Queue!Next
<1>0. Valid(buf) /\ n \in Nat /\ Size(buf) \in Nat /\ MaxAdd \in Nat
  BY Sizes, SizesAssumption DEF IInv
<1>1. PICK more \in Int : more = n - Size(buf) /\ more <= MaxAdd
  BY <1>0
<1>2. CASE more > 0 /\ Throws(more)
  <2>1. more \in 0..MaxAdd
    BY <1>0, <1>1, <1>2
  <2> QED
    BY <1>0, <1>2, <2>1, ThrowsRefuses
<1>3. ASSUME NEW b, b = (IF more > 0 THEN Reserved(buf, more) ELSE buf),
             Returns(Marked([b EXCEPT !.tail = b.head + n]))
      PROVE  IInv' /\ Queue!Next
  <2>1. Valid(b) /\ Same(b, buf) /\ (more > 0 => Space(b) >= more)
    <3>1. CASE more > 0
      <4>1. more \in Nat \ {0}
        BY <1>1, <3>1
      <4> QED
        BY <1>0, <1>3, <3>1, <4>1, ReservedSpec
    <3>2. CASE ~(more > 0)
      BY <1>0, <1>3, <3>2 DEF Same
    <3> QED
      BY <3>1, <3>2
  <2>2. /\ b.head \in Nat /\ b.tail = b.head + Size(buf) /\ Space(b) \in Nat
        /\ b.cap = b.head + Size(buf) + Space(b) /\ b.limit = buf.limit
        /\ Contents(b) = Contents(buf)
    BY <2>1, Sizes DEF Same
  <2>3. PICK t \in Nat : t = b.head + n /\ b.head <= t /\ t <= b.cap
    BY <1>0, <1>1, <2>1, <2>2
  <2>4. PICK a : a = [b EXCEPT !.tail = t]
    OBVIOUS
  <2>5. Valid(a)
    BY <2>1, <2>3, <2>4, TailSpec
  <2>6. Valid(Marked(a)) /\ Same(Marked(a), a)
    BY <2>5, MarkedSpec
  <2>7. Returns(Marked(a)) /\ Marked(a).limit = buf.limit /\ Contents(Marked(a)) = Contents(a)
    BY <1>3, <2>1, <2>2, <2>3, <2>4, <2>6, TailSpec DEF Same
  <2>8. CASE t > b.tail
    <3>1. PICK k \in 0..MaxAdd : k = t - b.tail
      BY <1>0, <1>1, <2>2, <2>3, <2>8
    <3>2. PICK bs \in [1..k -> Cell] : Contents(a) = Contents(buf) \o bs
      <4>1. \E bs \in [1..(t - b.tail) -> Cell] : Contents(a) = Contents(b) \o bs
        BY <2>1, <2>3, <2>4, <2>8, TailSpec
      <4> QED
        BY <2>2, <3>1, <4>1
    <3> QED
      BY <1>0, <2>6, <2>7, <3>2, ReturnsExtends
  <2>9. CASE ~(t > b.tail)
    <3>1. n \in 0..Size(buf) /\ t <= b.tail /\ t - b.head = n
      BY <1>0, <2>2, <2>3, <2>9
    <3>2. Contents(a) = SubSeq(Contents(buf), 1, n)
      BY <2>1, <2>2, <2>3, <2>4, <3>1, TailSpec, ZenonT(30)
    <3> QED
      BY <1>0, <2>6, <2>7, <3>1, <3>2, ReturnsDropsBack
  <2> QED
    BY <2>8, <2>9
<1> QED
  BY <1>1, <1>2, <1>3 DEF Resize

\* compact and gc only rearrange, and never take a larger block.
LEMMA CompactStep ==
  ASSUME IInv, NEW c \in Nat \ {0}, Returns(Compacted(buf, c))
  PROVE  IInv' /\ Queue!Next /\ buf'.cap <= buf.cap
<1>1. PICK b : b = Compacted(buf, c)
  OBVIOUS
<1>2. Valid(b) /\ Same(b, buf) /\ b.cap <= buf.cap /\ Returns(b)
  BY <1>1, CompactedSpec DEF IInv
<1>3. buf' = b
  BY <1>2 DEF Returns
<1> QED
  BY <1>2, <1>3, ReturnsRearranges

\* gc: its target is at least the slack above the size, so never 0.
LEMMA GcStep == ASSUME IInv, Gc PROVE IInv' /\ Queue!Next /\ buf'.cap <= buf.cap
<1>0. /\ Valid(buf) /\ buf.cap \in Nat /\ buf.mark \in Nat /\ buf.mark <= buf.cap
      /\ Size(buf) \in Nat /\ Slack \in Nat \ {0}
  BY Sizes, SizesAssumption DEF IInv, Valid
<1>1. PICK g \in Nat : g = (buf.cap - buf.mark) \div 2
  BY <1>0
<1>2. CASE g < Slack
  <2>1. Returns(buf) /\ Same(buf, buf)
    BY <1>1, <1>2 DEF Gc, Same
  <2>2. buf' = buf
    BY <2>1 DEF Returns
  <2> QED
    BY <1>0, <2>1, <2>2, ReturnsRearranges
<1>3. CASE ~(g < Slack)
  <2>1. Size(buf) + g \in Nat \ {0}
    BY <1>0, <1>3
  <2>2. Returns(Compacted(buf, Size(buf) + g))
    BY <1>1, <1>3 DEF Gc
  <2> QED
    BY <2>1, <2>2, CompactStep
<1> QED
  BY <1>2, <1>3

\* set_limit never goes below what the buffer holds.
LEMMA SetLimitStep ==
  ASSUME IInv, NEW n \in Limits, SetLimit(n)
  PROVE  IInv' /\ Queue!Next
<1>0. Valid(buf) /\ buf \in Buffer /\ Size(buf) \in Nat /\ n \in Nat
  BY Sizes, SizesAssumption DEF IInv, Valid
<1>1. PICK k \in Nat : k = Max({n, Size(buf)}) /\ k >= Size(buf)
  BY <1>0, MaxOfTwo
<1>2. PICK b : b = [buf EXCEPT !.limit = k]
  OBVIOUS
<1>3. /\ b.cap = buf.cap /\ b.head = buf.head /\ b.tail = buf.tail /\ b.mem = buf.mem
      /\ b.limit = k /\ b.mark = buf.mark
  BY <1>0, <1>2 DEF Buffer
<1>4. b \in Buffer
  BY <1>0, <1>2 DEF Buffer
<1>5. Valid(b)
  BY <1>0, <1>3, <1>4 DEF Valid
<1>6. Contents(b) = Contents(buf)
  BY <1>3 DEF Contents, Size
<1>7. buf' = b /\ threw' = FALSE
  BY <1>1, <1>2 DEF SetLimit, Returns
<1>8. Len(Contents(buf)) = Size(buf)
  BY <1>0, Sizes
<1>9. Contents(buf)' = Contents(buf) /\ (buf.limit)' = k
  BY <1>3, <1>6, <1>7
<1>10. Queue!SetLimit
  BY <1>1, <1>7, <1>8, <1>9 DEF Queue!SetLimit
<1>11. IInv'
  BY <1>5, <1>7 DEF IInv
<1> QED
  BY <1>10, <1>11 DEF Queue!Next

\* Every operation keeps the invariant and is a step of the queue.
LEMMA Step == IInv /\ Next => IInv' /\ Queue!Next
<1> SUFFICES ASSUME IInv, Next PROVE IInv' /\ Queue!Next
  OBVIOUS
<1>1. ASSUME NEW bs \in Strings, Write(bs) \/ Forward(bs) PROVE IInv' /\ Queue!Next
  BY <1>1, WriteStep, ForwardStep
<1>2. ASSUME NEW n \in 1..MaxAdd, Back(n) \/ Erase(n) \/ ReadVarint(n)
      PROVE  IInv' /\ Queue!Next
  BY <1>2, BackStep, EraseStep, ReadVarintStep
<1>3. ASSUME NEW n \in 1..MaxAdd, NEW bs \in Strings \cup {<<>>}, ReadInto(n, bs)
      PROVE  IInv' /\ Queue!Next
  BY <1>3, ReadIntoStep
<1>4. ASSUME NEW n \in 0..Size(buf) + MaxAdd, Resize(n) PROVE IInv' /\ Queue!Next
  BY <1>4, ResizeStep
<1>5. CASE EraseAll
  BY <1>5, ResetStep DEF EraseAll
<1>6. CASE Gc
  BY <1>6, GcStep
<1>7. ASSUME NEW n \in MinCapacities, Compact(n) PROVE IInv' /\ Queue!Next
  <2>1. n \in Nat \ {0}
    BY SizesAssumption DEF MinCapacities
  <2> QED
    BY <1>7, <2>1, CompactStep DEF Compact
<1>8. ASSUME NEW n \in Limits, SetLimit(n) PROVE IInv' /\ Queue!Next
  BY <1>8, SetLimitStep
<1> QED
  BY <1>1, <1>2, <1>3, <1>4, <1>5, <1>6, <1>7, <1>8 DEF Next

\* A new buffer is valid and empty.
LEMMA InitValid == Init => IInv /\ Queue!Init
<1> SUFFICES ASSUME Init PROVE IInv /\ Queue!Init
  OBVIOUS
<1>1. PICK x2 \in BOOLEAN, n \in Limits :
        buf = [cap |-> StackSize, head |-> 0, tail |-> 0,
               mem |-> Fresh(StackSize), limit |-> n, mark |-> 0, x2 |-> x2]
  BY DEF Init
<1>2. StackSize \in Nat \ {0} /\ n \in Nat
  BY SizesAssumption
<1>3. Fresh(StackSize) \in [0..StackSize-1 -> Cell]
  BY DEF Fresh, Cell
<1>4. Fresh(StackSize) \in UNION {[0..m-1 -> Cell] : m \in Nat}
  BY <1>2, <1>3
<1>5. buf \in Buffer
  BY <1>1, <1>2, <1>4 DEF Buffer
<1>6. Valid(buf)
  BY <1>1, <1>2, <1>3, <1>5 DEF Valid
<1>7. Contents(buf) = <<>>
  <2>1. Size(buf) = 0
    BY <1>1 DEF Size
  <2>2. Contents(buf) \in Seq(Cell) /\ Len(Contents(buf)) = 0
    BY <1>6, <2>1, Sizes
  <2> QED
    BY <2>2
<1>8. threw = FALSE /\ buf.limit \in Nat
  BY <1>1, <1>2 DEF Init
<1> QED
  BY <1>6, <1>7, <1>8 DEF IInv, Queue!Init

\* The invariant holds in every reachable state.
LEMMA InductiveIInv == Spec => []IInv
<1>1. IInv /\ [Next]_vars => IInv'
  <2>1. IInv /\ UNCHANGED vars => IInv'
    BY DEF IInv, vars
  <2> QED
    BY <2>1, Step
<1> QED
  BY <1>1, InitValid, PTL DEF Spec

\* The offsets and the high water mark stay inside the block, and the block
\* is the stack buffer or a number of blocks, whatever mix of operations is
\* called.
THEOREM TypeCorrect == Spec => []TypeOK
<1>1. IInv => TypeOK
  <2> SUFFICES ASSUME IInv PROVE TypeOK
    OBVIOUS
  <2>1. buf \in Buffer /\ Valid(buf) /\ threw \in BOOLEAN
    BY DEF IInv, Valid
  <2>2. /\ 0 <= buf.head /\ buf.head <= buf.tail /\ buf.tail <= buf.cap
        /\ buf.limit \in Nat /\ buf.mark \in 0..buf.cap
    BY <2>1, Sizes DEF Valid
  <2>3. buf.x2 \in BOOLEAN
    BY <2>1 DEF Buffer
  <2> QED
    BY <2>1, <2>2, <2>3 DEF TypeOK, Valid
<1> QED
  BY <1>1, InductiveIInv, PTL

\* compact and gc never move to a larger block: the unsigned difference of
\* capacities that they return cannot wrap.
THEOREM CompactionShrinks == Spec => CompactNeverGrows
<1>1. IInv /\ [Next]_vars
      => [Gc \/ (\E n \in MinCapacities : Compact(n)) => buf'.cap <= buf.cap]_vars
  <2>1. ASSUME IInv, Gc PROVE buf'.cap <= buf.cap
    BY <2>1, GcStep
  <2>2. ASSUME IInv, NEW n \in MinCapacities, Compact(n) PROVE buf'.cap <= buf.cap
    <3>1. n \in Nat \ {0}
      BY SizesAssumption DEF MinCapacities
    <3> QED
      BY <2>2, <3>1, CompactStep DEF Compact
  <2> QED
    BY <2>1, <2>2
<1> QED
  BY <1>1, InductiveIInv, PTL DEF Spec, CompactNeverGrows

\* Hole, recycling, doubling and compaction are invisible: for any sizes the
\* buffer is a queue of bytes that refuses only what passes its limit.
THEOREM BufferIsQueue == Spec => ImplementsQueue
<1>1. IInv /\ [Next]_vars => [Queue!Next]_(Queue!vars)
  <2>1. UNCHANGED vars => UNCHANGED Queue!vars
    BY DEF vars, Queue!vars, Contents, Size
  <2> QED
    BY <2>1, Step
<1> QED
  BY <1>1, InitValid, InductiveIInv, PTL DEF Spec, ImplementsQueue, Queue!Spec

=============================================================================
