------------------------------ MODULE LogProofs ------------------------------
(***************************************************************************)
(* Proofs about Log for any number of threads, lines, parts and blocks and *)
(* any size of the ring, the blocks and the output: until a block is taken *)
(* while it is recycled, or the file takes less than it is given, the file *)
(* holds the lines whole and in the order of their slots.                  *)
(***************************************************************************)
EXTENDS Log, FiniteSetTheorems, SequenceTheorems, WellFoundedInduction, TLAPS

-----------------------------------------------------------------------------
(* The inductive invariant.                                                *)

Slots  == 0..(ListMax - 1)
Refs   == Blocks \cup {Nil}
Line   == Threads \X Nat
Part   == Threads \X Nat \X Nat

(* Where the sink works on a line.                                         *)
Busy == {"copy", "clear", "empty"}

TypeOK ==
    /\ queueSize \in Nat /\ slots \in [Slots -> Refs] /\ next \in Nat
    /\ used \in [Blocks -> BOOLEAN] /\ link \in [Blocks -> Refs]
    /\ text \in [Blocks -> Seq(Part)]
    /\ pc \in [Threads -> {"append", "link", "finish", "backoff", "place", "publish"}]
    /\ line \in [Threads -> Nat] /\ part \in [Threads -> Nat \ {0}]
    /\ node \in [Threads -> [head : Refs, tail : Refs]] /\ spare \in [Threads -> Nat]
    /\ cur \in Refs /\ rest \in Refs
    /\ output \in Seq(Part) /\ file \in Seq(Part) /\ order \in Seq(Line)

Placed == Len(order)

(* Parts i .. i + m - 1 of a line.                                         *)
Run(t, n, i, m) == [k \in 1..m |-> <<t, n, i + k - 1>>]

(* Block b begins with part i of line n of thread t.                       *)
At(b, t, n, i) == b \in Blocks /\ used[b] /\ text[b] # <<>> /\ text[b][1] = <<t, n, i>>

(* The line in the k-th slot taken was put there.                          *)
Published(k) == order[k][2] < line[order[k][1]]

AtLine(b, k, i) == At(b, order[k][1], order[k][2], i)

Those(p) == {t \in Threads : pc[t] = p}

(* `d' lines left the ring.  The counter is the room that threads hold for *)
(* a slot, took to see that there is none, or filled; a slot is not taken  *)
(* twice.                                                                  *)
RingInv(d) ==
    /\ d \in 0..Placed
    /\ producePos = Placed % ListMax /\ consumePos = (d + 1) % ListMax
    /\ queueSize = Cardinality(Those("backoff")) + Cardinality(Those("place"))
                     + (Placed - d) + (IF sink = "count" THEN 1 ELSE 0)
    /\ Cardinality(Those("place")) + (Placed - d) < ListMax

(* A line has one slot; its thread knows it until the line is there.       *)
OrderInv(d) ==
    /\ \A k, m \in 1..Placed : order[k] = order[m] => k = m
    /\ \A k \in 1..Placed :
         /\ order[k][2] <= line[order[k][1]]
         /\ order[k][2] = line[order[k][1]] => pc[order[k][1]] = "publish"
    /\ \A t \in Threads : pc[t] = "publish" =>
         \E k \in (d + 1)..Placed : order[k] = <<t, line[t]>> /\ spare[t] = k % ListMax

(* A slot that is not empty is one of a published line, and leads to the   *)
(* first part of it that is not written, unless the sink is at work there. *)
SlotInv(d, j) ==
    /\ \A i \in Slots : slots[i] # Nil =>
         \E k \in (d + 1)..Placed : i = k % ListMax /\ Published(k)
    /\ \A k \in (d + 1)..Placed : Published(k) =>
         \/ k = d + 1 /\ sink \in Busy
         \/ AtLine(slots[k % ListMax], k, IF k = d + 1 THEN j + 1 ELSE 1)

(* `j' parts of the next line were copied.                                 *)
SinkInv(d, j) ==
    /\ j \in Nat /\ (j > 0 => j <= Parts[order[d + 1][1]])
    /\ j > 0 \/ sink \in Busy => d < Placed /\ Published(d + 1)
    /\ sink = "copy" => AtLine(cur, d + 1, j + 1)
    /\ sink = "clear" =>
         /\ cur \in Reusable /\ ~used[cur]
         /\ IF rest = Nil THEN j = Parts[order[d + 1][1]] ELSE AtLine(rest, d + 1, j + 1)
    /\ sink = "empty" => j = Parts[order[d + 1][1]]
    /\ sink = "count" => j = 0

(* What is written: `d' lines and `j' parts of the next.                   *)
FileInv(d, j) ==
    file \o output =
        TextUpTo(order)[d] \o Run(order[d + 1][1], order[d + 1][2], 1, j)

(* The parts that exist of a line.                                         *)
Made(t, n) == IF n = line[t] THEN part[t] - 1 ELSE Parts[t]

(* A block holds consecutive parts of a line, none of which is copied yet, *)
(* and leads to the block with the next part.                              *)
RunInv(b, d, j) ==
    LET t == text[b][1][1]
        n == text[b][1][2]
        i == text[b][1][3]
        m == Len(text[b])
    IN  /\ i > 0 /\ n <= line[t] /\ i + m - 1 <= Made(t, n)
        /\ text[b] = Run(t, n, i, m)
        /\ i + m - 1 = Made(t, n) => link[b] = Nil /\ (n = line[t] => node[t].tail = b)
        /\ i + m - 1 < Made(t, n) => At(link[b], t, n, i + m)
        /\ \A k \in 1..Placed : order[k] = <<t, n>> => k > d /\ (k = d + 1 => i > j)

BlockInv(d, j) ==
    \A b \in Blocks :
       /\ text[b] = <<>> => link[b] = Nil
       /\ ~used[b] => text[b] = <<>> \/ (sink = "clear" /\ b = cur)
       /\ used[b] /\ text[b] # <<>> => RunInv(b, d, j)

(* No part is in two blocks.                                               *)
DisjointInv ==
    \A b, c \in Blocks : b # c /\ used[b] /\ used[c] =>
       \A p \in DOMAIN text[b], q \in DOMAIN text[c] : text[b][p] # text[c][q]

(* The block a thread took and has not written to.                         *)
Fresh(t) ==
    IF pc[t] = "link" THEN spare[t] ELSE IF part[t] = 1 THEN node[t].head ELSE Nil

IsFresh(b) == b \in Blocks /\ used[b] /\ text[b] = <<>>

(* The chain a thread builds.                                              *)
NodeInv(t) ==
    /\ node[t].head = Nil <=> node[t].tail = Nil
    /\ node[t].head = Nil => part[t] = 1
    /\ node[t].head # Nil /\ part[t] = 1 => node[t].tail = node[t].head
    /\ part[t] > 1 =>
         /\ At(node[t].head, t, line[t], 1)
         /\ node[t].tail \in Blocks /\ used[node[t].tail] /\ text[node[t].tail] # <<>>
         /\ text[node[t].tail][Len(text[node[t].tail])] = <<t, line[t], part[t] - 1>>
    /\ pc[t] = "append" => part[t] <= Parts[t]
    /\ pc[t] = "link" => part[t] > 1 /\ part[t] <= Parts[t] /\ spare[t] # Nil
    /\ pc[t] \notin {"append", "link"} => part[t] = Parts[t] + 1
    /\ Fresh(t) # Nil => IsFresh(Fresh(t))

ThreadInv ==
    /\ \A t \in Threads : NodeInv(t)
    /\ \A t, u \in Threads : t # u /\ Fresh(t) # Nil => Fresh(t) # Fresh(u)

InvAt(d, j) ==
    /\ TypeOK /\ DisjointInv /\ ThreadInv
    /\ RingInv(d) /\ OrderInv(d) /\ SlotInv(d, j) /\ SinkInv(d, j)
    /\ FileInv(d, j) /\ BlockInv(d, j)

(* A block was taken between the two steps of its recycling; the sink is   *)
(* about to clear it.                                                      *)
Racing == sink = "clear" /\ cur \in Blocks /\ used[cur]

RacingInv ==
    /\ Racing /\ LinesInOrder
    /\ used \in [Blocks -> BOOLEAN] /\ line \in [Threads -> Nat] /\ order \in Seq(Line)
    /\ file \in Seq(Part) /\ output \in Seq(Part)

Inv ==
    /\ raced \in BOOLEAN /\ short \in BOOLEAN
    /\ \/ raced \/ short
       \/ RacingInv
       \/ \E d \in 0..Placed, j \in Nat : InvAt(d, j)

-----------------------------------------------------------------------------
(* The text of the lines.                                                  *)

\* Every nonempty set of natural numbers has a least element.
LEMMA LeastNatural ==
  ASSUME NEW T, T \subseteq Nat, T # {}
  PROVE  \E x \in T : \A y \in T : x <= y
<1>1. PICK x \in T : \A y \in T : ~(<<y, x>> \in OpToRel(<, Nat))
  BY NatLessThanWellFounded, WFMin, Zenon
<1>2. \A y \in Nat : <<y, x>> \in OpToRel(<, Nat) <=> y < x
  BY DEF OpToRel
<1>3. \A y \in T : ~(y < x)
  BY <1>1, <1>2, Zenon
<1> QED
  BY <1>3

\* The parts of a line are a sequence.
LEMMA RunType ==
  ASSUME NEW r, NEW t \in Threads, NEW n \in Nat, NEW i \in Nat \ {0}, NEW m \in Nat,
         r = Run(t, n, i, m)
  PROVE  /\ r \in Seq(Part) /\ Len(r) = m
         /\ \A k \in 1..m : r[k] = <<t, n, i + k - 1>>
<1>1. \A k \in 1..m : i + k - 1 \in Nat
  OBVIOUS
<1> QED
  BY <1>1 DEF Run, Part

\* No parts are no text, of whatever line.
LEMMA EmptyRun == \A t, n, i : Run(t, n, i, 0) = <<>>
  BY DEF Run

\* Two sequences with the same elements are the same.
LEMMA SameSeq ==
  ASSUME NEW S, NEW s \in Seq(S), NEW u \in Seq(S), Len(s) = Len(u),
         \A k \in 1..Len(s) : s[k] = u[k]
  PROVE  s = u
  OBVIOUS

\* The elements of a concatenation.
LEMMA ConcatElements ==
  ASSUME NEW S, NEW s \in Seq(S), NEW u \in Seq(S)
  PROVE  /\ s \o u \in Seq(S) /\ Len(s \o u) = Len(s) + Len(u)
         /\ \A k \in 1..Len(s) : (s \o u)[k] = s[k]
         /\ \A k \in 1..Len(u) : (s \o u)[Len(s) + k] = u[k]
  BY ConcatProperties

\* The first parts of a line and those after them join.
LEMMA RunJoin ==
  ASSUME NEW t \in Threads, NEW n \in Nat, NEW j \in Nat, NEW m \in Nat
  PROVE  Run(t, n, 1, j) \o Run(t, n, j + 1, m) = Run(t, n, 1, j + m)
<1> DEFINE a == Run(t, n, 1, j)
           b == Run(t, n, j + 1, m)
           c == Run(t, n, 1, j + m)
<1>1. a \in Seq(Part) /\ Len(a) = j /\ \A k \in 1..j : a[k] = <<t, n, k>>
  <2>1. \A k \in 1..j : 1 + k - 1 = k /\ k \in Nat
    OBVIOUS
  <2> QED
    BY <2>1 DEF Run, Part
<1>2. b \in Seq(Part) /\ Len(b) = m /\ \A k \in 1..m : b[k] = <<t, n, j + k>>
  <2>1. \A k \in 1..m : j + 1 + k - 1 = j + k /\ j + k \in Nat
    OBVIOUS
  <2> QED
    BY <2>1 DEF Run, Part
<1>3. c \in Seq(Part) /\ Len(c) = j + m /\ \A k \in 1..(j + m) : c[k] = <<t, n, k>>
  <2>1. j + m \in Nat /\ \A k \in 1..(j + m) : 1 + k - 1 = k /\ k \in Nat
    OBVIOUS
  <2> QED
    BY <2>1 DEF Run, Part
<1> HIDE DEF a, b, c
<1>4. /\ a \o b \in Seq(Part) /\ Len(a \o b) = Len(a) + Len(b)
      /\ \A k \in 1..Len(a) : (a \o b)[k] = a[k]
      /\ \A k \in 1..Len(b) : (a \o b)[Len(a) + k] = b[k]
  <2>1. a \in Seq(Part) /\ b \in Seq(Part)
    BY <1>1, <1>2
  <2> QED
    BY <2>1, ConcatElements
<1>5. Len(a \o b) = j + m
  BY <1>1, <1>2, <1>4
<1>6. ASSUME NEW k \in 1..(j + m) PROVE (a \o b)[k] = c[k]
  <2>1. CASE k \in 1..j
    BY <1>1, <1>3, <1>4, <2>1
  <2>2. CASE k \notin 1..j
    <3>1. k - j \in 1..m /\ j + (k - j) = k
      BY <2>2
    <3>2. (a \o b)[k] = b[k - j]
      BY <1>1, <1>2, <1>4, <3>1
    <3> QED
      BY <1>2, <1>3, <3>1, <3>2
  <2> QED
    BY <2>1, <2>2
<1>7. a \o b = c
  BY <1>3, <1>4, <1>5, <1>6, SameSeq
<1> QED
  BY <1>7 DEF a, b, c

\* TextOf is the run of all the parts of a line.
LEMMA TextIsRun == \A t, n : TextOf(t, n) = Run(t, n, 1, Parts[t])
<1> SUFFICES ASSUME NEW t, NEW n PROVE TextOf(t, n) = Run(t, n, 1, Parts[t])
  OBVIOUS
<1>1. \A k \in 1..Parts[t] : 1 + k - 1 = k
  OBVIOUS
<1> QED
  BY <1>1 DEF TextOf, Run

\* What TextUpTo computes: one line more each time.
UpTo(lines, n, g) ==
    /\ g \in [0..n -> Seq(Part)] /\ g[0] = <<>>
    /\ \A k \in 1..n : g[k] = g[k - 1] \o TextOf(lines[k][1], lines[k][2])

\* The text of a line of a list.
LEMMA LineText ==
  ASSUME NEW lines \in Seq(Line), NEW k \in 1..Len(lines)
  PROVE  /\ lines[k][1] \in Threads /\ lines[k][2] \in Nat
         /\ lines[k] = <<lines[k][1], lines[k][2]>>
         /\ Parts[lines[k][1]] \in Nat \ {0}
         /\ TextOf(lines[k][1], lines[k][2]) \in Seq(Part)
<1>1. lines[k] \in Line
  OBVIOUS
<1>2. lines[k][1] \in Threads /\ lines[k][2] \in Nat /\ lines[k] = <<lines[k][1], lines[k][2]>>
  BY <1>1 DEF Line
<1>3. Parts[lines[k][1]] \in Nat \ {0}
  BY <1>2, LogAssumption
<1>4. Run(lines[k][1], lines[k][2], 1, Parts[lines[k][1]]) \in Seq(Part)
  <2>1. 1 \in Nat \ {0} /\ Parts[lines[k][1]] \in Nat
    BY <1>3
  <2> QED
    BY <1>2, <2>1, RunType
<1> QED
  BY <1>2, <1>3, <1>4, TextIsRun

\* There is a function that satisfies the recursion of TextUpTo.
LEMMA UpToExists ==
  ASSUME NEW lines \in Seq(Line)
  PROVE  \E g : UpTo(lines, Len(lines), g)
<1> DEFINE T == {n \in 0..Len(lines) : ~ \E g : UpTo(lines, n, g)}
<1>1. SUFFICES ASSUME T # {} PROVE FALSE
  <2>1. Len(lines) \in 0..Len(lines)
    BY LenProperties
  <2> QED
    BY <2>1
<1>2. T \subseteq Nat
  OBVIOUS
<1>3. PICK n \in T : \A m \in T : n <= m
  <2> HIDE DEF T
  <2> QED
    BY <1>1, <1>2, LeastNatural
<1>4. n # 0
  <2>1. UpTo(lines, 0, [k \in 0..0 |-> <<>>])
    BY DEF UpTo
  <2> QED
    BY <1>3, <2>1
<1>5. n \in 1..Len(lines) /\ n - 1 \in 0..Len(lines) /\ n - 1 \notin T
  <2>1. n \in 0..Len(lines)
    BY <1>3
  <2>2. n \in 1..Len(lines) /\ n - 1 \in 0..Len(lines) /\ n - 1 < n
    BY <1>4, <2>1
  <2> HIDE DEF T
  <2> QED
    BY <1>3, <2>2
<1>6. PICK g : UpTo(lines, n - 1, g)
  BY <1>5
<1> DEFINE x == TextOf(lines[n][1], lines[n][2])
           h == [k \in 0..n |-> IF k = n THEN g[n - 1] \o x ELSE g[k]]
<1>7. x \in Seq(Part)
  BY <1>5, LineText
<1>8. g \in [0..(n - 1) -> Seq(Part)] /\ g[0] = <<>>
  BY <1>6 DEF UpTo
<1>9. h \in [0..n -> Seq(Part)]
  <2>1. g[n - 1] \o x \in Seq(Part)
    BY <1>5, <1>7, <1>8
  <2>2. \A k \in 0..n : k # n => g[k] \in Seq(Part)
    BY <1>5, <1>8
  <2> HIDE DEF x
  <2> QED
    BY <2>1, <2>2
<1>10. ASSUME NEW k \in 1..n PROVE h[k] = h[k - 1] \o TextOf(lines[k][1], lines[k][2])
  <2>1. k - 1 \in 0..n /\ k - 1 # n /\ h[k - 1] = g[k - 1]
    BY <1>5
  <2>2. CASE k = n
    <3>1. h[n] = g[n - 1] \o x
      <4>1. n \in 0..n
        BY <1>5
      <4> QED
        BY <4>1
    <3> HIDE DEF h
    <3> QED
      BY <2>1, <2>2, <3>1
  <2>3. CASE k # n
    <3>1. k \in 1..(n - 1)
      BY <1>5, <2>3
    <3>2. g[k] = g[k - 1] \o TextOf(lines[k][1], lines[k][2])
      BY <1>6, <3>1 DEF UpTo
    <3>3. h[k] = g[k]
      BY <1>5, <2>3
    <3> QED
      BY <2>1, <3>2, <3>3
  <2> QED
    BY <2>2, <2>3
<1>11. h[0] = <<>>
  BY <1>5, <1>8
<1>12. UpTo(lines, n, h)
  <2> HIDE DEF h
  <2> QED
    BY <1>9, <1>10, <1>11 DEF UpTo
<1> QED
  BY <1>3, <1>12

\* TextUpTo satisfies its recursion.
LEMMA TextUpToDef ==
  ASSUME NEW lines \in Seq(Line)
  PROVE  UpTo(lines, Len(lines), TextUpTo(lines))
<1> DEFINE Rec(g) == [k \in 0..Len(lines) |->
                        IF k = 0 THEN <<>> ELSE g[k - 1] \o TextOf(lines[k][1], lines[k][2])]
<1>1. PICK g : UpTo(lines, Len(lines), g)
  BY UpToExists
<1>2. g = Rec(g)
  <2>1. \A k \in 0..Len(lines) : k # 0 => k \in 1..Len(lines)
    OBVIOUS
  <2> QED
    BY <1>1, <2>1 DEF UpTo
<1>3. TextUpTo(lines) = CHOOSE f : f = Rec(f)
  BY DEF TextUpTo
<1>4. TextUpTo(lines) = Rec(TextUpTo(lines))
  <2> HIDE DEF Rec
  <2> QED
    BY <1>2, <1>3
<1> DEFINE f == TextUpTo(lines)
<1>5. /\ DOMAIN f = 0..Len(lines) /\ f[0] = <<>>
      /\ \A k \in 1..Len(lines) : f[k] = f[k - 1] \o TextOf(lines[k][1], lines[k][2])
      /\ f = [k \in 0..Len(lines) |-> f[k]]
  <2> HIDE DEF f
  <2>1. f = Rec(f)
    BY <1>4 DEF f
  <2>2. DOMAIN f = 0..Len(lines) /\ f = [k \in 0..Len(lines) |-> f[k]]
    BY <2>1, ZenonT(30)
  <2>3. \A k \in 0..Len(lines) :
          f[k] = IF k = 0 THEN <<>> ELSE f[k - 1] \o TextOf(lines[k][1], lines[k][2])
    BY <2>1, ZenonT(30)
  <2>4. Len(lines) \in Nat
    OBVIOUS
  <2>5. 0 \in 0..Len(lines) /\ \A k \in 1..Len(lines) : k \in 0..Len(lines) /\ k # 0
    BY <2>4
  <2>6. f[0] = <<>>
    BY <2>3, <2>5, ZenonT(30)
  <2>7. \A k \in 1..Len(lines) : f[k] = f[k - 1] \o TextOf(lines[k][1], lines[k][2])
    BY <2>3, <2>5, ZenonT(30)
  <2> QED
    BY <2>2, <2>6, <2>7, ZenonT(30)
<1>6. \A k \in 0..Len(lines) : f[k] \in Seq(Part)
  <2> DEFINE T == {k \in 0..Len(lines) : f[k] \notin Seq(Part)}
  <2>1. SUFFICES ASSUME T # {} PROVE FALSE
    OBVIOUS
  <2>2. T \subseteq Nat
    OBVIOUS
  <2>3. PICK k \in T : \A m \in T : k <= m
    <3> HIDE DEF T
    <3> QED
      BY <2>1, <2>2, LeastNatural
  <2>4. k \in 0..Len(lines) /\ f[k] \notin Seq(Part)
    BY <2>3
  <2> HIDE DEF f
  <2>5. k # 0
    <3>1. <<>> \in Seq(Part)
      OBVIOUS
    <3> QED
      BY <1>5, <2>4, <3>1, Zenon
  <2>6. k \in 1..Len(lines) /\ k - 1 \in 0..Len(lines) /\ k - 1 < k
    BY <2>4, <2>5
  <2>7. f[k - 1] \in Seq(Part)
    BY <2>3, <2>6
  <2>8. TextOf(lines[k][1], lines[k][2]) \in Seq(Part)
    BY <2>6, LineText
  <2>9. f[k - 1] \o TextOf(lines[k][1], lines[k][2]) \in Seq(Part)
    BY <2>7, <2>8
  <2> QED
    BY <1>5, <2>4, <2>6, <2>9, Zenon
<1> HIDE DEF f
<1>7. UpTo(lines, Len(lines), f)
  BY <1>5, <1>6 DEF UpTo
<1> QED
  BY <1>7 DEF f

\* The text of the first lines, line by line.
LEMMA TextSteps ==
  ASSUME NEW lines \in Seq(Line)
  PROVE  /\ TextUpTo(lines)[0] = <<>>
         /\ \A k \in 0..Len(lines) : TextUpTo(lines)[k] \in Seq(Part)
         /\ \A k \in 1..Len(lines) :
              TextUpTo(lines)[k] = TextUpTo(lines)[k - 1]
                                     \o Run(lines[k][1], lines[k][2], 1, Parts[lines[k][1]])
<1> DEFINE f == TextUpTo(lines)
<1>1. UpTo(lines, Len(lines), f)
  BY TextUpToDef
<1> HIDE DEF f
<1>2. /\ f[0] = <<>> /\ \A k \in 0..Len(lines) : f[k] \in Seq(Part)
      /\ \A k \in 1..Len(lines) : f[k] = f[k - 1] \o TextOf(lines[k][1], lines[k][2])
  BY <1>1 DEF UpTo
<1> QED
  BY <1>2, TextIsRun, Zenon DEF f

\* Another line leaves the text of the earlier ones as it is.
LEMMA TextOfMore ==
  ASSUME NEW lines \in Seq(Line), NEW x \in Line
  PROVE  \A k \in 0..Len(lines) : TextUpTo(Append(lines, x))[k] = TextUpTo(lines)[k]
<1> DEFINE more == Append(lines, x)
           f == TextUpTo(lines)
           g == TextUpTo(more)
           T == {k \in 0..Len(lines) : g[k] # f[k]}
<1>1. SUFFICES ASSUME T # {} PROVE FALSE
  OBVIOUS
<1>2. T \subseteq Nat
  OBVIOUS
<1>3. PICK k \in T : \A m \in T : k <= m
  <2> HIDE DEF T
  <2> QED
    BY <1>1, <1>2, LeastNatural
<1>4. k \in 0..Len(lines) /\ g[k] # f[k]
  BY <1>3
<1>5. more \in Seq(Line) /\ Len(more) = Len(lines) + 1 /\ \A m \in 1..Len(lines) : more[m] = lines[m]
  OBVIOUS
<1>6. UpTo(lines, Len(lines), f) /\ UpTo(more, Len(more), g)
  BY <1>5, TextUpToDef
<1> HIDE DEF more, f, g
<1>7. k # 0
  BY <1>4, <1>6 DEF UpTo
<1>8. k \in 1..Len(lines) /\ k \in 1..Len(more) /\ k - 1 \in 0..Len(lines) /\ ~(k <= k - 1)
  BY <1>4, <1>5, <1>7
<1>9. g[k - 1] = f[k - 1]
  <2>1. k - 1 \notin T
    <3> HIDE DEF T
    <3> QED
      BY <1>3, <1>8
  <2> QED
    BY <1>8, <2>1
<1>10. f[k] = f[k - 1] \o TextOf(lines[k][1], lines[k][2])
  BY <1>6, <1>8 DEF UpTo
<1>11. g[k] = g[k - 1] \o TextOf(more[k][1], more[k][2])
  BY <1>6, <1>8 DEF UpTo
<1> QED
  BY <1>4, <1>5, <1>8, <1>9, <1>10, <1>11

\* Texts join in any order.
LEMMA Joins == \A a, b, c \in Seq(Part) : (a \o b) \o c = a \o (b \o c)
<1> SUFFICES ASSUME NEW a \in Seq(Part), NEW b \in Seq(Part), NEW c \in Seq(Part)
             PROVE  (a \o b) \o c = a \o (b \o c)
  OBVIOUS
<1> QED
  BY ConcatAssociative

\* The text of the first lines is where the text of all of them begins.
LEMMA TextRest ==
  ASSUME NEW lines \in Seq(Line), NEW d \in 0..Len(lines)
  PROVE  \E u \in Seq(Part) : TextUpTo(lines)[Len(lines)] = TextUpTo(lines)[d] \o u
<1> DEFINE f == TextUpTo(lines)
           T == {m \in d..Len(lines) : ~ \E u \in Seq(Part) : f[m] = f[d] \o u}
<1>0. Len(lines) \in Nat /\ Len(lines) \in d..Len(lines)
  BY LenProperties
<1>1. SUFFICES ASSUME T # {} PROVE FALSE
  BY <1>0
<1>2. T \subseteq Nat
  OBVIOUS
<1>3. PICK m \in T : \A l \in T : m <= l
  <2> HIDE DEF T
  <2> QED
    BY <1>1, <1>2, LeastNatural
<1>4. m \in d..Len(lines) /\ ~ \E u \in Seq(Part) : f[m] = f[d] \o u
  BY <1>3
<1>5. \A k \in 0..Len(lines) : f[k] \in Seq(Part)
  BY TextSteps
<1>6. m # d
  <2>1. f[d] \in Seq(Part)
    BY <1>5
  <2>2. <<>> \in Seq(Part) /\ f[d] = f[d] \o <<>>
    <3> HIDE DEF f
    <3> QED
      BY <2>1
  <2> HIDE DEF f
  <2> QED
    BY <1>4, <2>2
<1>7. m \in 1..Len(lines) /\ m - 1 \in d..Len(lines) /\ ~(m <= m - 1) /\ m - 1 \in 0..Len(lines)
  BY <1>0, <1>4, <1>6
<1>8. m - 1 \notin T
  <2> HIDE DEF T
  <2> QED
    BY <1>3, <1>7
<1>9. PICK u \in Seq(Part) : f[m - 1] = f[d] \o u
  BY <1>7, <1>8
<1>10. PICK x \in Seq(Part) : f[m] = f[m - 1] \o x
  <2>1. TextOf(lines[m][1], lines[m][2]) \in Seq(Part)
    BY <1>7, LineText
  <2>2. f[m] = f[m - 1] \o TextOf(lines[m][1], lines[m][2])
    BY <1>7, TextUpToDef DEF UpTo
  <2> HIDE DEF f
  <2> QED
    BY <2>1, <2>2
<1> HIDE DEF f
<1>11. f[m] = f[d] \o (u \o x) /\ u \o x \in Seq(Part)
  <2>1. f[d] \in Seq(Part)
    BY <1>5
  <2>2. (f[d] \o u) \o x = f[d] \o (u \o x)
    BY <2>1, Joins, Zenon
  <2> QED
    BY <1>9, <1>10, <2>2
<1> QED
  BY <1>4, <1>11

\* A sequence is a prefix of what begins with it.
LEMMA PrefixOfConcat ==
  ASSUME NEW S, NEW s \in Seq(S), NEW u \in Seq(S)
  PROVE  IsPrefix(s, s \o u)
<1>1. /\ s \o u \in Seq(S) /\ Len(s \o u) = Len(s) + Len(u) /\ Len(s) \in Nat /\ Len(u) \in Nat
      /\ \A k \in 1..Len(s) : (s \o u)[k] = s[k]
  BY ConcatElements, LenProperties
<1> DEFINE v == s \o u
<1>2. SubSeq(s, 1, Len(s)) = SubSeq(v, 1, Len(s))
  <2> HIDE DEF v
  <2>1. v \in Seq(S) /\ Len(s) <= Len(v) /\ \A k \in 1..Len(s) : v[k] = s[k]
    BY <1>1 DEF v
  <2> QED
    BY <1>1, <2>1
<1> QED
  BY <1>1, <1>2 DEF IsPrefix

\* Whole lines and the first parts of the next one are a prefix of all lines.
LEMMA WrittenIsPrefix ==
  ASSUME NEW lines \in Seq(Line), NEW d \in 0..Len(lines), NEW j \in Nat,
         j > 0 => d < Len(lines) /\ j <= Parts[lines[d + 1][1]]
  PROVE  IsPrefix(TextUpTo(lines)[d] \o Run(lines[d + 1][1], lines[d + 1][2], 1, j),
                  TextUpTo(lines)[Len(lines)])
<1> DEFINE f == TextUpTo(lines)
           N == Len(lines)
<1>0. N \in Nat /\ \A k \in 0..N : f[k] \in Seq(Part)
  BY TextSteps, LenProperties
<1>1. CASE j = 0
  <2>1. Run(lines[d + 1][1], lines[d + 1][2], 1, j) = <<>>
    BY <1>1, EmptyRun
  <2>2. PICK u \in Seq(Part) : f[N] = f[d] \o u
    BY TextRest
  <2> HIDE DEF f, N
  <2>3. f[d] \in Seq(Part) /\ f[d] \o <<>> = f[d]
    BY <1>0 DEF N
  <2>4. IsPrefix(f[d], f[N])
    BY <2>2, <2>3, PrefixOfConcat
  <2> QED
    BY <2>1, <2>3, <2>4 DEF f, N
<1>2. CASE j # 0
  <2> DEFINE t == lines[d + 1][1]
             n == lines[d + 1][2]
             p == Parts[t]
  <2>1. d + 1 \in 1..N /\ d + 1 \in 0..N /\ j <= p /\ (d + 1) - 1 = d
    BY <1>0, <1>2
  <2>2. t \in Threads /\ n \in Nat /\ p \in Nat
    BY <2>1, LineText
  <2>3. f[d + 1] = f[d] \o Run(t, n, 1, p)
    BY <2>1, TextSteps
  <2>4. PICK u \in Seq(Part) : f[N] = f[d + 1] \o u
    BY <2>1, TextRest
  <2> HIDE DEF f, N, t, n, p
  <2> DEFINE m == p - j
             a == Run(t, n, 1, j)
             b == Run(t, n, j + 1, m)
  <2>5. m \in Nat /\ j + m = p
    BY <2>1, <2>2
  <2> HIDE DEF m
  <2>6. a \o b = Run(t, n, 1, p)
    <3> HIDE DEF a, b
    <3>1. t \in Threads /\ n \in Nat /\ j \in Nat /\ m \in Nat
      BY <2>2, <2>5
    <3>2. Run(t, n, 1, j) \o Run(t, n, j + 1, m) = Run(t, n, 1, j + m)
      BY <3>1, RunJoin, ZenonT(60)
    <3>3. a \o b = Run(t, n, 1, j + m)
      BY <3>2, ZenonT(30) DEF a, b
    <3> QED
      BY <2>5, <3>3
  <2>7. a \in Seq(Part)
    <3>1. 1 \in Nat \ {0}
      OBVIOUS
    <3> QED
      BY <2>2, <3>1, RunType
  <2>8. b \in Seq(Part)
    <3>1. j + 1 \in Nat \ {0}
      OBVIOUS
    <3> QED
      BY <2>2, <2>5, <3>1, RunType
  <2> HIDE DEF a, b
  <2>9. f[d] \in Seq(Part)
    BY <1>0 DEF N
  <2>10. f[N] = (f[d] \o a) \o (b \o u)
    <3>1. f[N] = (f[d] \o (a \o b)) \o u
      BY <2>3, <2>4, <2>6
    <3>2. f[d] \o (a \o b) = (f[d] \o a) \o b
      BY <2>7, <2>8, <2>9, Joins, Zenon
    <3>3. f[d] \o a \in Seq(Part)
      BY <2>7, <2>9
    <3>4. ((f[d] \o a) \o b) \o u = (f[d] \o a) \o (b \o u)
      BY <2>8, <3>3, Joins, Zenon
    <3> QED
      BY <3>1, <3>2, <3>4
  <2>11. f[d] \o a \in Seq(Part) /\ b \o u \in Seq(Part)
    BY <2>7, <2>8, <2>9
  <2>12. IsPrefix(f[d] \o a, f[N])
    BY <2>10, <2>11, PrefixOfConcat
  <2> QED
    BY <2>12 DEF f, N, a, t, n
<1> QED
  BY <1>1, <1>2

-----------------------------------------------------------------------------
(* Positions in the ring and the threads that wait for room.               *)

\* What the assumptions say of sizes.
LEMMA Sizes ==
  /\ ListMax \in Nat /\ ListMax > 1 /\ Nil \notin Blocks /\ Nil \in Refs /\ Blocks \subseteq Refs
  /\ Blocks \subseteq Nat /\ Reusable \subseteq Blocks /\ 1 \in Reusable
  /\ \A t \in Threads : Parts[t] \in Nat \ {0}
  /\ BlockSize \in Nat \ {0} /\ OutputMax \in Nat
BY LogAssumption DEF Nil, Refs, Blocks, Reusable

\* Division with remainder by the size of the ring.
LEMMA Position ==
  ASSUME NEW k \in Nat
  PROVE  \E q \in Nat, r \in Slots : k = ListMax * q + r /\ k % ListMax = r
<1>1. ListMax \in Nat /\ ListMax > 0
  BY Sizes
<1> DEFINE w == k % ListMax
           d == k \div ListMax
<1>2. w \in Nat /\ d \in Nat /\ k = ListMax * d + w
  BY <1>1
<1>3. w \in 0..(ListMax - 1)
  BY <1>1
<1>4. w = k % ListMax
  OBVIOUS
<1> HIDE DEF w, d
<1> QED
  BY <1>2, <1>3, <1>4 DEF Slots

\* Positions less than a round apart are different.
LEMMA SlotsDiffer ==
  ASSUME NEW k \in Nat, NEW m \in Nat, k <= m, m - k < ListMax, k % ListMax = m % ListMax
  PROVE  k = m
<1>0. PICK a \in Nat, r \in Slots : k = ListMax * a + r /\ k % ListMax = r
  BY Position
<1>a. PICK b \in Nat, s \in Slots : m = ListMax * b + s /\ m % ListMax = s
  BY Position
<1>1. r \in Nat /\ k = ListMax * a + r /\ m = ListMax * b + r
  BY <1>0, <1>a, Sizes DEF Slots
<1>2. ListMax \in Nat /\ ListMax > 1
  BY Sizes
<1>3. m - k = ListMax * (b - a)
  BY <1>1, <1>2
<1>4. b - a < 1
  <2> SUFFICES ASSUME b - a >= 1 PROVE FALSE
    BY <1>1
  <2>1. ListMax * (b - a) >= ListMax
    BY <1>1, <1>2
  <2> QED
    BY <1>2, <1>3, <2>1
<1>5. b - a >= 0
  <2> SUFFICES ASSUME b - a <= -1 PROVE FALSE
    BY <1>1
  <2>1. ListMax * (b - a) <= -ListMax
    BY <1>1, <1>2
  <2> QED
    BY <1>2, <1>3, <2>1
<1>6. a = b
  BY <1>1, <1>4, <1>5
<1> QED
  BY <1>1, <1>6

\* The remainder that a number is given by.
LEMMA Remainder ==
  ASSUME NEW k \in Nat, NEW q \in Nat, NEW r \in Slots, k = ListMax * q + r
  PROVE  k % ListMax = r
<1>0. PICK p \in Nat, s \in Slots : k = ListMax * p + s /\ k % ListMax = s
  BY Position
<1>1. p \in Nat /\ s \in Nat /\ s < ListMax /\ k = ListMax * p + s
  BY <1>0, Sizes DEF Slots
<1>2. ListMax \in Nat /\ ListMax > 1 /\ r \in Nat /\ r < ListMax
  BY Sizes DEF Slots
<1>3. ListMax * (p - q) = r - s
  BY <1>1, <1>2
<1>4. ~(p - q >= 1)
  <2> SUFFICES ASSUME p - q >= 1 PROVE FALSE
    OBVIOUS
  <2>1. ListMax * (p - q) >= ListMax
    BY <1>1, <1>2
  <2> QED
    BY <1>1, <1>2, <1>3, <2>1
<1>5. ~(p - q <= -1)
  <2> SUFFICES ASSUME p - q <= -1 PROVE FALSE
    OBVIOUS
  <2>1. ListMax * (p - q) <= -ListMax
    BY <1>1, <1>2
  <2> QED
    BY <1>1, <1>2, <1>3, <2>1
<1>6. p = q
  BY <1>1, <1>4, <1>5
<1>7. s = r
  BY <1>1, <1>2, <1>6
<1> QED
  BY <1>0, <1>7

\* The next position.
LEMMA NextPosition ==
  ASSUME NEW k \in Nat
  PROVE  ((k % ListMax) + 1) % ListMax = (k + 1) % ListMax
<1>0. PICK q \in Nat, r \in Slots : k = ListMax * q + r /\ k % ListMax = r
  BY Position
<1>1. q \in Nat /\ r \in Nat /\ r < ListMax /\ k = ListMax * q + r
  BY <1>0, Sizes DEF Slots
<1>2. ListMax \in Nat /\ ListMax > 1
  BY Sizes
<1>3. CASE r + 1 < ListMax
  <2>1. r + 1 \in Slots /\ r + 1 = ListMax * 0 + (r + 1) /\ k + 1 = ListMax * q + (r + 1)
    BY <1>1, <1>2, <1>3 DEF Slots
  <2>2. (r + 1) % ListMax = r + 1
    BY <1>1, <2>1, Remainder
  <2>3. (k + 1) % ListMax = r + 1
    BY <1>1, <2>1, Remainder
  <2> QED
    BY <1>0, <2>2, <2>3
<1>4. CASE r + 1 = ListMax
  <2>1. 0 \in Slots /\ q + 1 \in Nat /\ k + 1 \in Nat /\ r + 1 \in Nat
    BY <1>1, <1>2 DEF Slots
  <2>2. r + 1 = ListMax * 1 + 0 /\ k + 1 = ListMax * (q + 1) + 0
    BY <1>1, <1>2, <1>4
  <2>3. (r + 1) % ListMax = 0
    BY <2>1, <2>2, Remainder
  <2>4. (k + 1) % ListMax = 0
    BY <2>1, <2>2, Remainder
  <2> QED
    BY <1>0, <2>3, <2>4
<1> QED
  BY <1>1, <1>2, <1>3, <1>4

\* The threads at a statement are finitely many.
LEMMA ThoseFinite == \A p : IsFiniteSet(Those(p)) /\ Cardinality(Those(p)) \in Nat
<1> SUFFICES ASSUME NEW p PROVE IsFiniteSet(Those(p)) /\ Cardinality(Those(p)) \in Nat
  OBVIOUS
<1>1. Those(p) \subseteq Threads /\ IsFiniteSet(Threads)
  BY LogAssumption DEF Those
<1>2. IsFiniteSet(Those(p))
  BY <1>1, FS_Subset
<1> QED
  BY <1>2, FS_CardinalityType

\* A step of one thread from another statement to another one.
LEMMA CountSame ==
  ASSUME TypeOK, NEW t \in Threads, NEW q, NEW p, pc' = [pc EXCEPT ![t] = q], pc[t] # p, q # p
  PROVE  Those(p)' = Those(p)
  BY DEF Those, TypeOK

\* A thread arrives.
LEMMA CountUp ==
  ASSUME TypeOK, NEW t \in Threads, NEW p, pc' = [pc EXCEPT ![t] = p], pc[t] # p
  PROVE  Cardinality(Those(p)') = Cardinality(Those(p)) + 1
<1>1. Those(p)' = Those(p) \cup {t} /\ t \notin Those(p)
  BY DEF Those, TypeOK
<1> QED
  BY <1>1, ThoseFinite, FS_AddElement

\* A thread leaves.
LEMMA CountDown ==
  ASSUME TypeOK, NEW t \in Threads, NEW p, NEW q, pc' = [pc EXCEPT ![t] = q], pc[t] = p, q # p
  PROVE  /\ Cardinality(Those(p)') = Cardinality(Those(p)) - 1
         /\ Cardinality(Those(p)) > 0
<1>1. Those(p)' = Those(p) \ {t} /\ t \in Those(p)
  BY DEF Those, TypeOK
<1>2. Cardinality(Those(p)) # 0
  BY <1>1, ThoseFinite, FS_EmptySet
<1> QED
  BY <1>1, <1>2, ThoseFinite, FS_RemoveElement

-----------------------------------------------------------------------------
(* Steps that leave lines and blocks alone.                                *)

\* Types and sizes that the invariant gives.
LEMMA Facts ==
  ASSUME NEW d, NEW j, InvAt(d, j)
  PROVE  /\ TypeOK /\ queueSize \in Nat /\ Placed \in Nat /\ d \in Nat /\ d <= Placed /\ j \in Nat
         /\ \A p : Cardinality(Those(p)) \in Nat
         /\ \A k \in 1..Placed :
              /\ order[k][1] \in Threads /\ order[k][2] \in Nat
              /\ order[k] = <<order[k][1], order[k][2]>>
<1>1. TypeOK /\ order \in Seq(Line) /\ queueSize \in Nat
  BY DEF InvAt, TypeOK
<1>2. Placed \in Nat
  BY <1>1, LenProperties DEF Placed
<1>3. d \in 0..Placed /\ j \in Nat
  BY DEF InvAt, RingInv, SinkInv
<1>4. d \in Nat /\ d <= Placed
  BY <1>2, <1>3
<1>5. ASSUME NEW k \in 1..Placed
      PROVE  /\ order[k][1] \in Threads /\ order[k][2] \in Nat
             /\ order[k] = <<order[k][1], order[k][2]>>
  BY <1>1, <1>5, LineText DEF Placed
<1> QED
  BY <1>1, <1>2, <1>3, <1>4, <1>5, ThoseFinite

\* What a thread holds depends on its own variables and its blocks.
LEMMA SameThreads ==
  ASSUME ThreadInv,
         \A t \in Threads : NodeInv(t)' = NodeInv(t) /\ Fresh(t)' = Fresh(t)
  PROVE  ThreadInv'
  BY DEF ThreadInv

\* What blocks and threads hold is as it was where neither changed.
LEMMA SameMemory ==
  ASSUME DisjointInv, ThreadInv, used' = used, text' = text, pc' = pc, line' = line,
         part' = part, node' = node, spare' = spare
  PROVE  DisjointInv' /\ ThreadInv'
<1>1. DisjointInv'
  BY DEF DisjointInv
<1>2. ASSUME NEW t \in Threads PROVE NodeInv(t)' = NodeInv(t) /\ Fresh(t)' = Fresh(t)
  <2>1. Fresh(t)' = Fresh(t)
    BY DEF Fresh
  <2>2. At(node[t].head, t, line[t], 1)' = At(node[t].head, t, line[t], 1)
    BY DEF At
  <2>3. IsFresh(Fresh(t))' = IsFresh(Fresh(t))
    BY <2>1 DEF IsFresh
  <2> QED
    BY <2>1, <2>2, <2>3 DEF NodeInv
<1> QED
  BY <1>1, <1>2, SameThreads

\* The runs are as they were where no block and no line changed.
LEMMA SameRuns ==
  ASSUME NEW d, NEW j, BlockInv(d, j), used' = used, text' = text, link' = link,
         line' = line, part' = part, node' = node, order' = order,
         sink = "clear" => sink' = sink /\ cur' = cur
  PROVE  BlockInv(d, j)'
<1>1. ASSUME NEW b \in Blocks PROVE RunInv(b, d, j)' = RunInv(b, d, j)
  <2>1. \A t, n : Made(t, n)' = Made(t, n)
    BY DEF Made
  <2>2. \A c, t, n, i : At(c, t, n, i)' = At(c, t, n, i)
    BY DEF At
  <2>3. Placed' = Placed
    BY DEF Placed
  <2> HIDE DEF Made, At, Placed
  <2> QED
    BY <2>1, <2>2, <2>3 DEF RunInv
<1> QED
  BY <1>1 DEF BlockInv

\* The sink or ~Logging goes on; at most text moves from the output to the file.
LEMMA Quiet ==
  ASSUME NEW d, NEW j, InvAt(d, j), UNCHANGED <<buffer, blocks, thread, order, rest>>,
         \/ sink' = sink /\ cur' = cur
         \/ /\ sink \notin Busy \cup {"count"} /\ sink' \notin Busy \cup {"count"}
            /\ cur' \in Refs,
         output' \in Seq(Part), file' \in Seq(Part), file' \o output' = file \o output
  PROVE  InvAt(d, j)'
<1>1. /\ queueSize' = queueSize /\ producePos' = producePos /\ consumePos' = consumePos
      /\ slots' = slots /\ next' = next /\ used' = used /\ text' = text /\ link' = link
      /\ pc' = pc /\ line' = line /\ part' = part /\ node' = node /\ spare' = spare
      /\ order' = order /\ rest' = rest
  BY DEF buffer, blocks, thread
<1>2. TypeOK'
  BY <1>1 DEF InvAt, TypeOK
<1>3. DisjointInv'
  BY <1>1 DEF InvAt, DisjointInv
<1>4. ThreadInv'
  BY <1>1, SameThreads DEF InvAt, NodeInv, Fresh, IsFresh, At
<1>5. RingInv(d)'
  BY <1>1 DEF InvAt, RingInv, Those, Placed
<1>6. OrderInv(d)'
  BY <1>1 DEF InvAt, OrderInv, Placed
<1>7. SlotInv(d, j)'
  BY <1>1 DEF InvAt, SlotInv, Placed, Published, AtLine, At
<1>8. SinkInv(d, j)'
  BY <1>1 DEF InvAt, SinkInv, Placed, Published, AtLine, At, Busy
<1>9. FileInv(d, j)'
  BY <1>1 DEF InvAt, FileInv
<1>10. BlockInv(d, j)'
  BY <1>1, SameRuns DEF InvAt, Busy
<1> QED
  BY <1>2, <1>3, <1>4, <1>5, <1>6, <1>7, <1>8, <1>9, <1>10 DEF InvAt

\* The sink thread between two lines, and a write that is not short.
LEMMA SinkRests ==
  ASSUME NEW d, NEW j, InvAt(d, j), SinkLoop \/ Idle \/ Sleep \/ WaitTimesOut
  PROVE  InvAt(d, j)'
<1>1. /\ UNCHANGED <<buffer, blocks, thread, order, rest>> /\ cur' = cur
      /\ output' = output /\ file' = file
      /\ sink \in {"loop", "idle", "lock", "wait"} /\ sink' \in {"loop", "end", "take", "lock", "wait"}
  BY DEF SinkLoop, Idle, Sleep, WaitTimesOut, Sinks, ending, history
<1>2. cur \in Refs /\ output \in Seq(Part) /\ file \in Seq(Part)
  BY DEF InvAt, TypeOK
<1> QED
  BY <1>1, <1>2, Quiet DEF Busy

\* LogFile::write of everything.
LEMMA WriteKeeps ==
  ASSUME NEW d, NEW j, InvAt(d, j), NEW n \in 0..OutputMax, WriteFile(n), ~short'
  PROVE  InvAt(d, j)'
<1>0. output \in Seq(Part) /\ file \in Seq(Part) /\ cur \in Refs /\ n \in Nat /\ Len(output) \in Nat
  BY LogAssumption, LenProperties DEF InvAt, TypeOK
<1>1. n = Len(output)
  <2>1. ~(n < Len(output))
    BY Zenon DEF WriteFile
  <2>2. n <= Len(output)
    BY DEF WriteFile
  <2> QED
    BY <1>0, <2>1, <2>2
<1>2. file' = file \o output /\ output' = <<>>
  <2>1. SubSeq(output, 1, Len(output)) = output
    BY <1>0, SubSeqFull
  <2> QED
    BY <1>1, <2>1 DEF WriteFile
<1>3. file' \in Seq(Part) /\ output' \in Seq(Part) /\ file' \o output' = file \o output
  <2>1. file \o output \in Seq(Part) /\ (file \o output) \o <<>> = file \o output
    BY <1>0, ConcatElements
  <2> QED
    BY <1>2, <2>1
<1>4. /\ UNCHANGED <<buffer, blocks, thread, order, rest>> /\ cur' = cur
      /\ sink = "write" /\ sink' = "loop"
  BY DEF WriteFile, Sinks
<1> QED
  BY <1>0, <1>3, <1>4, Quiet DEF Busy

\* ~Logging.
LEMMA ExitKeeps ==
  ASSUME NEW d, NEW j, InvAt(d, j), BeginExit \/ WakesEarly \/ StopSink \/ Join
  PROVE  InvAt(d, j)'
<1>1. /\ UNCHANGED <<buffer, blocks, thread, order, rest>> /\ cur' = cur
      /\ output' = output /\ file' = file
      /\ sink' = sink \/ (sink = "wait" /\ sink' = "loop")
  BY DEF BeginExit, WakesEarly, StopSink, Join, Notified, sinking, history
<1>2. cur \in Refs /\ output \in Seq(Part) /\ file \in Seq(Part)
  BY DEF InvAt, TypeOK
<1> QED
  BY <1>1, <1>2, Quiet DEF Busy

\* A thread asks for room.
LEMMA RoomKeeps ==
  ASSUME NEW d, NEW j, InvAt(d, j), NEW t \in Threads, Reserve(t) \/ BackOff(t)
  PROVE  InvAt(d, j)'
<1>1. /\ producePos' = producePos /\ consumePos' = consumePos
      /\ slots' = slots /\ next' = next /\ used' = used /\ text' = text /\ link' = link
      /\ line' = line /\ part' = part /\ node' = node /\ spare' = spare
      /\ order' = order /\ sink' = sink /\ cur' = cur /\ rest' = rest
      /\ output' = output /\ file' = file
  BY DEF Reserve, BackOff, blocks, sinking, ending, history
<1> DEFINE A(p) == Cardinality(Those(p))
<1>2. /\ queueSize \in Nat /\ A("backoff") \in Nat /\ A("place") \in Nat /\ TypeOK
      /\ d \in Nat /\ Placed \in Nat /\ d <= Placed /\ ListMax \in Nat
      /\ queueSize = A("backoff") + A("place") + (Placed - d) + (IF sink = "count" THEN 1 ELSE 0)
      /\ A("place") + (Placed - d) < ListMax
  BY Facts, Sizes DEF InvAt, RingInv
<1>3. \/ /\ pc[t] = "finish" /\ queueSize' = queueSize + 1
         /\ \/ pc' = [pc EXCEPT ![t] = "backoff"]
            \/ pc' = [pc EXCEPT ![t] = "place"] /\ queueSize + 1 < ListMax
      \/ pc[t] = "backoff" /\ queueSize' = queueSize - 1 /\ pc' = [pc EXCEPT ![t] = "finish"]
  BY <1>2 DEF Reserve, BackOff, Logs, Full
<1>4. /\ queueSize' \in Nat
      /\ queueSize' = A("backoff")' + A("place")' + (Placed - d) + (IF sink = "count" THEN 1 ELSE 0)
      /\ A("place")' + (Placed - d) < ListMax
  <2>1. CASE pc[t] = "finish" /\ queueSize' = queueSize + 1 /\ pc' = [pc EXCEPT ![t] = "backoff"]
    <3>1. A("backoff")' = A("backoff") + 1 /\ A("place")' = A("place")
      BY <1>2, <2>1, CountUp, CountSame
    <3> HIDE DEF A
    <3> QED
      BY <1>2, <2>1, <3>1
  <2>2. CASE /\ pc[t] = "finish" /\ queueSize' = queueSize + 1 /\ queueSize + 1 < ListMax
             /\ pc' = [pc EXCEPT ![t] = "place"]
    <3>1. A("place")' = A("place") + 1 /\ A("backoff")' = A("backoff")
      BY <1>2, <2>2, CountUp, CountSame
    <3> HIDE DEF A
    <3> QED
      BY <1>2, <2>2, <3>1
  <2>3. CASE pc[t] = "backoff" /\ queueSize' = queueSize - 1 /\ pc' = [pc EXCEPT ![t] = "finish"]
    <3>1. A("backoff")' = A("backoff") - 1 /\ A("backoff") > 0 /\ A("place")' = A("place")
      BY <1>2, <2>3, CountDown, CountSame
    <3> HIDE DEF A
    <3> QED
      BY <1>2, <2>3, <3>1
  <2> QED
    BY <1>3, <2>1, <2>2, <2>3
<1>5. /\ pc' \in [Threads -> {"append", "link", "finish", "backoff", "place", "publish"}]
      /\ \A u \in Threads : pc'[u] # pc[u] =>
           /\ pc[u] \notin {"append", "link", "publish"}
           /\ pc'[u] \notin {"append", "link", "publish"}
  BY <1>2, <1>3 DEF TypeOK
<1>6. TypeOK'
  BY <1>1, <1>2, <1>4, <1>5 DEF TypeOK
<1>7. DisjointInv'
  BY <1>1 DEF InvAt, DisjointInv
<1>8. ThreadInv'
  <2>1. ThreadInv
    BY DEF InvAt
  <2>2. ASSUME NEW u \in Threads PROVE Fresh(u)' = Fresh(u)
    BY <1>1, <1>5 DEF Fresh
  <2>3. ASSUME NEW u \in Threads, NodeInv(u) PROVE NodeInv(u)'
    BY <1>1, <1>5, <2>2, <2>3 DEF NodeInv, IsFresh, At
  <2> QED
    BY <2>1, <2>2, <2>3 DEF ThreadInv
<1>9. RingInv(d)'
  BY <1>1, <1>4 DEF InvAt, RingInv, Placed
<1>10. OrderInv(d)'
  BY <1>1, <1>5, Facts, ZenonT(60) DEF InvAt, OrderInv, Placed
<1>11. SlotInv(d, j)' /\ SinkInv(d, j)' /\ FileInv(d, j)'
  BY <1>1 DEF InvAt, SlotInv, SinkInv, FileInv, Placed, Published, AtLine, At
<1>12. BlockInv(d, j)'
  BY <1>1, SameRuns DEF InvAt
<1> QED
  BY <1>6, <1>7, <1>8, <1>9, <1>10, <1>11, <1>12 DEF InvAt

\* The sink gives up the room of a line.
LEMMA CountKeeps ==
  ASSUME NEW d, NEW j, InvAt(d, j), Count
  PROVE  InvAt(d, j)'
<1>1. /\ producePos' = producePos /\ consumePos' = consumePos
      /\ slots' = slots /\ next' = next /\ used' = used /\ text' = text /\ link' = link
      /\ pc' = pc /\ line' = line /\ part' = part /\ node' = node /\ spare' = spare
      /\ order' = order /\ cur' = cur /\ rest' = rest /\ output' = output /\ file' = file
      /\ sink = "count" /\ sink' = "take" /\ queueSize' = queueSize - 1
  BY DEF Count, Sinks, blocks, thread, ending, history
<1>2. /\ queueSize \in Nat /\ TypeOK
      /\ Cardinality(Those("backoff")) \in Nat /\ Cardinality(Those("place")) \in Nat
      /\ d \in Nat /\ Placed \in Nat /\ d <= Placed
      /\ queueSize = Cardinality(Those("backoff")) + Cardinality(Those("place")) + (Placed - d) + 1
  BY <1>1, Facts DEF InvAt, RingInv
<1>3. queueSize' \in Nat /\ queueSize' =
        Cardinality(Those("backoff")) + Cardinality(Those("place")) + (Placed - d) + 0
  BY <1>1, <1>2
<1>4. TypeOK'
  BY <1>1, <1>2, <1>3 DEF TypeOK
<1>5. DisjointInv' /\ ThreadInv'
  BY <1>1, SameMemory DEF InvAt
<1>6. RingInv(d)'
  BY <1>1, <1>3 DEF InvAt, RingInv, Placed, Those
<1>7. OrderInv(d)'
  BY <1>1 DEF InvAt, OrderInv, Placed
<1>8. SlotInv(d, j)' /\ SinkInv(d, j)' /\ FileInv(d, j)'
  BY <1>1 DEF InvAt, SlotInv, SinkInv, FileInv, Placed, Published, AtLine, At, Busy
<1>9. BlockInv(d, j)'
  BY <1>1, SameRuns DEF InvAt
<1> QED
  BY <1>4, <1>5, <1>6, <1>7, <1>8, <1>9 DEF InvAt

-----------------------------------------------------------------------------
(* A thread builds its line.                                               *)

\* The least element CHOOSEn by Min is one of the set.
LEMMA MinIn ==
  ASSUME NEW S, S \subseteq Nat, S # {} PROVE Min(S) \in S
<1>1. \E x \in S : \A y \in S : x <= y
  BY LeastNatural
<1> QED
  BY <1>1 DEF Min

\* BufferBucket::alloc gives a block that nobody uses, and unless the sink is
\* just recycling it, an empty one.
LEMMA AllocFresh ==
  ASSUME NEW d, NEW j, InvAt(d, j), Alloc, sink' = sink, cur' = cur, ~Racing'
  PROVE  /\ Allocated \in Blocks /\ ~used[Allocated]
         /\ text[Allocated] = <<>> /\ link[Allocated] = Nil
         /\ used' \in [Blocks -> BOOLEAN] /\ used'[Allocated]
         /\ \A c \in Blocks : c # Allocated => used'[c] = used[c]
         /\ text' = text /\ link' = link /\ next' \in Nat
         /\ sink = "clear" => ~used'[cur]
<1>0. /\ next \in Nat /\ used \in [Blocks -> BOOLEAN] /\ Bucket \in Nat \ {0}
      /\ sink = "clear" => cur \in Reusable
  BY LogAssumption DEF InvAt, TypeOK, SinkInv
<1>1. Turn \in Reusable /\ (next + 1) % Bucket \in Nat
  <2>1. next % Bucket \in 0..(Bucket - 1)
    BY <1>0
  <2>2. (next + 1) % Bucket \in Nat
    BY <1>0
  <2> QED
    BY <1>0, <2>1, <2>2 DEF Turn, Reusable
<1>2. used[Turn] => Min(HeapFree) \in HeapFree
  <2>1. HeapFree \subseteq Nat
    BY Sizes DEF HeapFree
  <2> QED
    BY <2>1, MinIn DEF Alloc, CanAlloc
<1>3. Allocated \in Blocks /\ ~used[Allocated]
  BY <1>1, <1>2, Sizes DEF Allocated, HeapFree
<1>4. used' = [used EXCEPT ![Allocated] = TRUE] /\ text' = text /\ link' = link
  BY DEF Alloc
<1> HIDE DEF Allocated
<1>5. /\ used' \in [Blocks -> BOOLEAN] /\ used'[Allocated]
      /\ \A c \in Blocks : c # Allocated => used'[c] = used[c]
  BY <1>0, <1>3, <1>4
<1>6. sink = "clear" => ~used'[cur]
  BY <1>0, Sizes DEF Racing
<1>7. text[Allocated] = <<>> /\ link[Allocated] = Nil
  BY <1>3, <1>5, <1>6 DEF InvAt, BlockInv
<1>8. next' \in Nat
  BY <1>1 DEF Alloc
<1> QED
  BY <1>3, <1>4, <1>5, <1>6, <1>7, <1>8

\* Where a line begins stays where it is while blocks are taken and written to.
Grows ==
    /\ \A c \in Blocks : used[c] => used'[c]
    /\ \A c \in Blocks : text[c] # <<>> => text'[c] # <<>> /\ text'[c][1] = text[c][1]

\* A block that begins with a part goes on doing so.
LEMMA AtGrows ==
  ASSUME Grows
  PROVE  \A b, t, n, i : At(b, t, n, i) => At(b, t, n, i)'
  BY DEF Grows, At

\* Then the ring and the sink see no difference.
LEMMA RingUntouched ==
  ASSUME NEW d, NEW j, InvAt(d, j), Grows, UNCHANGED <<buffer, sinking, file, order, line>>,
         sink = "clear" => ~used'[cur],
         Those("backoff")' = Those("backoff"), Those("place")' = Those("place"),
         \A t \in Threads : pc[t] = "publish" <=> pc'[t] = "publish",
         \A t \in Threads : pc[t] = "publish" => spare'[t] = spare[t]
  PROVE  RingInv(d)' /\ OrderInv(d)' /\ SlotInv(d, j)' /\ SinkInv(d, j)' /\ FileInv(d, j)'
<1>1. /\ queueSize' = queueSize /\ producePos' = producePos /\ consumePos' = consumePos
      /\ slots' = slots /\ line' = line /\ order' = order
      /\ sink' = sink /\ cur' = cur /\ rest' = rest /\ output' = output /\ file' = file
  BY DEF buffer, sinking
<1>2. RingInv(d)'
  BY <1>1 DEF InvAt, RingInv, Placed
<1>3. OrderInv(d)'
  <2>1. OrderInv(d)
    BY DEF InvAt
  <2>2. \A k \in 1..Placed : order[k][1] \in Threads
    BY Facts
  <2>3. Placed' = Placed
    BY <1>1 DEF Placed
  <2>4. \A k \in 1..Placed : pc'[order[k][1]] = "publish" <=> pc[order[k][1]] = "publish"
    BY <2>2
  <2>5. \A t \in Threads : pc'[t] = "publish" =>
          \E k \in (d + 1)..Placed : order[k] = <<t, line[t]>> /\ spare'[t] = k % ListMax
    BY <2>1, ZenonT(30) DEF OrderInv
  <2>6. \A k, m \in 1..Placed : order[k] = order[m] => k = m
    BY <2>1 DEF OrderInv
  <2>7. \A k \in 1..Placed :
          /\ order[k][2] <= line[order[k][1]]
          /\ order[k][2] = line[order[k][1]] => pc'[order[k][1]] = "publish"
    BY <2>1, <2>4 DEF OrderInv
  <2>8. order' = order /\ line' = line
    BY <1>1
  <2> QED
    BY <2>3, <2>5, <2>6, <2>7, <2>8, SMTT(30) DEF OrderInv
<1>4. \A b, k, i : AtLine(b, k, i) => AtLine(b, k, i)'
  BY <1>1, AtGrows DEF AtLine
<1>5. SlotInv(d, j)'
  BY <1>1, <1>4 DEF InvAt, SlotInv, Placed, Published
<1>6. SinkInv(d, j)'
  BY <1>1, <1>4 DEF InvAt, SinkInv, Placed, Published
<1>7. FileInv(d, j)'
  BY <1>1 DEF InvAt, FileInv
<1> QED
  BY <1>2, <1>3, <1>5, <1>6, <1>7

\* The first block of a line.
LEMMA StartKeeps ==
  ASSUME NEW d, NEW j, InvAt(d, j), NEW t \in Threads, StartChain(t), ~Racing'
  PROVE  InvAt(d, j)'
<1> DEFINE b == Allocated
<1>1. /\ UNCHANGED <<buffer, pc, line, part, spare, sinking, file, order>>
      /\ node' = [node EXCEPT ![t] = [head |-> b, tail |-> b]]
      /\ node[t].head = Nil /\ pc[t] = "append" /\ Alloc
  BY DEF StartChain, Logs, ending, history
<1>2. /\ b \in Blocks /\ ~used[b] /\ text[b] = <<>> /\ link[b] = Nil
      /\ used' \in [Blocks -> BOOLEAN] /\ used'[b]
      /\ \A c \in Blocks : c # b => used'[c] = used[c]
      /\ text' = text /\ link' = link /\ next' \in Nat
      /\ sink = "clear" => ~used'[cur]
  BY <1>1, AllocFresh DEF sinking
<1> HIDE DEF b
<1>3. /\ queueSize' = queueSize /\ slots' = slots /\ pc' = pc /\ line' = line /\ part' = part
      /\ spare' = spare /\ sink' = sink /\ cur' = cur /\ rest' = rest /\ output' = output
      /\ file' = file /\ order' = order
  BY <1>1 DEF buffer, sinking
<1>4. TypeOK /\ NodeInv(t) /\ part[t] = 1
  BY <1>1 DEF InvAt, ThreadInv, NodeInv
<1>5. /\ node' \in [Threads -> [head : Refs, tail : Refs]]
      /\ node'[t].head = b /\ node'[t].tail = b
      /\ \A u \in Threads : u # t => node'[u] = node[u]
  BY <1>1, <1>2, <1>4, Sizes DEF TypeOK
<1>6. TypeOK'
  BY <1>2, <1>3, <1>4, <1>5 DEF TypeOK
<1>7. Grows
  BY <1>2 DEF Grows
<1>8. RingInv(d)' /\ OrderInv(d)' /\ SlotInv(d, j)' /\ SinkInv(d, j)' /\ FileInv(d, j)'
  <2>1. Those("backoff")' = Those("backoff") /\ Those("place")' = Those("place")
    BY <1>3 DEF Those
  <2>2. UNCHANGED <<buffer, sinking, file, order, line>>
    BY <1>1
  <2> QED
    BY <1>2, <1>3, <1>7, <2>1, <2>2, RingUntouched
<1>9. DisjointInv'
  BY <1>2 DEF InvAt, DisjointInv
<1>10. ThreadInv'
  <2>0. ThreadInv /\ used \in [Blocks -> BOOLEAN]
    BY <1>4 DEF InvAt, TypeOK
  <2>1. Fresh(t)' = b
    BY <1>1, <1>3, <1>4, <1>5 DEF Fresh
  <2>2. ASSUME NEW u \in Threads, u # t
        PROVE  Fresh(u)' = Fresh(u) /\ Fresh(u) # b
    <3>1. Fresh(u)' = Fresh(u)
      BY <1>3, <1>5, <2>2 DEF Fresh
    <3>2. Fresh(u) # Nil => used[Fresh(u)]
      BY <2>0 DEF ThreadInv, NodeInv, IsFresh
    <3> QED
      BY <1>2, <3>1, <3>2, Sizes
  <2>3. NodeInv(t)'
    BY <1>1, <1>2, <1>3, <1>4, <1>5, <2>1, Sizes DEF NodeInv, IsFresh
  <2>4. ASSUME NEW u \in Threads, u # t PROVE NodeInv(u)'
    <3>1. NodeInv(u)
      BY <2>0 DEF ThreadInv
    <3>2. \A c \in Blocks : used[c] => used'[c]
      BY <1>2
    <3>3. node'[u] = node[u] /\ Fresh(u)' = Fresh(u)
      BY <1>5, <2>2, <2>4
    <3> QED
      BY <1>2, <1>3, <3>1, <3>2, <3>3, SMTT(30) DEF NodeInv, IsFresh, At
  <2> QED
    BY <2>0, <2>1, <2>2, <2>3, <2>4 DEF ThreadInv
<1>11. BlockInv(d, j)'
  <2>1. ASSUME NEW c \in Blocks, used[c], text[c] # <<>>, RunInv(c, d, j)
        PROVE  RunInv(c, d, j)'
    <3> DEFINE u == text[c][1][1]
               n == text[c][1][2]
    <3>1. \A m, v : Made(m, v)' = Made(m, v)
      BY <1>3 DEF Made
    <3>2. n = line[u] /\ u = t => text[c][1][3] + Len(text[c]) - 1 <= 0
      BY <1>4, <2>1 DEF RunInv, Made
    <3>3. text[c] \in Seq(Part) /\ Len(text[c]) \in Nat \ {0} /\ text[c][1] \in Part
      BY <1>4, <2>1 DEF TypeOK
    <3>4. u \in Threads /\ text[c][1][3] \in Nat /\ text[c][1][3] > 0
      BY <2>1, <3>3 DEF Part, RunInv
    <3>5. ~(n = line[u] /\ u = t)
      BY <3>2, <3>3, <3>4
    <3>6. n = line[u] => node'[u] = node[u]
      BY <1>5, <3>4, <3>5
    <3>7. \A x, y, z, v : At(x, y, z, v) => At(x, y, z, v)'
      BY <1>7, AtGrows
    <3> QED
      BY <1>2, <1>3, <2>1, <3>1, <3>6, <3>7 DEF RunInv, Placed
  <2> QED
    BY <1>2, <1>3, <2>1 DEF InvAt, BlockInv
<1> QED
  BY <1>6, <1>8, <1>9, <1>10, <1>11 DEF InvAt


\* The next block of a line: it is taken when the last one is full.
LEMMA ExtendKeeps ==
  ASSUME NEW d, NEW j, InvAt(d, j), NEW t \in Threads, Extend(t), ~Racing'
  PROVE  InvAt(d, j)'
<1> DEFINE b == Allocated
<1>1. /\ UNCHANGED <<buffer, line, part, node, sinking, file, order>>
      /\ spare' = [spare EXCEPT ![t] = b] /\ pc' = [pc EXCEPT ![t] = "link"]
      /\ node[t].tail # Nil /\ ~Room(node[t].tail) /\ pc[t] = "append" /\ Alloc
  BY DEF Extend, Logs, ending, history
<1>2. /\ b \in Blocks /\ ~used[b] /\ text[b] = <<>> /\ link[b] = Nil
      /\ used' \in [Blocks -> BOOLEAN] /\ used'[b]
      /\ \A c \in Blocks : c # b => used'[c] = used[c]
      /\ text' = text /\ link' = link /\ next' \in Nat
      /\ sink = "clear" => ~used'[cur]
  BY <1>1, AllocFresh DEF sinking
<1> HIDE DEF b
<1>3. /\ queueSize' = queueSize /\ slots' = slots /\ line' = line /\ part' = part /\ node' = node
      /\ sink' = sink /\ cur' = cur /\ rest' = rest /\ output' = output
      /\ file' = file /\ order' = order
  BY <1>1 DEF buffer, sinking
<1>4. TypeOK /\ NodeInv(t) /\ b \in Nat /\ b # Nil
  BY <1>2, Sizes DEF InvAt, ThreadInv
<1>5. part[t] > 1 /\ part[t] <= Parts[t]
  <2>1. part[t] <= Parts[t] /\ part[t] \in Nat \ {0}
    BY <1>1, <1>4 DEF NodeInv, TypeOK
  <2>2. part[t] # 1
    <3> SUFFICES ASSUME part[t] = 1 PROVE FALSE
      OBVIOUS
    <3>1. node[t].tail = node[t].head /\ Fresh(t) = node[t].head /\ Fresh(t) # Nil
      BY <1>1, <1>4 DEF NodeInv, Fresh
    <3>2. text[node[t].tail] = <<>>
      BY <1>4, <3>1 DEF NodeInv, IsFresh
    <3>3. Room(node[t].tail)
      BY <3>2, Sizes DEF Room
    <3> QED
      BY <1>1, <3>3
  <2> QED
    BY <2>1, <2>2
<1>6. /\ pc' \in [Threads -> {"append", "link", "finish", "backoff", "place", "publish"}]
      /\ spare' \in [Threads -> Nat] /\ pc'[t] = "link" /\ spare'[t] = b
      /\ \A u \in Threads : u # t => pc'[u] = pc[u] /\ spare'[u] = spare[u]
  BY <1>1, <1>4 DEF TypeOK
<1>7. TypeOK'
  BY <1>2, <1>3, <1>4, <1>6 DEF TypeOK
<1>8. Grows
  BY <1>2 DEF Grows
<1>9. RingInv(d)' /\ OrderInv(d)' /\ SlotInv(d, j)' /\ SinkInv(d, j)' /\ FileInv(d, j)'
  <2>1. Those("backoff")' = Those("backoff") /\ Those("place")' = Those("place")
    BY <1>1, <1>4, CountSame
  <2>2. UNCHANGED <<buffer, sinking, file, order, line>>
    BY <1>1
  <2>3. \A u \in Threads : pc[u] = "publish" <=> pc'[u] = "publish"
    BY <1>1, <1>6
  <2>4. \A u \in Threads : pc[u] = "publish" => spare'[u] = spare[u]
    BY <1>1, <1>6
  <2> QED
    BY <1>2, <1>8, <2>1, <2>2, <2>3, <2>4, RingUntouched
<1>10. DisjointInv'
  BY <1>2 DEF InvAt, DisjointInv
<1>11. ThreadInv'
  <2>0. ThreadInv /\ used \in [Blocks -> BOOLEAN]
    BY <1>4 DEF InvAt, TypeOK
  <2>1. Fresh(t)' = b
    BY <1>6 DEF Fresh
  <2>2. ASSUME NEW u \in Threads, u # t
        PROVE  Fresh(u)' = Fresh(u) /\ Fresh(u) # b
    <3>1. Fresh(u)' = Fresh(u)
      BY <1>3, <1>6, <2>2 DEF Fresh
    <3>2. Fresh(u) # Nil => used[Fresh(u)]
      BY <2>0 DEF ThreadInv, NodeInv, IsFresh
    <3> QED
      BY <1>2, <1>4, <3>1, <3>2
  <2>3. \A c \in Blocks : used[c] => used'[c]
    BY <1>2
  <2>4. NodeInv(t)'
    BY <1>2, <1>3, <1>4, <1>5, <1>6, <2>1, <2>3 DEF NodeInv, IsFresh, At
  <2>5. ASSUME NEW u \in Threads, u # t PROVE NodeInv(u)'
    <3>1. NodeInv(u)
      BY <2>0 DEF ThreadInv
    <3>2. pc'[u] = pc[u] /\ spare'[u] = spare[u] /\ Fresh(u)' = Fresh(u)
      BY <1>6, <2>2, <2>5
    <3> QED
      BY <1>2, <1>3, <2>3, <3>1, <3>2 DEF NodeInv, IsFresh, At
  <2> QED
    BY <2>0, <2>1, <2>2, <2>4, <2>5 DEF ThreadInv
<1>12. BlockInv(d, j)'
  <2>1. ASSUME NEW c \in Blocks, used[c], text[c] # <<>>, RunInv(c, d, j)
        PROVE  RunInv(c, d, j)'
    <3>1. \A m, v : Made(m, v)' = Made(m, v)
      BY <1>3 DEF Made
    <3>2. \A x, y, z, v : At(x, y, z, v) => At(x, y, z, v)'
      BY <1>8, AtGrows
    <3> QED
      BY <1>2, <1>3, <2>1, <3>1, <3>2 DEF RunInv, Placed
  <2> QED
    BY <1>2, <1>3, <2>1 DEF InvAt, BlockInv
<1> QED
  BY <1>7, <1>9, <1>10, <1>11, <1>12 DEF InvAt

\* The parts that exist are the ones before the next.
LEMMA NotYetWritten ==
  ASSUME NEW d, NEW j, InvAt(d, j), NEW t \in Threads, NEW c \in Blocks, used[c],
         NEW q \in DOMAIN text[c]
  PROVE  text[c][q] # <<t, line[t], part[t]>>
<1> DEFINE u == text[c][1][1]
           n == text[c][1][2]
           i == text[c][1][3]
           m == Len(text[c])
<1>1. text[c] \in Seq(Part) /\ part[t] \in Nat \ {0} /\ line \in [Threads -> Nat]
  BY DEF InvAt, TypeOK
<1>2. m \in Nat \ {0} /\ q \in 1..m /\ text[c] # <<>> /\ text[c][1] \in Part
  BY <1>1
<1>3. RunInv(c, d, j) /\ u \in Threads /\ n \in Nat /\ i \in Nat
  BY <1>2 DEF InvAt, BlockInv, Part
<1>4. text[c] = Run(u, n, i, m) /\ i + m - 1 <= Made(u, n)
  BY <1>3 DEF RunInv
<1>5. text[c][q] = <<u, n, i + q - 1>>
  <2> HIDE DEF u, n, i, m
  <2> QED
    BY <1>2, <1>4 DEF Run
<1> HIDE DEF u, n, i, m
<1> SUFFICES ASSUME text[c][q] = <<t, line[t], part[t]>> PROVE FALSE
  OBVIOUS
<1>6. u = t /\ n = line[t] /\ i + q - 1 = part[t]
  BY <1>5
<1>7. Made(u, n) = part[t] - 1
  BY <1>6 DEF Made
<1> QED
  BY <1>1, <1>2, <1>3, <1>4, <1>6, <1>7

\* The last block of a chain holds the parts up to the last.
LEMMA TailRun ==
  ASSUME NEW d, NEW j, InvAt(d, j), NEW t \in Threads, part[t] > 1
  PROVE  LET b == node[t].tail
             i == text[b][1][3]
             m == Len(text[b])
         IN  /\ b \in Blocks /\ used[b] /\ text[b] # <<>> /\ text[b] \in Seq(Part)
             /\ text[b][1] = <<t, line[t], i>> /\ i \in Nat \ {0} /\ m \in Nat \ {0}
             /\ i + m = part[t] /\ text[b] = Run(t, line[t], i, m) /\ link[b] = Nil
<1> DEFINE b == node[t].tail
           i == text[b][1][3]
           m == Len(text[b])
           u == text[b][1][1]
           n == text[b][1][2]
<1>1. /\ TypeOK /\ b \in Blocks /\ used[b] /\ text[b] # <<>>
      /\ text[b][m] = <<t, line[t], part[t] - 1>>
  BY DEF InvAt, ThreadInv, NodeInv
<1>2. text[b] \in Seq(Part) /\ part[t] \in Nat /\ line[t] \in Nat
  BY <1>1 DEF TypeOK
<1>3. m \in Nat \ {0} /\ text[b][1] \in Part
  BY <1>1, <1>2
<1>4. /\ RunInv(b, d, j) /\ u \in Threads /\ n \in Nat /\ i \in Nat
      /\ text[b][1] = <<u, n, i>>
  BY <1>1, <1>3, SMTT(60) DEF InvAt, BlockInv, Part
<1>5. /\ i > 0 /\ text[b] = Run(u, n, i, m)
      /\ i + m - 1 = Made(u, n) => link[b] = Nil
  BY <1>4 DEF RunInv
<1> HIDE DEF i, m, u, n, b
<1>6. text[b][m] = <<u, n, i + m - 1>>
  BY <1>3, <1>5 DEF Run
<1>7. u = t /\ n = line[t] /\ i + m - 1 = part[t] - 1
  BY <1>1, <1>6
<1>8. Made(u, n) = part[t] - 1
  BY <1>7 DEF Made
<1>9. i + m = part[t]
  <2>1. i \in Nat /\ m \in Nat /\ part[t] \in Nat /\ i + m - 1 = part[t] - 1
    BY <1>2, <1>3, <1>4, <1>7, Zenon
  <2> QED
    BY <2>1
<1>10. /\ text[b][1] = <<t, line[t], i>> /\ text[b] = Run(t, line[t], i, m)
       /\ link[b] = Nil /\ i \in Nat \ {0}
  <2>1. i \in Nat \ {0}
    BY <1>4, <1>5
  <2>2. i + m - 1 = Made(u, n)
    BY <1>7, <1>8, Zenon
  <2> QED
    BY <1>4, <1>5, <1>7, <2>1, <2>2, Zenon
<1> QED
  BY <1>1, <1>2, <1>3, <1>9, <1>10, Zenon DEF i, m, b

\* A run with the next part is a run.
LEMMA RunAppend ==
  ASSUME NEW t \in Threads, NEW n \in Nat, NEW i \in Nat \ {0}, NEW m \in Nat
  PROVE  Append(Run(t, n, i, m), <<t, n, i + m>>) = Run(t, n, i, m + 1)
<1> DEFINE r == Run(t, n, i, m)
           s == Run(t, n, i, m + 1)
           p == <<t, n, i + m>>
           a == Append(r, p)
<1> HIDE DEF r, s
<1>1. r \in Seq(Part) /\ Len(r) = m /\ \A k \in 1..m : r[k] = <<t, n, i + k - 1>>
  BY RunType DEF r
<1>2. m + 1 \in Nat
  OBVIOUS
<1>3. s \in Seq(Part) /\ Len(s) = m + 1 /\ \A k \in 1..(m + 1) : s[k] = <<t, n, i + k - 1>>
  BY <1>2, RunType DEF s
<1>4. p \in Part
  BY DEF Part
<1>5. /\ a \in Seq(Part) /\ Len(a) = m + 1 /\ a[m + 1] = p
      /\ \A k \in 1..m : a[k] = r[k]
  <2> HIDE DEF p
  <2> QED
    BY <1>1, <1>4
<1>6. ASSUME NEW k \in 1..(m + 1) PROVE a[k] = s[k]
  <2> HIDE DEF a
  <2>1. CASE k = m + 1
    <3>1. i + k - 1 = i + m
      BY <2>1
    <3> QED
      BY <1>3, <1>5, <2>1, <3>1
  <2>2. CASE k # m + 1
    <3>1. k \in 1..m
      BY <2>2
    <3> QED
      BY <1>1, <1>3, <1>5, <3>1
  <2> QED
    BY <2>1, <2>2
<1> HIDE DEF a
<1>7. a = s
  BY <1>3, <1>5, <1>6, SameSeq
<1> QED
  BY <1>7 DEF a, r, s

\* What to show of a block after a step.
LEMMA RunIs ==
  ASSUME NEW d, NEW j, NEW b, NEW t, NEW n, NEW i, NEW m,
         text'[b][1] = <<t, n, i>>, Len(text'[b]) = m, i > 0, n <= line'[t],
         i + m - 1 <= Made(t, n)', text'[b] = Run(t, n, i, m),
         i + m - 1 = Made(t, n)' => link'[b] = Nil /\ (n = line'[t] => node'[t].tail = b),
         i + m - 1 < Made(t, n)' => At(link[b], t, n, i + m)',
         \A k \in 1..Placed' : order'[k] = <<t, n>> => k > d /\ (k = d + 1 => i > j)
  PROVE  RunInv(b, d, j)'
  BY DEF RunInv, Made, At

\* A run of one part.
LEMMA OneRun == \A t, n, i : i \in Nat => Run(t, n, i, 1) = <<<<t, n, i>>>>
<1> SUFFICES ASSUME NEW t, NEW n, NEW i \in Nat PROVE Run(t, n, i, 1) = <<<<t, n, i>>>>
  OBVIOUS
<1>1. \A k \in 1..1 : k = 1 /\ i + k - 1 = i
  OBVIOUS
<1> QED
  BY <1>1 DEF Run

\* The last block of a chain with the next part.
LEMMA TailGrows ==
  ASSUME NEW d, NEW j, InvAt(d, j), NEW t \in Threads, part[t] > 1
  PROVE  LET s == text[node[t].tail]
         IN  Append(s, ThisPart(t)) = Run(t, line[t], s[1][3], Len(s) + 1)
<1> DEFINE s == text[node[t].tail]
           i == s[1][3]
           m == Len(s)
<1>1. /\ i \in Nat \ {0} /\ m \in Nat \ {0} /\ i + m = part[t] /\ s = Run(t, line[t], i, m)
  BY TailRun
<1>2. line[t] \in Nat
  BY DEF InvAt, TypeOK
<1> HIDE DEF s, i, m
<1>3. Append(Run(t, line[t], i, m), <<t, line[t], i + m>>) = Run(t, line[t], i, m + 1)
  BY <1>1, <1>2, RunAppend
<1>4. Append(s, <<t, line[t], part[t]>>) = Run(t, line[t], i, m + 1)
  BY <1>1, <1>3
<1> QED
  BY <1>4 DEF s, i, m, ThisPart

\* A part goes to the last block of its line: one that has room, the first one,
\* or one that is just linked.
Adds(t, b) ==
    /\ UNCHANGED <<buffer, next, used, line, sinking, file, order>>
    /\ pc[t] \in {"append", "link"} /\ part[t] <= Parts[t] /\ NextPart(t)
    /\ text' = [text EXCEPT ![b] = Append(text[b], ThisPart(t))]
    /\ node' \in [Threads -> [head : Refs, tail : Refs]] /\ spare' \in [Threads -> Nat]
    /\ node'[t].head = node[t].head /\ node'[t].tail = b /\ node[t].head # Nil
    /\ \A u \in Threads : u # t => node'[u] = node[u] /\ spare'[u] = spare[u]
    /\ \/ part[t] = 1 /\ b = node[t].head /\ b = Fresh(t) /\ link' = link
       \/ part[t] > 1 /\ b = node[t].tail /\ link' = link
       \/ part[t] > 1 /\ b = Fresh(t) /\ link' = [link EXCEPT ![node[t].tail] = b]

\* The line is whole after it.
LEMMA AddPart ==
  ASSUME NEW d, NEW j, InvAt(d, j), NEW t \in Threads, NEW b \in Blocks, Adds(t, b)
  PROVE  InvAt(d, j)'
<1> DEFINE p == ThisPart(t)
           e == node[t].tail
<1>0. /\ TypeOK /\ ThreadInv /\ NodeInv(t) /\ b # Nil
      /\ part[t] \in Nat /\ part[t] > 0 /\ line[t] \in Nat /\ Parts[t] \in Nat
  <2>1. TypeOK /\ ThreadInv /\ NodeInv(t)
    BY DEF InvAt, ThreadInv
  <2>2. part[t] \in Nat \ {0} /\ line[t] \in Nat
    BY <2>1 DEF TypeOK
  <2> QED
    BY <2>1, <2>2, Sizes
<1>1. /\ queueSize' = queueSize /\ slots' = slots /\ next' = next /\ used' = used
      /\ line' = line /\ sink' = sink /\ cur' = cur /\ rest' = rest /\ output' = output
      /\ file' = file /\ order' = order
      /\ pc[t] \in {"append", "link"} /\ part[t] <= Parts[t]
  BY DEF Adds, buffer, sinking
<1>a. /\ node' \in [Threads -> [head : Refs, tail : Refs]] /\ spare' \in [Threads -> Nat]
      /\ node'[t].head = node[t].head /\ node'[t].tail = b /\ node[t].head # Nil
      /\ \A u \in Threads : u # t => node'[u] = node[u] /\ spare'[u] = spare[u]
  BY DEF Adds
<1>b. \/ part[t] = 1 /\ b = node[t].head /\ b = Fresh(t) /\ link' = link
      \/ part[t] > 1 /\ b = node[t].tail /\ link' = link
      \/ part[t] > 1 /\ b = Fresh(t) /\ link' = [link EXCEPT ![node[t].tail] = b]
  BY DEF Adds
<1>2. p = <<t, line[t], part[t]>> /\ p \in Part
  BY <1>0 DEF ThisPart, Part
<1> HIDE DEF p
<1>3. /\ text' \in [Blocks -> Seq(Part)] /\ text'[b] = Append(text[b], p)
      /\ \A c \in Blocks : c # b => text'[c] = text[c]
  BY <1>0, <1>2 DEF Adds, TypeOK, p
<1>4. /\ pc' \in [Threads -> {"append", "link", "finish", "backoff", "place", "publish"}]
      /\ part' \in [Threads -> Nat \ {0}] /\ part'[t] = part[t] + 1
      /\ pc'[t] = (IF part[t] = Parts[t] THEN "finish" ELSE "append")
      /\ \A u \in Threads : u # t => pc'[u] = pc[u] /\ part'[u] = part[u]
  <2>1. /\ part' = [part EXCEPT ![t] = part[t] + 1]
        /\ pc' = [pc EXCEPT ![t] = IF part[t] = Parts[t] THEN "finish" ELSE "append"]
    BY DEF Adds, NextPart
  <2>2. part[t] + 1 \in Nat \ {0}
    BY <1>0
  <2> QED
    BY <1>0, <2>1, <2>2 DEF TypeOK
<1>5. /\ used[b] /\ text[b] \in Seq(Part) /\ Len(text[b]) \in Nat
      /\ text[b] = <<>> <=> b = Fresh(t)
      /\ text[b] # <<>> => part[t] > 1 /\ b = e /\ link' = link
  <2>1. b = Fresh(t) => used[b] /\ text[b] = <<>>
    BY <1>0 DEF NodeInv, IsFresh
  <2>2. part[t] > 1 => used[e] /\ text[e] # <<>>
    BY TailRun
  <2>3. text[b] \in Seq(Part) /\ Len(text[b]) \in Nat
    BY <1>0 DEF TypeOK
  <2> QED
    BY <1>b, <2>1, <2>2, <2>3
<1>6. /\ text'[b] # <<>> /\ Len(text'[b]) = Len(text[b]) + 1
      /\ text'[b][Len(text[b]) + 1] = p
      /\ \A q \in 1..Len(text[b]) : text'[b][q] = text[b][q]
  BY <1>2, <1>3, <1>5
<1>7. Grows
  <2>1. ASSUME NEW c \in Blocks, text[c] # <<>>
        PROVE  text'[c] # <<>> /\ text'[c][1] = text[c][1]
    <3>1. CASE c = b
      <4>1. 1 \in 1..Len(text[b])
        BY <1>5, <2>1, <3>1
      <4> QED
        BY <1>6, <3>1, <4>1
    <3>2. CASE c # b
      BY <1>3, <2>1, <3>2
    <3> QED
      BY <3>1, <3>2
  <2> QED
    BY <1>1, <2>1 DEF Grows
<1>8. /\ link' \in [Blocks -> Refs]
      /\ \A c \in Blocks : link'[c] # link[c] =>
           c = e /\ link'[c] = b /\ part[t] > 1 /\ text[b] = <<>>
  BY <1>0, <1>5, <1>b, Sizes DEF TypeOK
<1>9. TypeOK'
  BY <1>0, <1>1, <1>3, <1>4, <1>8, <1>a DEF TypeOK
<1>10. RingInv(d)' /\ OrderInv(d)' /\ SlotInv(d, j)' /\ SinkInv(d, j)' /\ FileInv(d, j)'
  <2>1. Those("backoff")' = Those("backoff") /\ Those("place")' = Those("place")
    <3> DEFINE q == IF part[t] = Parts[t] THEN "finish" ELSE "append"
    <3>1. pc' = [pc EXCEPT ![t] = q] /\ q # "backoff" /\ q # "place"
      BY DEF Adds, NextPart
    <3>2. pc[t] # "backoff" /\ pc[t] # "place"
      BY <1>1
    <3> HIDE DEF q
    <3> QED
      BY <1>0, <3>1, <3>2, CountSame
  <2>2. \A u \in Threads : pc[u] = "publish" <=> pc'[u] = "publish"
    BY <1>1, <1>4
  <2>3. \A u \in Threads : pc[u] = "publish" => spare'[u] = spare[u]
    BY <1>1, <1>a
  <2>4. sink = "clear" => ~used'[cur]
    BY <1>1 DEF InvAt, SinkInv
  <2>5. UNCHANGED <<buffer, sinking, file, order, line>>
    BY DEF Adds
  <2> QED
    BY <1>7, <2>1, <2>2, <2>3, <2>4, <2>5, RingUntouched
<1>11. DisjointInv'
  <2>1. ASSUME NEW c \in Blocks, c # b, used[c], NEW q \in DOMAIN text[c], NEW r \in DOMAIN text'[b]
        PROVE  text[c][q] # text'[b][r]
    <3>1. text[c][q] # p
      BY <1>2, <2>1, NotYetWritten
    <3>2. r \in 1..(Len(text[b]) + 1)
      BY <1>3, <1>6
    <3>3. CASE r = Len(text[b]) + 1
      BY <1>6, <3>1, <3>3
    <3>4. CASE r # Len(text[b]) + 1
      <4>1. r \in 1..Len(text[b]) /\ r \in DOMAIN text[b]
        BY <1>5, <3>2, <3>4
      <4>2. text[c][q] # text[b][r]
        BY <1>5, <2>1, <4>1 DEF InvAt, DisjointInv
      <4> QED
        BY <1>6, <4>1, <4>2
    <3> QED
      BY <3>3, <3>4
  <2>2. ASSUME NEW c \in Blocks, NEW g \in Blocks, c # g, c # b, g # b, used[c], used[g]
        PROVE  \A q \in DOMAIN text'[c], r \in DOMAIN text'[g] : text'[c][q] # text'[g][r]
    BY <1>3, <2>2 DEF InvAt, DisjointInv
  <2>3. ASSUME NEW c \in Blocks, NEW g \in Blocks, c # g, used[c], used[g]
        PROVE  \A q \in DOMAIN text'[c], r \in DOMAIN text'[g] : text'[c][q] # text'[g][r]
    <3>1. CASE c = b
      <4>1. g # b /\ text'[g] = text[g]
        BY <1>3, <2>3, <3>1
      <4> QED
        BY <2>1, <2>3, <3>1, <4>1, ZenonT(60)
    <3>2. CASE g = b
      <4>1. c # b /\ text'[c] = text[c]
        BY <1>3, <2>3, <3>2
      <4> QED
        BY <2>1, <2>3, <3>2, <4>1, ZenonT(60)
    <3> QED
      BY <2>2, <2>3, <3>1, <3>2
  <2> QED
    BY <1>1, <2>3 DEF DisjointInv
<1>12. ASSUME NEW u \in Threads, u # t
       PROVE  /\ Fresh(u)' = Fresh(u) /\ (Fresh(u) # Nil => Fresh(u) # b)
              /\ NodeInv(u)'
  <2>1. node'[u] = node[u] /\ spare'[u] = spare[u] /\ pc'[u] = pc[u] /\ part'[u] = part[u]
    BY <1>4, <1>12, <1>a
  <2>2. Fresh(u)' = Fresh(u)
    BY <2>1 DEF Fresh
  <2>3. NodeInv(u) /\ (Fresh(u) # Nil => IsFresh(Fresh(u)))
    BY <1>0 DEF ThreadInv, NodeInv
  <2>4. Fresh(u) # Nil => Fresh(u) # b
    BY <1>0, <1>5, <1>12, <2>3 DEF ThreadInv, IsFresh
  <2>5. Fresh(u) # Nil => IsFresh(Fresh(u))'
    BY <1>1, <1>3, <2>2, <2>3, <2>4 DEF IsFresh
  <2>6. part[u] > 1 => node[u].tail # b
    <3> SUFFICES ASSUME part[u] > 1, node[u].tail = b PROVE FALSE
      OBVIOUS
    <3>0. \A v \in Threads : part[v] > 1 =>
            text[node[v].tail] # <<>> /\ text[node[v].tail][1][1] = v
      <4> SUFFICES ASSUME NEW v \in Threads, part[v] > 1
                   PROVE  text[node[v].tail] # <<>> /\ text[node[v].tail][1][1] = v
        OBVIOUS
      <4>1. /\ text[node[v].tail] # <<>>
            /\ text[node[v].tail][1] = <<v, line[v], text[node[v].tail][1][3]>>
        BY TailRun
      <4> QED
        BY <4>1
    <3>1. text[b] # <<>> /\ text[b][1][1] = u
      BY <3>0
    <3>2. part[t] > 1 /\ b = e
      BY <1>5, <3>1
    <3>3. text[b][1][1] = t
      BY <3>0, <3>2
    <3> QED
      BY <1>12, <3>1, <3>3
  <2>7. \A i : At(node[u].head, u, line[u], i) => At(node[u].head, u, line[u], i)'
    BY <1>7, <1>1, <2>1, AtGrows
  <2> QED
    BY <1>1, <1>3, <2>1, <2>2, <2>3, <2>4, <2>5, <2>6, <2>7 DEF NodeInv
<1>13. Fresh(t)' = Nil /\ NodeInv(t)'
  <2>1. pc'[t] # "link" /\ part'[t] > 1 /\ part'[t] # 1
    BY <1>0, <1>4
  <2>2. Fresh(t)' = Nil
    BY <2>1 DEF Fresh
  <2>3. /\ text'[b][Len(text'[b])] = <<t, line'[t], part'[t] - 1>>
        /\ b \in Blocks /\ used'[b] /\ text'[b] # <<>>
    BY <1>0, <1>1, <1>2, <1>4, <1>5, <1>6
  <2>4. At(node[t].head, t, line[t], 1)'
    <3>1. CASE part[t] = 1
      <4>1. b = node[t].head /\ text[b] = <<>>
        BY <1>5, <1>b, <3>1
      <4>2. text'[b][1] = <<t, line[t], 1>>
        BY <1>2, <1>5, <1>6, <3>1, <4>1
      <4> QED
        BY <1>1, <1>a, <2>3, <4>1, <4>2 DEF At
    <3>2. CASE part[t] # 1
      <4>1. At(node[t].head, t, line[t], 1)
        BY <1>0, <3>2 DEF NodeInv
      <4> QED
        BY <1>1, <1>7, <1>a, <4>1, AtGrows
    <3> QED
      BY <3>1, <3>2
  <2>5. /\ pc'[t] = "append" => part'[t] <= Parts[t]
        /\ pc'[t] \notin {"append", "link"} => part'[t] = Parts[t] + 1
    BY <1>0, <1>1, <1>4
  <2> QED
    BY <1>0, <1>1, <1>a, <2>1, <2>2, <2>3, <2>4, <2>5 DEF NodeInv
<1>14. ThreadInv'
  BY <1>0, <1>12, <1>13 DEF ThreadInv
<1>15. ~ \E k \in 1..Placed : order[k] = <<t, line[t]>>
  BY <1>1 DEF InvAt, OrderInv
<1>16. \A c \in Blocks : link'[c] # link[c] =>
          /\ c = e /\ link'[c] = b /\ text[b] = <<>> /\ used[c] /\ text[c] # <<>>
          /\ text[c][1][1] = t /\ text[c][1][2] = line[t]
          /\ text[c][1][3] + Len(text[c]) = part[t]
  <2> SUFFICES ASSUME NEW c \in Blocks, link'[c] # link[c]
               PROVE  /\ c = e /\ link'[c] = b /\ text[b] = <<>> /\ used[c] /\ text[c] # <<>>
                      /\ text[c][1][1] = t /\ text[c][1][2] = line[t]
                      /\ text[c][1][3] + Len(text[c]) = part[t]
    OBVIOUS
  <2>1. c = node[t].tail /\ link'[c] = b /\ part[t] > 1 /\ text[b] = <<>>
    BY <1>8
  <2>2. /\ used[node[t].tail] /\ text[node[t].tail] # <<>>
        /\ text[node[t].tail][1] = <<t, line[t], text[node[t].tail][1][3]>>
        /\ text[node[t].tail][1][3] + Len(text[node[t].tail]) = part[t]
    BY <2>1, TailRun
  <2> QED
    BY <2>1, <2>2
<1>17. PICK o \in Nat \ {0} : /\ text'[b][1] = <<t, line[t], o>> /\ o + Len(text'[b]) - 1 = part[t]
                              /\ text'[b] = Run(t, line[t], o, Len(text'[b]))
  <2>1. CASE text[b] = <<>>
    <3>1. text'[b] = <<p>> /\ Len(text'[b]) = 1 /\ text'[b][1] = p
      BY <1>3, <2>1
    <3>2. text'[b] = Run(t, line[t], part[t], 1) /\ part[t] \in Nat \ {0} /\ part[t] + 1 - 1 = part[t]
      BY <1>0, <1>2, <3>1, OneRun
    <3> QED
      BY <1>2, <3>1, <3>2
  <2>2. CASE text[b] # <<>>
    <3> DEFINE s == text[node[t].tail]
               i == s[1][3]
               m == Len(s)
    <3>1. text[b] = s /\ part[t] > 1
      BY <1>5, <2>2
    <3>2. /\ s[1] = <<t, line[t], i>> /\ i \in Nat \ {0} /\ m \in Nat \ {0} /\ i + m = part[t]
      BY <3>1, TailRun
    <3>3. Len(text'[b]) = m + 1 /\ text'[b][1] = s[1] /\ text'[b] = Append(s, p)
      <4>1. 1 \in 1..Len(text[b])
        BY <3>1, <3>2
      <4> QED
        BY <1>3, <1>6, <3>1, <4>1
    <3>4. Append(s, p) = Run(t, line[t], i, m + 1)
      BY <3>1, TailGrows DEF p
    <3> HIDE DEF s, i, m
    <3>5. i + (m + 1) - 1 = part[t]
      BY <3>2
    <3> QED
      BY <3>2, <3>3, <3>4, <3>5
  <2> QED
    BY <2>1, <2>2
<1>18. RunInv(b, d, j)'
  <2>2. link'[b] = Nil
    <3>1. link'[b] = link[b]
      BY <1>16
    <3>2. text[b] # <<>> => link[b] = Nil
      BY <1>5, TailRun
    <3>3. text[b] = <<>> => link[b] = Nil
      BY DEF InvAt, BlockInv
    <3> QED
      BY <3>1, <3>2, <3>3
  <2>3. ~ \E k \in 1..Placed' : order'[k] = <<t, line[t]>>
    BY <1>1, <1>15 DEF Placed
  <2>4. /\ o > 0 /\ node'[t].tail = b /\ line[t] <= line'[t]
        /\ part[t] <= part[t] /\ ~(part[t] < part[t])
    BY <1>0, <1>1, <1>a
  <2>m. PICK n, m : n = line[t] /\ m = Len(text'[b])
    OBVIOUS
  <2>a. Made(t, n)' = part[t]
    BY <1>0, <1>1, <1>4, <2>m DEF Made
  <2>5. /\ text'[b][1] = <<t, n, o>> /\ Len(text'[b]) = m /\ o > 0 /\ n <= line'[t]
        /\ o + m - 1 <= Made(t, n)' /\ text'[b] = Run(t, n, o, m)
    BY <1>17, <2>4, <2>a, <2>m
  <2>6. /\ o + m - 1 = Made(t, n)' => link'[b] = Nil /\ (n = line'[t] => node'[t].tail = b)
        /\ o + m - 1 < Made(t, n)' => At(link[b], t, n, o + m)'
    BY <1>17, <2>2, <2>4, <2>a, <2>m
  <2>7. \A k \in 1..Placed' : order'[k] = <<t, n>> => k > d /\ (k = d + 1 => o > j)
    BY <2>3, <2>m
  <2> QED
    BY <2>5, <2>6, <2>7, RunIs
<1>19. ASSUME NEW c \in Blocks, c # b, used[c], text[c] # <<>> PROVE RunInv(c, d, j)'
  <2>m. PICK u, n, i, m : /\ u = text[c][1][1] /\ n = text[c][1][2]
                          /\ i = text[c][1][3] /\ m = Len(text[c])
    OBVIOUS
  <2>1. RunInv(c, d, j)
    BY <1>19 DEF InvAt, BlockInv
  <2>2. text[c] \in Seq(Part) /\ text'[c] = text[c]
    BY <1>0, <1>3, <1>19 DEF TypeOK
  <2>3. /\ m \in Nat \ {0} /\ u \in Threads /\ n \in Nat /\ i \in Nat
        /\ text[c][1] = <<u, n, i>>
    <3>1. Len(text[c]) \in Nat \ {0} /\ text[c][1] \in Part
      BY <1>19, <2>2
    <3> QED
      BY <2>m, <3>1 DEF Part
  <2>4. /\ i > 0 /\ n <= line[u] /\ i + m - 1 <= Made(u, n) /\ text[c] = Run(u, n, i, m)
        /\ i + m - 1 = Made(u, n) => link[c] = Nil /\ (n = line[u] => node[u].tail = c)
        /\ i + m - 1 < Made(u, n) => At(link[c], u, n, i + m)
        /\ \A k \in 1..Placed : order[k] = <<u, n>> => k > d /\ (k = d + 1 => i > j)
    BY <2>1, <2>m DEF RunInv
  <2>5. Made(u, n) \in Nat
    <3>1. part[u] \in Nat \ {0} /\ Parts[u] \in Nat
      BY <1>0, <2>3, Sizes DEF TypeOK
    <3> QED
      BY <3>1 DEF Made
  <2>6. \A x, y : At(x, u, n, y) => At(x, u, n, y)'
    BY <1>7, AtGrows
  <2>7. link'[c] = link[c] /\ At(link[c], u, n, i + m) => At(link[c], u, n, i + m)'
    <3>1. PICK x : x = link[c]
      OBVIOUS
    <3>2. At(x, u, n, i + m) => At(x, u, n, i + m)'
      BY <2>6
    <3> QED
      BY <3>1, <3>2 DEF At
  <2>8. \A k \in 1..Placed' : order'[k] = <<u, n>> => k > d /\ (k = d + 1 => i > j)
    BY <1>1, <2>4 DEF Placed
  <2>9. line'[u] = line[u] /\ text'[c][1] = <<u, n, i>> /\ Len(text'[c]) = m
    BY <1>1, <2>2, <2>3, <2>m
  <2>10. CASE u = t /\ n = line[t]
    <3>1. Made(u, n) = part[t] - 1 /\ Made(u, n)' = part[t]
      BY <1>0, <1>1, <1>4, <2>10 DEF Made
    <3>2. i + m - 1 < Made(u, n)' /\ i + m - 1 <= Made(u, n)' /\ ~(i + m - 1 = Made(u, n)')
      BY <1>0, <2>3, <2>4, <3>1
    <3>3. CASE i + m = part[t]
      <4>1. i + m - 1 = Made(u, n) /\ part[t] # 1
        BY <1>0, <2>3, <2>4, <3>1, <3>3
      <4>2. c = e
        BY <2>4, <2>10, <4>1
      <4>3. b = Fresh(t) /\ link'[c] = b
        BY <1>0, <1>19, <1>b, <4>1, <4>2 DEF TypeOK
      <4>4. text'[b][1] = <<t, line[t], part[t]>> /\ used'[b] /\ text'[b] # <<>>
        BY <1>1, <1>2, <1>5, <1>6, <4>3
      <4>5. At(link[c], u, n, i + m)'
        BY <2>10, <3>3, <4>3, <4>4 DEF At
      <4> QED
        BY <2>2, <2>3, <2>4, <2>8, <2>9, <3>2, <4>5, RunIs
    <3>4. CASE i + m # part[t]
      <4>1. i + m - 1 < Made(u, n)
        BY <1>0, <2>3, <2>4, <3>1, <3>4
      <4>2. link'[c] = link[c]
        BY <1>16, <2>m, <3>4
      <4>3. At(link[c], u, n, i + m)'
        BY <2>4, <2>7, <4>1, <4>2
      <4> QED
        BY <2>2, <2>3, <2>4, <2>8, <2>9, <3>2, <4>3, RunIs
    <3> QED
      BY <3>3, <3>4
  <2>11. CASE ~(u = t /\ n = line[t])
    <3>1. Made(u, n)' = Made(u, n)
      BY <1>1, <1>4, <2>3, <2>11 DEF Made
    <3>2. link'[c] = link[c]
      BY <1>16, <2>11, <2>m
    <3>3. n = line'[u] => node'[u].tail = node[u].tail
      BY <1>a, <2>3, <2>9, <2>11
    <3>4. i + m - 1 <= Made(u, n)' /\ text'[c] = Run(u, n, i, m) /\ n <= line'[u]
      BY <2>2, <2>4, <2>9, <3>1
    <3>5. i + m - 1 = Made(u, n)' => link'[c] = Nil /\ (n = line'[u] => node'[u].tail = c)
      BY <2>4, <2>9, <3>1, <3>2, <3>3
    <3>6. i + m - 1 < Made(u, n)' => At(link[c], u, n, i + m)'
      BY <2>4, <2>7, <3>1, <3>2
    <3> QED
      BY <2>4, <2>8, <2>9, <3>4, <3>5, <3>6, RunIs
  <2> QED
    BY <2>10, <2>11
<1>20. BlockInv(d, j)'
  <2>1. ASSUME NEW c \in Blocks, text'[c] = <<>> PROVE link'[c] = Nil
    <3>1. c # b /\ text[c] = <<>>
      BY <1>3, <1>6, <2>1
    <3>2. link'[c] = link[c]
      BY <1>16, <3>1
    <3> QED
      BY <3>1, <3>2 DEF InvAt, BlockInv
  <2>2. ASSUME NEW c \in Blocks, ~used'[c] PROVE text'[c] = <<>> \/ (sink' = "clear" /\ c = cur')
    <3>1. c # b /\ text'[c] = text[c] /\ ~used[c]
      BY <1>1, <1>3, <1>5, <2>2
    <3> QED
      BY <1>1, <3>1 DEF InvAt, BlockInv
  <2>3. ASSUME NEW c \in Blocks, used'[c], text'[c] # <<>> PROVE RunInv(c, d, j)'
    <3>1. CASE c = b
      BY <1>18, <3>1
    <3>2. CASE c # b
      BY <1>1, <1>3, <1>19, <2>3, <3>2
    <3> QED
      BY <3>1, <3>2
  <2> QED
    BY <2>1, <2>2, <2>3 DEF BlockInv
<1> QED
  BY <1>9, <1>10, <1>11, <1>14, <1>20 DEF InvAt

\* A part that fits.
LEMMA PartKeeps ==
  ASSUME NEW d, NEW j, InvAt(d, j), NEW t \in Threads, WritePart(t)
  PROVE  InvAt(d, j)'
<1> DEFINE b == node[t].tail
<1>0. TypeOK /\ NodeInv(t)
  BY DEF InvAt, ThreadInv
<1>1. /\ pc[t] = "append" /\ b # Nil /\ Room(b) /\ NextPart(t)
      /\ UNCHANGED <<buffer, next, used, line, sinking, file, order>>
      /\ text' = [text EXCEPT ![b] = Append(text[b], ThisPart(t))]
      /\ node' = node /\ spare' = spare /\ link' = link
  BY DEF WritePart, Logs, Written, ending, history
<1>2. /\ node \in [Threads -> [head : Refs, tail : Refs]] /\ spare \in [Threads -> Nat]
      /\ part[t] \in Nat \ {0} /\ b \in Blocks
  BY <1>0, <1>1 DEF TypeOK, Refs
<1>3. /\ part[t] <= Parts[t] /\ node[t].head # Nil
      /\ part[t] = 1 => b = node[t].head /\ Fresh(t) = b
  BY <1>0, <1>1 DEF NodeInv, Fresh
<1>4. part[t] = 1 \/ part[t] > 1
  BY <1>2
<1>5. Adds(t, b)
  BY <1>1, <1>2, <1>3, <1>4 DEF Adds
<1> HIDE DEF b
<1> QED
  BY <1>2, <1>5, AddPart

\* The first part of another block.
LEMMA LinkKeeps ==
  ASSUME NEW d, NEW j, InvAt(d, j), NEW t \in Threads, LinkNext(t)
  PROVE  InvAt(d, j)'
<1> DEFINE b == spare[t]
<1>0. TypeOK /\ NodeInv(t)
  BY DEF InvAt, ThreadInv
<1>1. /\ pc[t] = "link" /\ NextPart(t)
      /\ UNCHANGED <<buffer, next, used, line, sinking, file, order>>
      /\ text' = [text EXCEPT ![b] = Written(b, ThisPart(t))]
      /\ node' = [node EXCEPT ![t].tail = b] /\ spare' = [spare EXCEPT ![t] = Nil]
      /\ link' = [link EXCEPT ![node[t].tail] = b]
  BY DEF LinkNext, Logs, ending, history
<1>2. /\ part[t] > 1 /\ part[t] <= Parts[t] /\ b = Fresh(t)
      /\ b \in Blocks /\ used[b] /\ text[b] = <<>>
  BY <1>0, <1>1 DEF NodeInv, Fresh, IsFresh
<1>3. text' = [text EXCEPT ![b] = Append(text[b], ThisPart(t))]
  <2>1. Room(b)
    BY <1>2, Sizes DEF Room
  <2> QED
    BY <1>1, <2>1 DEF Written
<1>4. node[t].head # Nil
  BY <1>0, <1>2, Sizes DEF NodeInv, At, TypeOK
<1>5. node \in [Threads -> [head : Refs, tail : Refs]] /\ spare \in [Threads -> Nat]
  BY <1>0 DEF TypeOK
<1> HIDE DEF b
<1>6. /\ node' \in [Threads -> [head : Refs, tail : Refs]] /\ spare' \in [Threads -> Nat]
      /\ node'[t].head = node[t].head /\ node'[t].tail = b
      /\ \A u \in Threads : u # t => node'[u] = node[u] /\ spare'[u] = spare[u]
  BY <1>1, <1>2, <1>5, Sizes DEF Nil
<1>7. Adds(t, b)
  BY <1>1, <1>2, <1>3, <1>4, <1>6 DEF Adds
<1> QED
  BY <1>2, <1>7, AddPart

-----------------------------------------------------------------------------
(* A line goes to the ring.                                                *)

\* A slot is taken.
LEMMA PlaceKeeps ==
  ASSUME NEW d, NEW j, InvAt(d, j), NEW t \in Threads, Place(t)
  PROVE  InvAt(d, j)'
<1>n. PICK N : N = Placed
  OBVIOUS
<1>0. /\ TypeOK /\ queueSize \in Nat /\ N \in Nat /\ d \in Nat /\ d <= N /\ j \in Nat
      /\ \A k \in 1..N : order[k][1] \in Threads /\ order[k] = <<order[k][1], order[k][2]>>
      /\ order \in Seq(Line) /\ line[t] \in Nat /\ ListMax \in Nat
  BY <1>n, Facts, Sizes DEF TypeOK
<1>1. /\ queueSize' = queueSize /\ consumePos' = consumePos
      /\ slots' = slots /\ next' = next /\ used' = used /\ text' = text /\ link' = link
      /\ line' = line /\ part' = part /\ node' = node
      /\ sink' = sink /\ cur' = cur /\ rest' = rest /\ output' = output /\ file' = file
      /\ pc[t] = "place" /\ pc' = [pc EXCEPT ![t] = "publish"]
  BY DEF Place, Logs, blocks, sinking, ending
<1>2. /\ producePos' = (N + 1) % ListMax /\ producePos' \in Nat
      /\ spare' = [spare EXCEPT ![t] = producePos']
  <2>1. producePos = N % ListMax
    BY <1>n DEF InvAt, RingInv
  <2>2. producePos' = (N + 1) % ListMax
    BY <1>0, <2>1, NextPosition DEF Place
  <2>3. (N + 1) % ListMax \in Slots
    <3>1. N + 1 \in Nat
      BY <1>0
    <3> QED
      BY <3>1, Position
  <2>4. (N + 1) % ListMax \in Nat
    BY <1>0, <2>3 DEF Slots
  <2> QED
    BY <2>2, <2>4 DEF Place
<1>3. /\ pc' \in [Threads -> {"append", "link", "finish", "backoff", "place", "publish"}]
      /\ spare' \in [Threads -> Nat] /\ pc'[t] = "publish" /\ spare'[t] = (N + 1) % ListMax
      /\ \A u \in Threads : u # t => pc'[u] = pc[u] /\ spare'[u] = spare[u]
  BY <1>0, <1>1, <1>2 DEF TypeOK
<1>4. /\ <<t, line[t]>> \in Line /\ order' = Append(order, <<t, line[t]>>)
      /\ order' \in Seq(Line) /\ Placed' = N + 1 /\ order'[N + 1] = <<t, line[t]>>
      /\ \A k \in 1..N : order'[k] = order[k]
  <2>1. <<t, line[t]>> \in Line /\ order' = Append(order, <<t, line[t]>>)
    BY <1>0 DEF Place, Line
  <2> QED
    BY <1>0, <1>n, <2>1 DEF Placed
<1>5. d = N => j = 0 /\ sink \notin Busy
  BY <1>0, <1>n DEF InvAt, SinkInv
<1>6. \A k \in 1..N : order[k] # <<t, line[t]>>
  BY <1>1, <1>n DEF InvAt, OrderInv
<1>7. TypeOK'
  BY <1>0, <1>1, <1>3, <1>4 DEF TypeOK
<1>8. DisjointInv'
  BY <1>1 DEF InvAt, DisjointInv
<1>9. ThreadInv'
  <2>1. ThreadInv
    BY DEF InvAt
  <2>2. part[t] # 1 /\ part[t] = Parts[t] + 1
    <3>1. part[t] = Parts[t] + 1 /\ Parts[t] \in Nat \ {0}
      BY <1>1, <2>1, Sizes DEF ThreadInv, NodeInv
    <3> QED
      BY <3>1
  <2>3. ASSUME NEW u \in Threads PROVE Fresh(u)' = Fresh(u)
    BY <1>1, <1>3, <2>2 DEF Fresh
  <2>4. ASSUME NEW u \in Threads PROVE NodeInv(u)'
    <3>1. NodeInv(u)
      BY <2>1 DEF ThreadInv
    <3>2. CASE u = t
      BY <1>1, <1>3, <2>2, <2>3, <3>1, <3>2 DEF NodeInv, IsFresh, At
    <3>3. CASE u # t
      <4>1. pc'[u] = pc[u] /\ spare'[u] = spare[u]
        BY <1>3, <3>3
      <4> QED
        BY <1>1, <2>3, <3>1, <4>1 DEF NodeInv, IsFresh, At
    <3> QED
      BY <3>2, <3>3
  <2> QED
    BY <2>1, <2>3, <2>4 DEF ThreadInv
<1>10. RingInv(d)'
  <2> DEFINE A(p) == Cardinality(Those(p))
  <2>1. A("place")' = A("place") - 1 /\ A("place") > 0 /\ A("backoff")' = A("backoff")
    BY <1>0, <1>1, CountDown, CountSame
  <2>2. /\ A("backoff") \in Nat /\ A("place") \in Nat /\ consumePos = (d + 1) % ListMax
        /\ queueSize = A("backoff") + A("place") + (N - d) + (IF sink = "count" THEN 1 ELSE 0)
        /\ A("place") + (N - d) < ListMax
    BY <1>n, Facts DEF InvAt, RingInv
  <2> HIDE DEF A
  <2>3. /\ queueSize' = A("backoff")' + A("place")' + ((N + 1) - d) + (IF sink = "count" THEN 1 ELSE 0)
        /\ A("place")' + ((N + 1) - d) < ListMax /\ d \in 0..(N + 1)
    BY <1>0, <1>1, <2>1, <2>2, SMTT(30)
  <2> QED
    BY <1>1, <1>2, <1>4, <2>2, <2>3 DEF RingInv, A
<1>11. OrderInv(d)'
  <2>0. OrderInv(d)
    BY DEF InvAt
  <2>1. ASSUME NEW k \in 1..(N + 1), NEW m \in 1..(N + 1), order'[k] = order'[m] PROVE k = m
    <3>1. CASE k \in 1..N /\ m \in 1..N
      BY <1>4, <1>n, <2>0, <2>1, <3>1, ZenonT(30) DEF OrderInv
    <3>2. CASE k = N + 1 /\ m \in 1..N
      BY <1>4, <1>6, <2>1, <3>2
    <3>3. CASE k \in 1..N /\ m = N + 1
      BY <1>4, <1>6, <2>1, <3>3
    <3>4. (k \in 1..N \/ k = N + 1) /\ (m \in 1..N \/ m = N + 1)
      BY <1>0
    <3> QED
      BY <3>1, <3>2, <3>3, <3>4
  <2>2. ASSUME NEW k \in 1..(N + 1)
        PROVE  /\ order'[k][2] <= line'[order'[k][1]]
               /\ order'[k][2] = line'[order'[k][1]] => pc'[order'[k][1]] = "publish"
    <3>1. CASE k \in 1..N
      <4>1. /\ order[k][2] <= line[order[k][1]]
            /\ order[k][2] = line[order[k][1]] => pc[order[k][1]] = "publish"
        BY <1>n, <2>0, <3>1 DEF OrderInv
      <4>2. pc[order[k][1]] = "publish" => pc'[order[k][1]] = "publish"
        BY <1>0, <1>3, <3>1
      <4> QED
        BY <1>1, <1>4, <3>1, <4>1, <4>2
    <3>2. CASE k = N + 1
      <4>0. order'[k] = <<t, line[t]>> /\ line[t] <= line[t]
        <5>1. line[t] \in Nat
          BY <1>0
        <5>2. line[t] <= line[t]
          BY <5>1
        <5> QED
          BY <1>4, <3>2, <5>2, Zenon
      <4>1. order'[k][1] = t /\ order'[k][2] = line[t] /\ line[t] <= line[t]
        BY <4>0
      <4> QED
        BY <1>1, <1>3, <4>1
    <3> QED
      BY <1>0, <3>1, <3>2
  <2>3. ASSUME NEW u \in Threads, pc'[u] = "publish"
        PROVE  \E k \in (d + 1)..(N + 1) : order'[k] = <<u, line'[u]>> /\ spare'[u] = k % ListMax
    <3>1. CASE u = t
      <4>1. N + 1 \in (d + 1)..(N + 1)
        BY <1>0
      <4> QED
        BY <1>1, <1>3, <1>4, <3>1, <4>1
    <3>2. CASE u # t
      <4>1. PICK k \in (d + 1)..N : order[k] = <<u, line[u]>> /\ spare[u] = k % ListMax
        BY <1>3, <1>n, <2>0, <2>3, <3>2 DEF OrderInv
      <4>2. k \in (d + 1)..(N + 1) /\ k \in 1..N
        BY <1>0
      <4> QED
        BY <1>1, <1>3, <1>4, <3>2, <4>1, <4>2
    <3> QED
      BY <3>1, <3>2
  <2> QED
    BY <1>4, <2>1, <2>2, <2>3 DEF OrderInv
<1>12. /\ \A k \in 1..N : Published(k)' = Published(k)
       /\ ~Published(N + 1)'
       /\ \A b, i : \A k \in 1..N : AtLine(b, k, i)' = AtLine(b, k, i)
  <2>1. ASSUME NEW k \in 1..N PROVE Published(k)' = Published(k)
    BY <1>1, <1>4 DEF Published
  <2>2. ~(order'[N + 1][2] < line'[order'[N + 1][1]])
    <3>0. order'[N + 1] = <<t, line[t]>> /\ line[t] \in Nat
      BY <1>0, <1>4
    <3>1. order'[N + 1][1] = t /\ order'[N + 1][2] = line[t] /\ ~(line[t] < line[t])
      BY <3>0
    <3> QED
      BY <1>1, <3>1
  <2>3. ~Published(N + 1)'
    BY <2>2 DEF Published
  <2>4. ASSUME NEW b, NEW i, NEW k \in 1..N PROVE AtLine(b, k, i)' = AtLine(b, k, i)
    BY <1>1, <1>4 DEF AtLine, At
  <2> QED
    BY <2>1, <2>3, <2>4
<1>13. SlotInv(d, j)'
  <2>0. SlotInv(d, j)
    BY DEF InvAt
  <2>1. ASSUME NEW i \in Slots, slots'[i] # Nil
        PROVE  \E k \in (d + 1)..(N + 1) : i = k % ListMax /\ Published(k)'
    <3>1. PICK k \in (d + 1)..N : i = k % ListMax /\ Published(k)
      BY <1>1, <1>n, <2>0, <2>1 DEF SlotInv
    <3>2. k \in 1..N /\ k \in (d + 1)..(N + 1)
      BY <1>0
    <3> QED
      BY <1>12, <3>1, <3>2
  <2>2. ASSUME NEW k \in (d + 1)..(N + 1), Published(k)'
        PROVE  \/ k = d + 1 /\ sink' \in Busy
               \/ AtLine(slots[k % ListMax], k, IF k = d + 1 THEN j + 1 ELSE 1)'
    <3>1. k \in 1..N /\ k \in (d + 1)..N
      <4>1. k # N + 1
        BY <1>12, <2>2
      <4> QED
        BY <1>0, <4>1
    <3>2. Published(k)
      BY <1>12, <2>2, <3>1
    <3>3. PICK x, i : x = slots[k % ListMax] /\ i = (IF k = d + 1 THEN j + 1 ELSE 1)
      OBVIOUS
    <3>4. (k = d + 1 /\ sink \in Busy) \/ AtLine(x, k, i)
      BY <1>n, <2>0, <3>1, <3>2, <3>3 DEF SlotInv
    <3>5. (k = d + 1 /\ sink' \in Busy) \/ AtLine(x, k, i)'
      BY <1>1, <1>12, <3>1, <3>4
    <3> QED
      BY <1>1, <3>3, <3>5 DEF AtLine, At
  <2> QED
    BY <1>4, <2>1, <2>2 DEF SlotInv
<1>14. d < N => order'[d + 1] = order[d + 1] /\ d + 1 \in 1..N
  <2>1. d < N => d + 1 \in 1..N
    BY <1>0
  <2> QED
    BY <1>4, <2>1
<1>15. SinkInv(d, j)'
  <2>0. SinkInv(d, j)
    BY DEF InvAt
  <2>1. CASE d < N
    <3>1. Published(d + 1)' = Published(d + 1)
      BY <1>12, <1>14, <2>1
    <3>2. AtLine(cur, d + 1, j + 1)' = AtLine(cur, d + 1, j + 1)
      <4>1. PICK x : x = cur
        OBVIOUS
      <4>2. AtLine(x, d + 1, j + 1)' = AtLine(x, d + 1, j + 1)
        BY <1>12, <1>14, <2>1
      <4> QED
        BY <1>1, <4>1, <4>2 DEF AtLine, At
    <3>3. AtLine(rest, d + 1, j + 1)' = AtLine(rest, d + 1, j + 1)
      <4>1. PICK x : x = rest
        OBVIOUS
      <4>2. AtLine(x, d + 1, j + 1)' = AtLine(x, d + 1, j + 1)
        BY <1>12, <1>14, <2>1
      <4> QED
        BY <1>1, <4>1, <4>2 DEF AtLine, At
    <3>4. d < N + 1 /\ order'[d + 1] = order[d + 1]
      BY <1>0, <1>14, <2>1
    <3> QED
      BY <1>1, <1>4, <2>0, <3>1, <3>2, <3>3, <3>4 DEF SinkInv
  <2>2. CASE ~(d < N)
    <3>1. d = N
      BY <1>0, <2>2
    <3>2. j = 0 /\ sink \notin Busy /\ ~(j > 0) /\ j \in Nat
      BY <1>5, <3>1
    <3> QED
      BY <1>1, <3>2 DEF SinkInv, Busy
  <2> QED
    BY <2>1, <2>2
<1>16. FileInv(d, j)'
  <2>1. TextUpTo(order')[d] = TextUpTo(order)[d]
    <3>1. d \in 0..Len(order)
      BY <1>0, <1>n DEF Placed
    <3> QED
      BY <1>0, <1>4, <3>1, TextOfMore
  <2>2. CASE d < N
    BY <1>1, <1>14, <2>1, <2>2 DEF InvAt, FileInv
  <2>3. CASE ~(d < N)
    <3>1. j = 0
      BY <1>0, <1>5, <2>3
    <3> QED
      BY <1>1, <2>1, <3>1, EmptyRun DEF InvAt, FileInv
  <2> QED
    BY <2>2, <2>3
<1>17. BlockInv(d, j)'
  <2>1. ASSUME NEW c \in Blocks, used[c], text[c] # <<>> PROVE RunInv(c, d, j)'
    <3>1. RunInv(c, d, j)
      BY <2>1 DEF InvAt, BlockInv
    <3>m. PICK u, n, i, m : /\ u = text[c][1][1] /\ n = text[c][1][2]
                            /\ i = text[c][1][3] /\ m = Len(text[c])
      OBVIOUS
    <3>2. i > 0 /\ \A k \in 1..N : order[k] = <<u, n>> => k > d /\ (k = d + 1 => i > j)
      BY <1>n, <3>1, <3>m DEF RunInv
    <3>3. ASSUME NEW k \in 1..(N + 1), order'[k] = <<u, n>>
          PROVE  k > d /\ (k = d + 1 => i > j)
      <4>1. CASE k \in 1..N
        BY <1>4, <3>2, <3>3, <4>1
      <4>2. CASE k = N + 1
        <5>1. k > d /\ (k = d + 1 => d = N)
          BY <1>0, <4>2
        <5> QED
          BY <1>5, <3>2, <5>1
      <4> QED
        BY <1>0, <4>1, <4>2
    <3> QED
      BY <1>1, <1>4, <3>1, <3>3, <3>m DEF RunInv, Made, At
  <2> QED
    BY <1>1, <2>1 DEF InvAt, BlockInv
<1> QED
  BY <1>7, <1>8, <1>9, <1>10, <1>11, <1>13, <1>15, <1>16, <1>17 DEF InvAt

\* Two slots of the lines in the ring are different.
LEMMA RingSlots ==
  ASSUME NEW d, NEW j, InvAt(d, j)
  PROVE  \A k, m \in (d + 1)..Placed :
            /\ k \in Nat /\ k \in 1..Placed /\ k % ListMax \in Slots
            /\ k % ListMax = m % ListMax => k = m
<1>1. /\ d \in Nat /\ Placed \in Nat /\ d <= Placed /\ Cardinality(Those("place")) \in Nat
      /\ ListMax \in Nat /\ Cardinality(Those("place")) + (Placed - d) < ListMax
  BY Facts, Sizes DEF InvAt, RingInv
<1> SUFFICES ASSUME NEW k \in (d + 1)..Placed, NEW m \in (d + 1)..Placed
             PROVE  /\ k \in Nat /\ k \in 1..Placed /\ k % ListMax \in Slots
                    /\ k % ListMax = m % ListMax => k = m
  OBVIOUS
<1>2. k \in Nat /\ m \in Nat /\ k \in 1..Placed /\ k - m < ListMax /\ m - k < ListMax
  BY <1>1
<1>3. k % ListMax \in Slots
  BY <1>2, Position
<1>4. ASSUME k % ListMax = m % ListMax PROVE k = m
  <2>1. CASE k <= m
    BY <1>2, <1>4, <2>1, SlotsDiffer
  <2>2. CASE m <= k
    BY <1>2, <1>4, <2>2, SlotsDiffer
  <2> QED
    BY <1>2, <2>1, <2>2
<1> QED
  BY <1>2, <1>3, <1>4

\* The chain is put there.
LEMMA PublishKeeps ==
  ASSUME NEW d, NEW j, InvAt(d, j), NEW t \in Threads, Publish(t)
  PROVE  InvAt(d, j)'
<1>n. PICK N, h, v, n : N = Placed /\ h = node[t].head /\ v = spare[t] /\ n = line[t]
  OBVIOUS
<1>0. /\ TypeOK /\ ThreadInv /\ NodeInv(t) /\ N \in Nat /\ d \in Nat /\ d <= N /\ j \in Nat
      /\ \A k \in 1..N : /\ order[k][1] \in Threads /\ order[k][2] \in Nat
                         /\ order[k] = <<order[k][1], order[k][2]>>
      /\ n \in Nat /\ pc[t] = "publish" /\ part[t] \in Nat /\ Parts[t] \in Nat \ {0}
  <2>1. TypeOK /\ ThreadInv /\ NodeInv(t)
    BY DEF InvAt, ThreadInv
  <2>2. n \in Nat /\ part[t] \in Nat
    BY <1>n, <2>1 DEF TypeOK
  <2>3. pc[t] = "publish"
    BY DEF Publish, Logs
  <2> QED
    BY <1>n, <2>1, <2>2, <2>3, Facts, Sizes
<1>1. PICK a \in (d + 1)..N : order[a] = <<t, n>> /\ v = a % ListMax
  BY <1>0, <1>n DEF InvAt, OrderInv
<1>2. /\ a \in 1..N /\ v \in Slots
      /\ \A k \in (d + 1)..N : k \in 1..N /\ k % ListMax \in Slots /\ (k % ListMax = v => k = a)
  BY <1>1, <1>n, RingSlots
<1>3. ~Published(a)
  <2>1. order[a][1] = t /\ order[a][2] = n
    BY <1>1
  <2>2. ~(n < n)
    BY <1>0
  <2> QED
    BY <1>n, <2>1, <2>2 DEF Published
<1>4. slots[v] = Nil
  <2> SUFFICES ASSUME slots[v] # Nil PROVE FALSE
    OBVIOUS
  <2>1. PICK k \in (d + 1)..N : v = k % ListMax /\ Published(k)
    BY <1>2, <1>n DEF InvAt, SlotInv
  <2> QED
    BY <1>2, <1>3, <2>1
<1>5. /\ queueSize' = queueSize /\ producePos' = producePos /\ consumePos' = consumePos
      /\ next' = next /\ used' = used /\ text' = text /\ link' = link
      /\ cur' = cur /\ rest' = rest /\ output' = output /\ file' = file /\ order' = order
      /\ sink' = Notified /\ pc' = [pc EXCEPT ![t] = "append"]
  BY <1>4, <1>n DEF Publish, blocks, ending, history
<1>6. /\ sink \in Busy <=> sink' \in Busy
      /\ sink' = "count" <=> sink = "count"
      /\ sink' = "clear" <=> sink = "clear"
      /\ sink' = "copy" <=> sink = "copy"
      /\ sink' = "empty" <=> sink = "empty"
  BY <1>5 DEF Notified, Busy
<1>7. /\ slots' \in [Slots -> Refs] /\ slots'[v] = h
      /\ \A i \in Slots : i # v => slots'[i] = slots[i]
  <2>1. slots' = [slots EXCEPT ![v] = h]
    BY <1>4, <1>n DEF Publish
  <2>2. slots \in [Slots -> Refs] /\ h \in Refs
    BY <1>0, <1>n DEF TypeOK
  <2> QED
    BY <1>2, <2>1, <2>2
<1>8. /\ pc' \in [Threads -> {"append", "link", "finish", "backoff", "place", "publish"}]
      /\ pc'[t] = "append" /\ \A u \in Threads : u # t => pc'[u] = pc[u]
  BY <1>0, <1>5 DEF TypeOK
<1>9. /\ line' \in [Threads -> Nat] /\ line'[t] = n + 1
      /\ \A u \in Threads : u # t => line'[u] = line[u]
  <2>1. line' = [line EXCEPT ![t] = n + 1] /\ n + 1 \in Nat
    BY <1>0, <1>n DEF Publish
  <2> QED
    BY <1>0, <2>1 DEF TypeOK
<1>10. /\ part' \in [Threads -> Nat \ {0}] /\ part'[t] = 1
       /\ \A u \in Threads : u # t => part'[u] = part[u]
  BY <1>0 DEF Publish, TypeOK
<1>11. /\ node' \in [Threads -> [head : Refs, tail : Refs]]
       /\ node'[t].head = Nil /\ node'[t].tail = Nil
       /\ \A u \in Threads : u # t => node'[u] = node[u]
  BY <1>0, Sizes DEF Publish, TypeOK
<1>12. /\ spare' \in [Threads -> Nat]
       /\ \A u \in Threads : u # t => spare'[u] = spare[u]
  BY <1>0 DEF Publish, TypeOK, Nil
<1>13. part[t] = Parts[t] + 1 /\ part[t] > 1 /\ At(h, t, n, 1)
  <2>1. part[t] = Parts[t] + 1
    BY <1>0 DEF NodeInv
  <2>2. part[t] > 1
    BY <1>0, <2>1
  <2> QED
    BY <1>0, <1>n, <2>1, <2>2 DEF NodeInv
<1>14. TypeOK'
  BY <1>0, <1>5, <1>7, <1>8, <1>9, <1>10, <1>11, <1>12 DEF TypeOK
<1>15. DisjointInv'
  BY <1>5 DEF InvAt, DisjointInv
<1>16. RingInv(d)'
  <2>1. Those("backoff")' = Those("backoff") /\ Those("place")' = Those("place")
    BY <1>0, <1>5, CountSame
  <2> QED
    BY <1>5, <1>6, <2>1 DEF InvAt, RingInv, Placed
<1>17. ThreadInv'
  <2>1. Fresh(t)' = Nil /\ NodeInv(t)'
    <3>1. Fresh(t)' = Nil
      BY <1>8, <1>10, <1>11 DEF Fresh
    <3>2. 1 <= Parts[t] /\ ~(1 > 1)
      BY <1>0
    <3> QED
      BY <1>8, <1>10, <1>11, <3>1, <3>2 DEF NodeInv
  <2>2. ASSUME NEW u \in Threads, u # t PROVE Fresh(u)' = Fresh(u) /\ NodeInv(u)'
    <3>1. /\ pc'[u] = pc[u] /\ spare'[u] = spare[u] /\ part'[u] = part[u] /\ node'[u] = node[u]
          /\ line'[u] = line[u] /\ NodeInv(u)
      BY <1>0, <1>8, <1>9, <1>10, <1>11, <1>12, <2>2 DEF ThreadInv
    <3>2. Fresh(u)' = Fresh(u)
      BY <3>1 DEF Fresh
    <3> QED
      BY <1>5, <3>1, <3>2 DEF NodeInv, IsFresh, At
  <2> QED
    BY <1>0, <2>1, <2>2 DEF ThreadInv
<1>18. /\ \A u \in Threads : line[u] <= line'[u]
       /\ \A k \in 1..N : Published(k)' <=> Published(k) \/ k = a
       /\ \A b, i, k : AtLine(b, k, i)' = AtLine(b, k, i)
  <2>1. ASSUME NEW u \in Threads PROVE line[u] <= line'[u]
    <3>1. line[u] \in Nat
      BY <1>0 DEF TypeOK
    <3> QED
      BY <1>9, <1>n, <3>1
  <2>2. ASSUME NEW k \in 1..N PROVE Published(k)' <=> Published(k) \/ k = a
    <3>1. order[k][1] \in Threads /\ order[k][2] \in Nat /\ order[k] = <<order[k][1], order[k][2]>>
      BY <1>0
    <3>2. CASE order[k][1] = t
      <4>1. order[k][2] = n <=> k = a
        <5>1. order[k][2] = n => order[k] = order[a]
          BY <1>1, <3>1, <3>2
        <5>2. order[k] = order[a] => k = a
          BY <1>2, <1>n DEF InvAt, OrderInv
        <5>3. k = a => order[k][2] = n
          BY <1>1
        <5> QED
          BY <5>1, <5>2, <5>3
      <4>2. order[k][2] < n + 1 <=> order[k][2] < n \/ order[k][2] = n
        BY <1>0, <3>1
      <4>3. Published(k)' <=> order[k][2] < n + 1
        BY <1>5, <1>9, <3>2 DEF Published
      <4>4. Published(k) <=> order[k][2] < n
        BY <1>n, <3>2 DEF Published
      <4> QED
        BY <4>1, <4>2, <4>3, <4>4
    <3>3. CASE order[k][1] # t
      <4>1. k # a
        BY <1>1, <3>3
      <4>2. line'[order[k][1]] = line[order[k][1]]
        BY <1>9, <3>1, <3>3
      <4> QED
        BY <1>5, <4>1, <4>2 DEF Published
    <3> QED
      BY <3>2, <3>3
  <2>3. ASSUME NEW b, NEW i, NEW k PROVE AtLine(b, k, i)' = AtLine(b, k, i)
    BY <1>5 DEF AtLine, At
  <2> QED
    BY <2>1, <2>2, <2>3
<1>19. OrderInv(d)'
  <2>0. OrderInv(d)
    BY DEF InvAt
  <2>1. \A k, m \in 1..N : order[k] = order[m] => k = m
    BY <1>n, <2>0 DEF OrderInv
  <2>2. ASSUME NEW k \in 1..N
        PROVE  /\ order[k][2] <= line'[order[k][1]]
               /\ order[k][2] = line'[order[k][1]] => pc'[order[k][1]] = "publish"
    <3>1. /\ order[k][1] \in Threads /\ order[k][2] \in Nat /\ order[k][2] <= line[order[k][1]]
          /\ order[k][2] = line[order[k][1]] => pc[order[k][1]] = "publish"
      BY <1>0, <1>n, <2>0 DEF OrderInv
    <3>2. CASE order[k][1] = t
      <4>1. order[k][2] <= n
        BY <1>n, <3>1, <3>2
      <4>2. order[k][2] <= n + 1 /\ order[k][2] # n + 1
        BY <1>0, <3>1, <4>1
      <4> QED
        BY <1>9, <3>2, <4>2
    <3>3. CASE order[k][1] # t
      BY <1>8, <1>9, <3>1, <3>3
    <3> QED
      BY <3>2, <3>3
  <2>3. ASSUME NEW u \in Threads, pc'[u] = "publish"
        PROVE  \E k \in (d + 1)..N : order[k] = <<u, line'[u]>> /\ spare'[u] = k % ListMax
    <3>1. u # t
      BY <1>8, <2>3
    <3>2. pc[u] = "publish" /\ line'[u] = line[u] /\ spare'[u] = spare[u]
      BY <1>8, <1>9, <1>12, <2>3, <3>1
    <3> QED
      BY <1>n, <2>0, <3>2 DEF OrderInv
  <2>4. Placed' = N /\ order' = order
    BY <1>5, <1>n DEF Placed
  <2> QED
    BY <2>1, <2>2, <2>3, <2>4 DEF OrderInv
<1>20. SlotInv(d, j)'
  <2>0. SlotInv(d, j) /\ SinkInv(d, j) /\ Placed' = N
    BY <1>5, <1>n DEF InvAt, Placed
  <2>1. ASSUME NEW i \in Slots, slots'[i] # Nil
        PROVE  \E k \in (d + 1)..N : i = k % ListMax /\ Published(k)'
    <3>1. CASE i = v
      BY <1>1, <1>2, <1>18, <3>1
    <3>2. CASE i # v
      <4>1. PICK k \in (d + 1)..N : i = k % ListMax /\ Published(k)
        BY <1>7, <1>n, <2>0, <2>1, <3>2 DEF SlotInv
      <4> QED
        BY <1>2, <1>18, <4>1
    <3> QED
      BY <3>1, <3>2
  <2>2. ASSUME NEW k \in (d + 1)..N, Published(k)'
        PROVE  \/ k = d + 1 /\ sink' \in Busy
               \/ AtLine(slots[k % ListMax], k, IF k = d + 1 THEN j + 1 ELSE 1)'
    <3>1. CASE k = a
      <4>1. k = d + 1 => j = 0
        BY <1>0, <1>3, <2>0, <3>1 DEF SinkInv
      <4>2. (IF k = d + 1 THEN j + 1 ELSE 1) = 1
        BY <4>1
      <4>3. AtLine(h, k, 1)
        BY <1>1, <1>13, <3>1 DEF AtLine
      <4>4. AtLine(h, k, 1)'
        BY <1>18, <4>3
      <4> QED
        BY <1>1, <1>7, <3>1, <4>2, <4>4 DEF AtLine, At
    <3>2. CASE k # a
      <4>1. Published(k) /\ slots'[k % ListMax] = slots[k % ListMax]
        BY <1>2, <1>7, <1>18, <2>2, <3>2
      <4>2. PICK x, i : x = slots[k % ListMax] /\ i = (IF k = d + 1 THEN j + 1 ELSE 1)
        OBVIOUS
      <4>3. (k = d + 1 /\ sink \in Busy) \/ AtLine(x, k, i)
        BY <1>n, <2>0, <4>1, <4>2 DEF SlotInv
      <4>4. (k = d + 1 /\ sink' \in Busy) \/ AtLine(x, k, i)'
        BY <1>6, <1>18, <4>3
      <4> QED
        BY <4>1, <4>2, <4>4 DEF AtLine, At
    <3> QED
      BY <3>1, <3>2
  <2> QED
    BY <2>0, <2>1, <2>2 DEF SlotInv
<1>21. SinkInv(d, j)'
  <2>0. SinkInv(d, j) /\ Placed' = Placed
    BY <1>5 DEF InvAt, Placed
  <2>1. d < Placed /\ Published(d + 1) => Published(d + 1)'
    <3>1. d < N => d + 1 \in 1..N
      BY <1>0
    <3> QED
      BY <1>18, <1>n, <3>1
  <2>2. AtLine(cur, d + 1, j + 1)' = AtLine(cur, d + 1, j + 1)
    BY <1>5 DEF AtLine, At
  <2>3. AtLine(rest, d + 1, j + 1)' = AtLine(rest, d + 1, j + 1)
    BY <1>5 DEF AtLine, At
  <2> QED
    BY <1>5, <1>6, <2>0, <2>1, <2>2, <2>3 DEF SinkInv
<1>22. FileInv(d, j)'
  BY <1>5 DEF InvAt, FileInv
<1>23. BlockInv(d, j)'
  <2>1. ASSUME NEW c \in Blocks, used[c], text[c] # <<>> PROVE RunInv(c, d, j)'
    <3>1. RunInv(c, d, j)
      BY <2>1 DEF InvAt, BlockInv
    <3>m. PICK u, l, i, m : /\ u = text[c][1][1] /\ l = text[c][1][2]
                            /\ i = text[c][1][3] /\ m = Len(text[c])
      OBVIOUS
    <3>2. /\ i > 0 /\ l <= line[u] /\ i + m - 1 <= Made(u, l) /\ text[c] = Run(u, l, i, m)
          /\ i + m - 1 = Made(u, l) => link[c] = Nil /\ (l = line[u] => node[u].tail = c)
          /\ i + m - 1 < Made(u, l) => At(link[c], u, l, i + m)
          /\ \A k \in 1..N : order[k] = <<u, l>> => k > d /\ (k = d + 1 => i > j)
      BY <1>n, <3>1, <3>m DEF RunInv
    <3>3. u \in Threads /\ l \in Nat /\ text[c][1] = <<u, l, i>>
      <4>1. text[c][1] \in Part
        BY <1>0, <2>1 DEF TypeOK
      <4> QED
        BY <3>m, <4>1 DEF Part
    <3>4. Made(u, l)' = Made(u, l) /\ l <= line'[u] /\ (l = line'[u] => u # t /\ line'[u] = line[u])
      <4>1. CASE u = t
        <5>1. l <= n /\ line'[u] = n + 1 /\ n + 1 # l /\ l <= n + 1
          BY <1>0, <1>9, <1>n, <3>2, <3>3, <4>1
        <5>2. Made(u, l)' = Parts[t]
          BY <4>1, <5>1 DEF Made
        <5>3. Made(u, l) = Parts[t]
          <6>1. part[t] - 1 = Parts[t]
            BY <1>0, <1>13
          <6> QED
            BY <4>1, <6>1 DEF Made
        <5> QED
          BY <5>1, <5>2, <5>3
      <4>2. CASE u # t
        BY <1>9, <1>10, <3>2, <3>3, <4>2 DEF Made
      <4> QED
        BY <4>1, <4>2
    <3>5. l = line'[u] => node'[u] = node[u]
      BY <1>11, <3>3, <3>4
    <3>6. At(link[c], u, l, i + m)' = At(link[c], u, l, i + m)
      BY <1>5 DEF At
    <3>7. Placed' = N /\ order' = order /\ text' = text /\ link' = link
      BY <1>5, <1>n DEF Placed
    <3>8. /\ text'[c][1] = <<u, l, i>> /\ Len(text'[c]) = m /\ i > 0 /\ l <= line'[u]
          /\ i + m - 1 <= Made(u, l)' /\ text'[c] = Run(u, l, i, m)
      BY <3>2, <3>3, <3>4, <3>7, <3>m
    <3>9. /\ i + m - 1 = Made(u, l)' => link'[c] = Nil /\ (l = line'[u] => node'[u].tail = c)
          /\ i + m - 1 < Made(u, l)' => At(link[c], u, l, i + m)'
      BY <3>2, <3>4, <3>5, <3>6, <3>7
    <3>10. \A k \in 1..Placed' : order'[k] = <<u, l>> => k > d /\ (k = d + 1 => i > j)
      BY <3>2, <3>7
    <3> QED
      BY <3>8, <3>9, <3>10, RunIs
  <2> QED
    BY <1>5, <1>6, <2>1 DEF InvAt, BlockInv
<1> QED
  BY <1>14, <1>15, <1>16, <1>17, <1>19, <1>20, <1>21, <1>22, <1>23 DEF InvAt

-----------------------------------------------------------------------------
(* The sink empties a slot.                                                *)

\* The sink looks into the next slot.
LEMMA TakeKeeps ==
  ASSUME NEW d, NEW j, InvAt(d, j), Take
  PROVE  InvAt(d, j)'
<1>0. /\ TypeOK /\ d \in Nat /\ Placed \in Nat /\ consumePos = (d + 1) % ListMax
      /\ consumePos \in Slots
  <2>1. d \in Nat /\ Placed \in Nat /\ TypeOK
    BY Facts
  <2>2. consumePos = (d + 1) % ListMax
    BY DEF InvAt, RingInv
  <2>3. d + 1 \in Nat
    BY <2>1
  <2> QED
    BY <2>1, <2>2, <2>3, Position
<1>1. /\ queueSize' = queueSize /\ producePos' = producePos /\ consumePos' = consumePos
      /\ slots' = slots /\ next' = next /\ used' = used /\ text' = text /\ link' = link
      /\ pc' = pc /\ line' = line /\ part' = part /\ node' = node /\ spare' = spare
      /\ order' = order /\ rest' = rest /\ output' = output /\ file' = file
      /\ sink = "take" /\ cur' \in {slots[consumePos], Nil}
      /\ sink' = IF cur' = Nil THEN Consumed(output) ELSE "copy"
  BY DEF Take, Sinks, buffer, blocks, thread, ending, history
<1>2. CASE cur' = Nil
  <2>1. sink' \in {"idle", "write"}
    BY <1>1, <1>2 DEF Consumed
  <2>2. UNCHANGED <<buffer, blocks, thread, order, rest>>
    BY <1>1 DEF buffer, blocks, thread
  <2>3. output' \in Seq(Part) /\ file' \in Seq(Part) /\ cur' \in Refs
    BY <1>0, <1>1, <1>2, Sizes DEF TypeOK
  <2>4. file' \o output' = file \o output
    BY <1>1
  <2>5. sink \notin Busy \cup {"count"} /\ sink' \notin Busy \cup {"count"}
    BY <1>1, <2>1 DEF Busy
  <2> QED
    BY <2>2, <2>3, <2>4, <2>5, Quiet
<1>3. CASE cur' # Nil
  <2>0. cur' = slots[consumePos] /\ slots[consumePos] # Nil /\ sink' = "copy"
    BY <1>1, <1>3
  <2>1. d + 1 \in (d + 1)..Placed /\ Published(d + 1)
    <3>1. PICK k \in (d + 1)..Placed : consumePos = k % ListMax /\ Published(k)
      BY <1>0, <2>0 DEF InvAt, SlotInv
    <3>2. d + 1 \in (d + 1)..Placed
      BY <1>0
    <3>3. k = d + 1
      BY <1>0, <3>1, <3>2, RingSlots
    <3> QED
      BY <3>1, <3>2, <3>3
  <2>2. AtLine(slots[consumePos], d + 1, j + 1)
    <3>1. sink \notin Busy
      BY <1>1 DEF Busy
    <3>2. AtLine(slots[(d + 1) % ListMax], d + 1, IF d + 1 = d + 1 THEN j + 1 ELSE 1)
      BY <2>1, <3>1 DEF InvAt, SlotInv
    <3> QED
      BY <1>0, <3>2
  <2>3. d < Placed /\ cur' \in Refs
    BY <1>0, <2>0, <2>1 DEF TypeOK
  <2>4. TypeOK'
    BY <1>0, <1>1, <2>3 DEF TypeOK
  <2>5. DisjointInv' /\ ThreadInv'
    BY <1>1, SameMemory DEF InvAt
  <2>6. RingInv(d)' /\ OrderInv(d)' /\ FileInv(d, j)'
    BY <1>1, <2>0 DEF InvAt, RingInv, OrderInv, FileInv, Placed, Those
  <2>7. SlotInv(d, j)'
    BY <1>1, <2>0 DEF InvAt, SlotInv, Placed, Published, AtLine, At, Busy
  <2>8. SinkInv(d, j)'
    <3>1. Published(d + 1)' /\ Placed' = Placed /\ AtLine(cur, d + 1, j + 1)'
      BY <1>1, <2>0, <2>1, <2>2 DEF Published, Placed, AtLine, At
    <3> QED
      BY <1>1, <2>0, <2>3, <3>1 DEF InvAt, SinkInv
  <2>9. BlockInv(d, j)'
    BY <1>1, <2>0, SameRuns DEF InvAt
  <2> QED
    BY <2>4, <2>5, <2>6, <2>7, <2>8, <2>9 DEF InvAt
<1> QED
  BY <1>2, <1>3

\* The output is full: the sink puts what is left of the chain back.
LEMMA LaterKeeps ==
  ASSUME NEW d, NEW j, InvAt(d, j), CopyLater
  PROVE  InvAt(d, j)'
<1>0. /\ TypeOK /\ d \in Nat /\ Placed \in Nat /\ consumePos = (d + 1) % ListMax
      /\ consumePos \in Slots
  <2>1. d \in Nat /\ Placed \in Nat /\ TypeOK
    BY Facts
  <2>2. consumePos = (d + 1) % ListMax
    BY DEF InvAt, RingInv
  <2>3. d + 1 \in Nat
    BY <2>1
  <2> QED
    BY <2>1, <2>2, <2>3, Position
<1>1. /\ queueSize' = queueSize /\ producePos' = producePos /\ consumePos' = consumePos
      /\ next' = next /\ used' = used /\ text' = text /\ link' = link
      /\ pc' = pc /\ line' = line /\ part' = part /\ node' = node /\ spare' = spare
      /\ order' = order /\ cur' = cur /\ rest' = rest /\ output' = output /\ file' = file
      /\ sink = "copy" /\ sink' \in {"idle", "write"}
      /\ slots' = [slots EXCEPT ![consumePos] = cur]
  BY DEF CopyLater, Sinks, Consumed, blocks, thread, ending, history
<1>2. /\ d < Placed /\ Published(d + 1) /\ AtLine(cur, d + 1, j + 1)
      /\ d + 1 \in (d + 1)..Placed
  <2>1. d < Placed /\ Published(d + 1) /\ AtLine(cur, d + 1, j + 1)
    BY <1>1 DEF InvAt, SinkInv, Busy
  <2> QED
    BY <1>0, <2>1
<1>3. /\ slots' \in [Slots -> Refs] /\ slots'[consumePos] = cur
      /\ \A i \in Slots : i # consumePos => slots'[i] = slots[i]
  BY <1>0, <1>1 DEF TypeOK
<1>4. TypeOK'
  BY <1>0, <1>1, <1>3 DEF TypeOK
<1>5. DisjointInv' /\ ThreadInv'
  BY <1>1, SameMemory DEF InvAt
<1>6. RingInv(d)' /\ OrderInv(d)' /\ FileInv(d, j)'
  BY <1>1 DEF InvAt, RingInv, OrderInv, FileInv, Placed, Those
<1>7. SinkInv(d, j)'
  BY <1>1 DEF InvAt, SinkInv, Placed, Published, Busy
<1>8. BlockInv(d, j)'
  BY <1>1, SameRuns DEF InvAt
<1>9. /\ \A k : Published(k)' = Published(k)
      /\ \A b, k, i : AtLine(b, k, i)' = AtLine(b, k, i)
      /\ Placed' = Placed
  BY <1>1 DEF Published, AtLine, At, Placed
<1>10. SlotInv(d, j)'
  <2>0. SlotInv(d, j)
    BY DEF InvAt
  <2>1. ASSUME NEW i \in Slots, slots'[i] # Nil
        PROVE  \E k \in (d + 1)..Placed : i = k % ListMax /\ Published(k)'
    <3>1. CASE i = consumePos
      BY <1>0, <1>2, <1>9, <3>1
    <3>2. CASE i # consumePos
      <4>1. slots[i] # Nil
        BY <1>3, <2>1, <3>2
      <4> QED
        BY <1>9, <2>0, <4>1 DEF SlotInv
    <3> QED
      BY <3>1, <3>2
  <2>2. ASSUME NEW k \in (d + 1)..Placed, Published(k)'
        PROVE  AtLine(slots[k % ListMax], k, IF k = d + 1 THEN j + 1 ELSE 1)'
    <3>1. CASE k = d + 1
      <4>1. PICK x : x = cur
        OBVIOUS
      <4>2. AtLine(x, k, j + 1)'
        BY <1>2, <1>9, <3>1, <4>1
      <4> QED
        BY <1>0, <1>3, <3>1, <4>1, <4>2 DEF AtLine, At
    <3>2. CASE k # d + 1
      <4>1. k % ListMax \in Slots /\ k % ListMax # consumePos
        BY <1>0, <1>2, <3>2, RingSlots
      <4>2. PICK x : x = slots[k % ListMax]
        OBVIOUS
      <4>3. slots'[k % ListMax] = x /\ Published(k)
        BY <1>3, <1>9, <2>2, <4>1, <4>2
      <4>4. AtLine(x, k, 1)
        BY <2>0, <3>2, <4>2, <4>3 DEF SlotInv
      <4>5. AtLine(x, k, 1)'
        BY <1>9, <4>4
      <4> QED
        BY <3>2, <4>3, <4>5 DEF AtLine, At
    <3> QED
      BY <3>1, <3>2
  <2> QED
    BY <1>9, <2>1, <2>2 DEF SlotInv
<1> QED
  BY <1>4, <1>5, <1>6, <1>7, <1>8, <1>10 DEF InvAt

\* The block that the sink copies holds the next parts of the line.
LEMMA CurrentBlock ==
  ASSUME NEW d, NEW j, InvAt(d, j), sink = "copy"
  PROVE  LET t == order[d + 1][1]
             n == order[d + 1][2]
             m == Len(text[cur])
         IN  /\ d < Placed /\ d + 1 \in 1..Placed /\ Published(d + 1)
             /\ cur \in Blocks /\ used[cur] /\ text[cur] # <<>> /\ text[cur] \in Seq(Part)
             /\ t \in Threads /\ n \in Nat /\ n < line[t] /\ order[d + 1] = <<t, n>>
             /\ m \in Nat \ {0} /\ text[cur] = Run(t, n, j + 1, m) /\ Parts[t] \in Nat
             /\ text[cur][1] = <<t, n, j + 1>>
             /\ j + m <= Parts[t]
             /\ j + m = Parts[t] => link[cur] = Nil
             /\ j + m < Parts[t] => At(link[cur], t, n, j + m + 1)
<1>m. PICK b, t, n, m : /\ b = cur /\ t = order[d + 1][1] /\ n = order[d + 1][2]
                        /\ m = Len(text[b])
  OBVIOUS
<1>0. TypeOK /\ d \in Nat /\ Placed \in Nat /\ j \in Nat
  BY Facts
<1>1. d < Placed /\ Published(d + 1) /\ AtLine(b, d + 1, j + 1)
  BY <1>m DEF InvAt, SinkInv, Busy
<1>2. d + 1 \in 1..Placed
  BY <1>0, <1>1
<1>3. t \in Threads /\ n \in Nat /\ n < line[t] /\ order[d + 1] = <<t, n>> /\ Parts[t] \in Nat
  <2>1. order[d + 1][1] \in Threads /\ order[d + 1][2] \in Nat
           /\ order[d + 1] = <<order[d + 1][1], order[d + 1][2]>>
    BY <1>2, Facts
  <2> QED
    BY <1>1, <1>m, <2>1, Sizes DEF Published
<1>4. b \in Blocks /\ used[b] /\ text[b] # <<>> /\ text[b][1] = <<t, n, j + 1>>
  BY <1>1, <1>m DEF AtLine, At
<1>5. text[b] \in Seq(Part) /\ m \in Nat \ {0}
  BY <1>0, <1>4, <1>m DEF TypeOK
<1>6. RunInv(b, d, j)
  BY <1>4 DEF InvAt, BlockInv
<1>7. text[b][1][1] = t /\ text[b][1][2] = n /\ text[b][1][3] = j + 1
  BY <1>4
<1>8. Made(t, n) = Parts[t]
  <2>1. line[t] \in Nat
    BY <1>0, <1>3 DEF TypeOK
  <2>2. n # line[t]
    BY <1>3, <2>1
  <2> QED
    BY <2>2 DEF Made
<1>9. /\ (j + 1) + m - 1 <= Parts[t] /\ text[b] = Run(t, n, j + 1, m)
      /\ (j + 1) + m - 1 = Parts[t] => link[b] = Nil
      /\ (j + 1) + m - 1 < Parts[t] => At(link[b], t, n, (j + 1) + m)
  BY <1>6, <1>7, <1>8, <1>m DEF RunInv
<1>10. (j + 1) + m - 1 = j + m /\ (j + 1) + m = j + m + 1
  BY <1>0, <1>5
<1> QED
  BY <1>1, <1>2, <1>3, <1>4, <1>5, <1>9, <1>10, <1>m

\* Copy a block and let it go.
LEMMA CopyKeeps ==
  ASSUME NEW d, NEW j, InvAt(d, j), Copy
  PROVE  \E i \in Nat : InvAt(d, i)'
<1>m. PICK b, t, n, m, l : /\ b = cur /\ t = order[d + 1][1] /\ n = order[d + 1][2]
                           /\ m = Len(text[b]) /\ l = link[b]
  OBVIOUS
<1>0. /\ sink = "copy" /\ TypeOK /\ d \in Nat /\ Placed \in Nat /\ j \in Nat
      /\ consumePos = (d + 1) % ListMax /\ line[t] \in Nat
  <2>1. sink = "copy" /\ consumePos = (d + 1) % ListMax
    BY DEF Copy, Sinks, InvAt, RingInv
  <2>2. t \in Threads
    BY <1>m, <2>1, CurrentBlock
  <2> QED
    BY <2>1, <2>2, Facts DEF TypeOK
<1>1. /\ d < Placed /\ d + 1 \in 1..Placed /\ Published(d + 1)
      /\ b \in Blocks /\ used[b] /\ text[b] # <<>> /\ text[b] \in Seq(Part)
      /\ t \in Threads /\ n \in Nat /\ n < line[t] /\ order[d + 1] = <<t, n>>
  BY <1>0, <1>m, CurrentBlock
<1>2. /\ m \in Nat \ {0} /\ text[b] = Run(t, n, j + 1, m) /\ Parts[t] \in Nat
      /\ text[b][1] = <<t, n, j + 1>> /\ j + m <= Parts[t]
      /\ j + m = Parts[t] => l = Nil
      /\ j + m < Parts[t] => At(l, t, n, j + m + 1)
  BY <1>0, <1>m, CurrentBlock
<1>3. \A q \in 1..m : text[b][q] = <<t, n, j + q>>
  <2>1. \A q \in 1..m : (j + 1) + q - 1 = j + q
    BY <1>0, <1>2
  <2> QED
    BY <1>2, <2>1 DEF Run
<1>4. /\ queueSize' = queueSize /\ producePos' = producePos /\ consumePos' = consumePos
      /\ slots' = slots /\ next' = next
      /\ pc' = pc /\ line' = line /\ part' = part /\ node' = node /\ spare' = spare
      /\ order' = order /\ file' = file /\ output' = output \o text[b]
      /\ used' = [used EXCEPT ![b] = FALSE]
  BY <1>m DEF Copy, buffer, thread, ending, history
<1>5. /\ used' \in [Blocks -> BOOLEAN] /\ ~used'[b]
      /\ \A c \in Blocks : c # b => used'[c] = used[c]
  BY <1>0, <1>1, <1>4 DEF TypeOK
<1>6. \/ /\ b \in Reusable /\ rest' = l /\ sink' = "clear" /\ text' = text /\ link' = link /\ cur' = cur
      \/ /\ text' = [text EXCEPT ![b] = <<>>] /\ link' = [link EXCEPT ![b] = Nil]
         /\ cur' = l /\ rest' = rest /\ sink' = IF l = Nil THEN "empty" ELSE "copy"
  BY <1>m DEF Copy, GoOn
<1>7. /\ text' \in [Blocks -> Seq(Part)] /\ link' \in [Blocks -> Refs]
      /\ \A c \in Blocks : c # b => text'[c] = text[c] /\ link'[c] = link[c]
      /\ sink' \in Busy /\ sink' # "count"
      /\ (text'[b] = <<>> /\ link'[b] = Nil) \/ (sink' = "clear" /\ b = cur' /\ text'[b] # <<>>)
  <2>1. text \in [Blocks -> Seq(Part)] /\ link \in [Blocks -> Refs] /\ Nil \in Refs /\ <<>> \in Seq(Part)
    BY <1>0, Sizes DEF TypeOK
  <2>2. CASE sink' = "clear" /\ text' = text /\ link' = link /\ cur' = cur
    BY <1>1, <1>m, <2>1, <2>2 DEF Busy
  <2>3. CASE /\ text' = [text EXCEPT ![b] = <<>>] /\ link' = [link EXCEPT ![b] = Nil]
             /\ sink' = IF l = Nil THEN "empty" ELSE "copy"
    <3>1. /\ text' \in [Blocks -> Seq(Part)] /\ text'[b] = <<>>
          /\ \A c \in Blocks : c # b => text'[c] = text[c]
      BY <1>1, <2>1, <2>3
    <3>2. /\ link' \in [Blocks -> Refs] /\ link'[b] = Nil
          /\ \A c \in Blocks : c # b => link'[c] = link[c]
      BY <1>1, <2>1, <2>3
    <3>3. sink' \in Busy /\ sink' # "count"
      BY <2>3 DEF Busy
    <3> QED
      BY <3>1, <3>2, <3>3
  <2> QED
    BY <1>6, <2>2, <2>3
<1>8. l \in Refs /\ cur' \in Refs /\ rest' \in Refs
  BY <1>0, <1>1, <1>6, <1>m DEF TypeOK
<1>9. output' \in Seq(Part)
  BY <1>0, <1>1, <1>4, ConcatElements DEF TypeOK
<1>10. TypeOK'
  BY <1>0, <1>4, <1>5, <1>7, <1>8, <1>9 DEF TypeOK
<1>11. DisjointInv'
  <2>1. ASSUME NEW c \in Blocks, NEW g \in Blocks, c # g, used'[c], used'[g]
        PROVE  \A p \in DOMAIN text'[c], q \in DOMAIN text'[g] : text'[c][p] # text'[g][q]
    <3>1. c # b /\ g # b /\ used[c] /\ used[g] /\ text'[c] = text[c] /\ text'[g] = text[g]
      BY <1>5, <1>7, <2>1
    <3> QED
      BY <2>1, <3>1 DEF InvAt, DisjointInv
  <2> QED
    BY <2>1 DEF DisjointInv
<1>12. \A c, u, i, k : At(c, u, i, k) /\ c # b => At(c, u, i, k)'
  BY <1>5, <1>7 DEF At
<1>13. ThreadInv'
  <2>1. ASSUME NEW u \in Threads PROVE NodeInv(u)' /\ Fresh(u)' = Fresh(u)
    <3>1. NodeInv(u)
      BY DEF InvAt, ThreadInv
    <3>2. Fresh(u)' = Fresh(u)
      BY <1>4 DEF Fresh
    <3>3. Fresh(u) # Nil => Fresh(u) # b
      BY <1>1, <3>1 DEF NodeInv, IsFresh
    <3>4. Fresh(u) # Nil => IsFresh(Fresh(u))'
      BY <1>5, <1>7, <3>1, <3>2, <3>3 DEF NodeInv, IsFresh
    <3>5. ~(t = u /\ n = line[u])
      BY <1>0, <1>1
    <3>6. part[u] > 1 => node[u].head # b
      BY <1>1, <1>2, <3>1, <3>5 DEF NodeInv, At
    <3>7. part[u] > 1 => node[u].tail # b
      <4> SUFFICES ASSUME part[u] > 1, node[u].tail = b PROVE FALSE
        OBVIOUS
      <4>1. text[b][m] = <<u, line[u], part[u] - 1>>
        BY <1>m, <3>1 DEF NodeInv
      <4>2. text[b][m] = <<t, n, j + m>>
        BY <1>2, <1>3
      <4> QED
        BY <3>5, <4>1, <4>2
    <3>8. part[u] > 1 => At(node[u].head, u, line[u], 1)'
      <4> SUFFICES ASSUME part[u] > 1 PROVE At(node[u].head, u, line[u], 1)'
        OBVIOUS
      <4>1. PICK x, y : x = node[u].head /\ y = line[u]
        OBVIOUS
      <4>2. At(x, u, y, 1) /\ x # b
        BY <3>1, <3>6, <4>1 DEF NodeInv
      <4>3. At(x, u, y, 1)'
        BY <1>12, <4>2
      <4> QED
        BY <1>4, <4>1, <4>3 DEF At
    <3>9. part[u] > 1 =>
            /\ node'[u].tail \in Blocks /\ used'[node'[u].tail]
            /\ text'[node'[u].tail] = text[node[u].tail]
      BY <1>4, <1>5, <1>7, <3>1, <3>7 DEF NodeInv
    <3> QED
      BY <1>4, <3>1, <3>2, <3>4, <3>8, <3>9 DEF NodeInv
  <2> QED
    BY <2>1 DEF InvAt, ThreadInv
<1>g. PICK g : g = j + m
  OBVIOUS
<1>14. g \in Nat /\ g <= Parts[t] /\ g > 0 /\ j + 1 <= g
  BY <1>0, <1>2, <1>g
<1>15. /\ \A k : Published(k)' = Published(k)
       /\ \A c, k, i : AtLine(c, k, i) /\ c # b => AtLine(c, k, i)'
       /\ Placed' = Placed
  <2>1. \A c, k, i : AtLine(c, k, i) /\ c # b => AtLine(c, k, i)'
    <3> SUFFICES ASSUME NEW c, NEW k, NEW i, AtLine(c, k, i), c # b PROVE AtLine(c, k, i)'
      OBVIOUS
    <3>1. PICK x, y : x = order[k][1] /\ y = order[k][2]
      OBVIOUS
    <3>2. At(c, x, y, i)
      BY <3>1 DEF AtLine
    <3>3. At(c, x, y, i)'
      BY <1>12, <3>2
    <3> QED
      BY <1>4, <3>1, <3>3 DEF AtLine, At
  <2> QED
    BY <1>4, <2>1 DEF Published, Placed
<1>16. RingInv(d)' /\ OrderInv(d)'
  BY <1>0, <1>4, <1>7 DEF InvAt, RingInv, OrderInv, Placed, Those
<1>17. SlotInv(d, g)'
  <2>0. SlotInv(d, j) /\ OrderInv(d)
    BY DEF InvAt
  <2>1. \A i \in Slots : slots'[i] # Nil =>
          \E k \in (d + 1)..Placed : i = k % ListMax /\ Published(k)'
    BY <1>4, <1>15, <2>0 DEF SlotInv
  <2>2. ASSUME NEW k \in (d + 1)..Placed, Published(k)', k # d + 1
        PROVE  AtLine(slots[k % ListMax], k, 1)'
    <3>1. PICK x : x = slots[k % ListMax]
      OBVIOUS
    <3>2. AtLine(x, k, 1)
      BY <1>15, <2>0, <2>2, <3>1 DEF SlotInv
    <3>3. x # b
      <4> SUFFICES ASSUME x = b PROVE FALSE
        OBVIOUS
      <4>1. order[k][1] = t /\ order[k][2] = n /\ k \in 1..Placed
        BY <1>0, <1>2, <3>2 DEF AtLine, At
      <4>2. order[k] = order[d + 1]
        BY <1>1, <4>1, Facts
      <4> QED
        BY <1>1, <2>0, <2>2, <4>1, <4>2 DEF OrderInv
    <3>4. AtLine(x, k, 1)'
      BY <1>15, <3>2, <3>3
    <3> QED
      BY <1>4, <3>1, <3>4 DEF AtLine, At
  <2> QED
    BY <1>7, <1>15, <2>1, <2>2 DEF SlotInv
<1>18. l = Nil => g = Parts[t]
  BY <1>0, <1>2, <1>g, Sizes DEF At
<1>19. l # Nil => AtLine(l, d + 1, g + 1)'
  <2> SUFFICES ASSUME l # Nil PROVE AtLine(l, d + 1, g + 1)'
    OBVIOUS
  <2>1. At(l, t, n, g + 1)
    BY <1>0, <1>2, <1>g
  <2>2. l # b
    <3>1. g + 1 # j + 1
      BY <1>0, <1>14
    <3> QED
      BY <1>2, <2>1, <3>1 DEF At
  <2>3. AtLine(l, d + 1, g + 1)
    BY <1>m, <2>1 DEF AtLine
  <2> QED
    BY <1>15, <2>2, <2>3
<1>20. SinkInv(d, g)'
  <2>1. order'[d + 1][1] = t /\ Published(d + 1)' /\ d < Placed'
    BY <1>1, <1>4, <1>15, <1>m
  <2>2. sink' = "copy" => AtLine(cur, d + 1, g + 1)'
    BY <1>6, <1>19 DEF AtLine, At
  <2>3. sink' = "empty" => g = Parts[t]
    BY <1>6, <1>18
  <2>4. sink' = "clear" =>
          /\ cur' \in Reusable /\ ~used'[cur']
          /\ IF rest' = Nil THEN g = Parts[t] ELSE AtLine(rest, d + 1, g + 1)'
    <3> SUFFICES ASSUME sink' = "clear"
                 PROVE  /\ cur' \in Reusable /\ ~used'[cur']
                        /\ IF rest' = Nil THEN g = Parts[t] ELSE AtLine(rest, d + 1, g + 1)'
      OBVIOUS
    <3>1. b \in Reusable /\ rest' = l /\ cur' = b
      BY <1>6, <1>m
    <3>2. rest' # Nil => AtLine(rest, d + 1, g + 1)'
      BY <1>19, <3>1 DEF AtLine, At
    <3> QED
      BY <1>5, <1>18, <3>1, <3>2
  <2> QED
    BY <1>7, <1>14, <2>1, <2>2, <2>3, <2>4 DEF SinkInv
<1>21. FileInv(d, g)'
  <2> DEFINE f == TextUpTo(order)[d]
             x == Run(t, n, 1, j)
  <2>1. f \in Seq(Part) /\ file \in Seq(Part) /\ output \in Seq(Part)
    <3>1. order \in Seq(Line) /\ file \in Seq(Part) /\ output \in Seq(Part)
      BY <1>0 DEF TypeOK
    <3>2. d \in 0..Len(order)
      BY <1>0, <1>1 DEF Placed
    <3> QED
      BY <3>1, <3>2, TextSteps
  <2>2. x \in Seq(Part)
    <3>1. 1 \in Nat \ {0}
      OBVIOUS
    <3> QED
      BY <1>0, <1>1, <3>1, RunType
  <2>3. file \o output = f \o x
    BY <1>m DEF InvAt, FileInv
  <2>4. x \o text[b] = Run(t, n, 1, g)
    <3>1. m \in Nat /\ t \in Threads /\ n \in Nat /\ j \in Nat
      BY <1>0, <1>1, <1>2
    <3>2. Run(t, n, 1, j) \o Run(t, n, j + 1, m) = Run(t, n, 1, j + m)
      BY <3>1, RunJoin
    <3> QED
      BY <1>2, <1>g, <3>2
  <2> HIDE DEF f, x
  <2>5. file \o (output \o text[b]) = (file \o output) \o text[b]
    BY <1>1, <2>1, Joins
  <2>6. (f \o x) \o text[b] = f \o (x \o text[b])
    BY <1>1, <2>1, <2>2, Joins, ZenonT(30)
  <2>7. file' \o output' = f \o Run(t, n, 1, g)
    BY <1>4, <2>3, <2>4, <2>5, <2>6
  <2> QED
    BY <1>4, <1>m, <2>7 DEF FileInv, f
<1>22. ASSUME NEW c \in Blocks, c # b, used[c], text[c] # <<>> PROVE RunInv(c, d, g)'
  <2>m. PICK u, o, i, q : /\ u = text[c][1][1] /\ o = text[c][1][2]
                          /\ i = text[c][1][3] /\ q = Len(text[c])
    OBVIOUS
  <2>1. /\ i > 0 /\ o <= line[u] /\ i + q - 1 <= Made(u, o) /\ text[c] = Run(u, o, i, q)
        /\ i + q - 1 = Made(u, o) => link[c] = Nil /\ (o = line[u] => node[u].tail = c)
        /\ i + q - 1 < Made(u, o) => At(link[c], u, o, i + q)
        /\ \A k \in 1..Placed : order[k] = <<u, o>> => k > d /\ (k = d + 1 => i > j)
    <3>1. RunInv(c, d, j)
      BY <1>22 DEF InvAt, BlockInv
    <3> QED
      BY <2>m, <3>1 DEF RunInv
  <2>2. text[c] \in Seq(Part)
    BY <1>0 DEF TypeOK
  <2>3. q \in Nat \ {0} /\ i \in Nat /\ text[c][1] = <<u, o, i>> /\ 1 \in DOMAIN text[c]
    <3>1. Len(text[c]) \in Nat \ {0} /\ text[c][1] \in Part /\ 1 \in DOMAIN text[c]
      BY <1>22, <2>2
    <3> QED
      BY <2>m, <3>1 DEF Part
  <2>4. text'[c] = text[c] /\ link'[c] = link[c]
    BY <1>7, <1>22
  <2>5. Made(u, o)' = Made(u, o)
    BY <1>4 DEF Made
  <2>6. u = t /\ o = n => i > j
    BY <1>1, <2>1
  <2>7. At(link[c], u, o, i + q) => At(link[c], u, o, i + q)'
    <3> SUFFICES ASSUME At(link[c], u, o, i + q) PROVE At(link[c], u, o, i + q)'
      OBVIOUS
    <3>1. PICK x : x = link[c]
      OBVIOUS
    <3>2. x # b
      <4> SUFFICES ASSUME x = b PROVE FALSE
        OBVIOUS
      <4>1. text[b][1] = <<u, o, i + q>>
        BY <3>1 DEF At
      <4>2. u = t /\ o = n /\ i + q = j + 1
        BY <1>2, <4>1
      <4> QED
        BY <1>0, <2>3, <2>6, <4>2
    <3>3. At(x, u, o, i + q)'
      BY <1>12, <3>1, <3>2
    <3> QED
      BY <2>4, <3>1, <3>3 DEF At
  <2>8. u = t /\ o = n => i > g
    <3> SUFFICES ASSUME u = t, o = n, ~(i > g) PROVE FALSE
      OBVIOUS
    <3>1. i - j \in 1..m /\ j + (i - j) = i
      BY <1>0, <1>2, <1>g, <2>3, <2>6
    <3>2. text[b][i - j] = <<t, n, i>> /\ i - j \in DOMAIN text[b]
      BY <1>1, <1>3, <1>m, <3>1
    <3>3. text[c][1] # text[b][i - j]
      BY <1>1, <1>22, <2>3, <3>2 DEF InvAt, DisjointInv
    <3> QED
      BY <2>3, <3>2, <3>3
  <2>9. /\ text'[c][1] = <<u, o, i>> /\ Len(text'[c]) = q /\ i > 0 /\ o <= line'[u]
        /\ i + q - 1 <= Made(u, o)' /\ text'[c] = Run(u, o, i, q)
    BY <1>4, <2>1, <2>3, <2>4, <2>5, <2>m
  <2>10. /\ i + q - 1 = Made(u, o)' => link'[c] = Nil /\ (o = line'[u] => node'[u].tail = c)
         /\ i + q - 1 < Made(u, o)' => At(link[c], u, o, i + q)'
    BY <1>4, <2>1, <2>4, <2>5, <2>7
  <2>11. \A k \in 1..Placed' : order'[k] = <<u, o>> => k > d /\ (k = d + 1 => i > g)
    <3> SUFFICES ASSUME NEW k \in 1..Placed', order'[k] = <<u, o>>
                 PROVE  k > d /\ (k = d + 1 => i > g)
      OBVIOUS
    <3>1. k > d
      BY <1>4, <1>15, <2>1
    <3>2. k = d + 1 => u = t /\ o = n
      BY <1>1, <1>4
    <3> QED
      BY <2>8, <3>1, <3>2
  <2> QED
    BY <2>9, <2>10, <2>11, RunIs
<1>23. BlockInv(d, g)'
  <2>1. ASSUME NEW c \in Blocks, c # b
        PROVE  /\ text'[c] = <<>> => link'[c] = Nil
               /\ ~used'[c] => text'[c] = <<>>
               /\ used'[c] /\ text'[c] # <<>> => RunInv(c, d, g)'
    <3>1. /\ text[c] = <<>> => link[c] = Nil
          /\ ~used[c] => text[c] = <<>>
      BY <1>0 DEF InvAt, BlockInv
    <3> QED
      BY <1>5, <1>7, <1>22, <2>1, <3>1
  <2>2. /\ text'[b] = <<>> => link'[b] = Nil
        /\ ~used'[b] => text'[b] = <<>> \/ (sink' = "clear" /\ b = cur')
        /\ used'[b] /\ text'[b] # <<>> => RunInv(b, d, g)'
    BY <1>5, <1>7
  <2> QED
    BY <2>1, <2>2 DEF BlockInv
<1>24. InvAt(d, g)'
  BY <1>10, <1>11, <1>13, <1>16, <1>17, <1>20, <1>21, <1>23 DEF InvAt
<1> QED
  BY <1>14, <1>24

\* The second half of recycle().
LEMMA ClearKeeps ==
  ASSUME NEW d, NEW j, InvAt(d, j), Clear
  PROVE  InvAt(d, j)'
<1>b. PICK b, l : b = cur /\ l = rest
  OBVIOUS
<1>0. /\ TypeOK /\ sink = "clear" /\ b \in Blocks /\ ~used[b] /\ l \in Refs
      /\ d < Placed /\ Published(d + 1)
      /\ IF l = Nil THEN j = Parts[order[d + 1][1]] ELSE AtLine(l, d + 1, j + 1)
  <2>1. sink = "clear"
    BY DEF Clear, Sinks
  <2> QED
    BY <1>b, <2>1, Sizes DEF InvAt, SinkInv, TypeOK, Busy
<1>1. /\ queueSize' = queueSize /\ producePos' = producePos /\ consumePos' = consumePos
      /\ slots' = slots /\ next' = next /\ used' = used
      /\ pc' = pc /\ line' = line /\ part' = part /\ node' = node /\ spare' = spare
      /\ order' = order /\ output' = output /\ file' = file
      /\ text' = [text EXCEPT ![b] = <<>>] /\ link' = [link EXCEPT ![b] = Nil]
      /\ rest' = Nil /\ cur' = l /\ sink' = IF l = Nil THEN "empty" ELSE "copy"
  BY <1>b DEF Clear, GoOn, buffer, thread, ending
<1>2. /\ text' \in [Blocks -> Seq(Part)] /\ text'[b] = <<>>
      /\ \A c \in Blocks : c # b => text'[c] = text[c]
  <2>1. <<>> \in Seq(Part)
    OBVIOUS
  <2> QED
    BY <1>0, <1>1, <2>1 DEF TypeOK
<1>3. /\ link' \in [Blocks -> Refs] /\ link'[b] = Nil
      /\ \A c \in Blocks : c # b => link'[c] = link[c]
  BY <1>0, <1>1, Sizes DEF TypeOK
<1>4. TypeOK'
  BY <1>0, <1>1, <1>2, <1>3, Sizes DEF TypeOK
<1>5. \A c \in Blocks : used[c] => c # b /\ text'[c] = text[c] /\ link'[c] = link[c]
  BY <1>0, <1>2, <1>3
<1>6. \A c, u, i, k : At(c, u, i, k) => At(c, u, i, k)'
  BY <1>1, <1>5 DEF At
<1>7. \A c, k, i : AtLine(c, k, i) => AtLine(c, k, i)'
  BY <1>1, <1>5 DEF AtLine, At
<1>8. DisjointInv'
  BY <1>1, <1>5 DEF InvAt, DisjointInv
<1>9. ThreadInv'
  <2>1. ASSUME NEW u \in Threads PROVE NodeInv(u)' /\ Fresh(u)' = Fresh(u)
    <3>1. NodeInv(u)
      BY DEF InvAt, ThreadInv
    <3>2. Fresh(u)' = Fresh(u)
      BY <1>1 DEF Fresh
    <3> QED
      BY <1>1, <1>5, <3>1, <3>2, SMTT(60) DEF NodeInv, IsFresh, At
  <2> QED
    BY <2>1 DEF InvAt, ThreadInv
<1>10. RingInv(d)' /\ OrderInv(d)' /\ FileInv(d, j)'
  BY <1>0, <1>1 DEF InvAt, RingInv, OrderInv, FileInv, Placed, Those
<1>11. SlotInv(d, j)'
  <2>1. sink \in Busy /\ sink' \in Busy
    BY <1>0, <1>1 DEF Busy
  <2> QED
    BY <1>1, <1>7, <2>1 DEF InvAt, SlotInv, Placed, Published
<1>12. SinkInv(d, j)'
  <2>1. l # Nil => AtLine(cur, d + 1, j + 1)'
    BY <1>0, <1>1, <1>7 DEF AtLine, At
  <2>2. Published(d + 1)' /\ d < Placed'
    BY <1>0, <1>1 DEF Published, Placed
  <2> QED
    BY <1>0, <1>1, <2>1, <2>2 DEF InvAt, SinkInv
<1>13. BlockInv(d, j)'
  <2>1. ASSUME NEW c \in Blocks, used[c], text[c] # <<>> PROVE RunInv(c, d, j)'
    <3>1. RunInv(c, d, j)
      BY <2>1 DEF InvAt, BlockInv
    <3>2. text'[c] = text[c] /\ link'[c] = link[c]
      BY <1>5, <2>1
    <3>3. At(link[c], text[c][1][1], text[c][1][2], text[c][1][3] + Len(text[c])) =>
            At(link[c], text[c][1][1], text[c][1][2], text[c][1][3] + Len(text[c]))'
      BY <1>1, <1>5, <3>2 DEF At
    <3> QED
      BY <1>1, <3>1, <3>2, <3>3 DEF RunInv, Made, Placed
  <2> QED
    BY <1>0, <1>1, <1>2, <1>3, <1>b, <2>1 DEF InvAt, BlockInv
<1> QED
  BY <1>4, <1>8, <1>9, <1>10, <1>11, <1>12, <1>13 DEF InvAt

\* The line is done and its slot empty.
LEMMA EmptyKeeps ==
  ASSUME NEW d, NEW j, InvAt(d, j), EmptySlot
  PROVE  d + 1 \in 0..Placed' /\ InvAt(d + 1, 0)'
<1>e. PICK e, t, n : e = d + 1 /\ t = order[e][1] /\ n = order[e][2]
  OBVIOUS
<1>0. /\ TypeOK /\ d \in Nat /\ Placed \in Nat /\ sink = "empty" /\ d < Placed /\ Published(e)
      /\ j = Parts[t] /\ queueSize \in Nat
  <2>1. sink = "empty"
    BY DEF EmptySlot, Sinks
  <2> QED
    BY <1>e, <2>1, Facts DEF InvAt, SinkInv, Busy
<1>1. /\ e \in Nat /\ e \in 1..Placed /\ e \in 0..Placed /\ e \in (d + 1)..Placed /\ d < e
      /\ e - 1 = d /\ (e + 1)..Placed \subseteq (d + 1)..Placed
  BY <1>0, <1>e
<1>2. t \in Threads /\ n \in Nat /\ n < line[t] /\ order[e] = <<t, n>> /\ Parts[t] \in Nat \ {0}
  <2>1. /\ order[e][1] \in Threads /\ order[e][2] \in Nat
        /\ order[e] = <<order[e][1], order[e][2]>>
    BY <1>1, Facts
  <2> QED
    BY <1>0, <1>e, <2>1, Sizes DEF Published
<1>3. /\ queueSize' = queueSize /\ producePos' = producePos
      /\ next' = next /\ used' = used /\ text' = text /\ link' = link
      /\ pc' = pc /\ line' = line /\ part' = part /\ node' = node /\ spare' = spare
      /\ order' = order /\ cur' = cur /\ rest' = rest /\ output' = output /\ file' = file
      /\ sink' = "count" /\ slots' = [slots EXCEPT ![consumePos] = Nil]
      /\ consumePos' = (consumePos + 1) % ListMax
  BY DEF EmptySlot, blocks, thread, ending, history
<1>4. consumePos = e % ListMax /\ consumePos \in Slots
  <2>1. consumePos = e % ListMax
    BY <1>e DEF InvAt, RingInv
  <2> QED
    BY <1>1, <2>1, Position
<1>5. consumePos' = (e + 1) % ListMax
  BY <1>1, <1>3, <1>4, NextPosition
<1>6. /\ slots' \in [Slots -> Refs] /\ slots'[consumePos] = Nil
      /\ \A i \in Slots : i # consumePos => slots'[i] = slots[i]
  BY <1>0, <1>3, <1>4, Sizes DEF TypeOK
<1>7. \A k \in (d + 1)..Placed : k % ListMax \in Slots /\ (k % ListMax = consumePos => k = e)
  BY <1>1, <1>4, RingSlots
<1>8. TypeOK'
  BY <1>0, <1>3, <1>6 DEF TypeOK
<1>9. DisjointInv' /\ ThreadInv'
  BY <1>3, SameMemory DEF InvAt
<1>10. /\ \A k : Published(k)' = Published(k)
       /\ \A b, k, i : AtLine(b, k, i)' = AtLine(b, k, i)
       /\ Placed' = Placed
  BY <1>3 DEF Published, AtLine, At, Placed
<1>11. RingInv(e)'
  <2> DEFINE A == Cardinality(Those("backoff"))
             B == Cardinality(Those("place"))
  <2>1. /\ A \in Nat /\ B \in Nat /\ queueSize = A + B + (Placed - d) + 0
        /\ B + (Placed - d) < ListMax /\ producePos = Placed % ListMax
    BY <1>0, Facts DEF InvAt, RingInv
  <2>2. A' = A /\ B' = B
    BY <1>3 DEF Those
  <2> HIDE DEF A, B
  <2>3. queueSize = A + B + (Placed - e) + 1 /\ B + (Placed - e) < ListMax
    BY <1>0, <1>1, <1>e, <2>1, Sizes
  <2> QED
    BY <1>1, <1>3, <1>5, <1>10, <2>1, <2>2, <2>3 DEF RingInv, A, B
<1>12. OrderInv(e)'
  <2>0. OrderInv(d)
    BY DEF InvAt
  <2>1. ASSUME NEW u \in Threads, pc[u] = "publish"
        PROVE  \E k \in (e + 1)..Placed : order[k] = <<u, line[u]>> /\ spare[u] = k % ListMax
    <3>1. PICK k \in (d + 1)..Placed : order[k] = <<u, line[u]>> /\ spare[u] = k % ListMax
      BY <2>0, <2>1 DEF OrderInv
    <3>2. k # e
      <4>1. line[u] \in Nat
        BY <1>0 DEF TypeOK
      <4>2. ~(line[u] < line[u])
        BY <4>1
      <4>3. k = e => u = t /\ line[u] = n
        BY <1>2, <3>1
      <4> QED
        BY <1>2, <4>2, <4>3
    <3>3. k \in (e + 1)..Placed
      BY <1>0, <1>e, <3>2
    <3> QED
      BY <3>1, <3>3
  <2> QED
    BY <1>3, <1>10, <2>0, <2>1 DEF OrderInv
<1>13. SlotInv(e, 0)'
  <2>0. SlotInv(d, j)
    BY DEF InvAt
  <2>1. ASSUME NEW i \in Slots, slots'[i] # Nil
        PROVE  \E k \in (e + 1)..Placed : i = k % ListMax /\ Published(k)'
    <3>1. i # consumePos /\ slots[i] # Nil
      BY <1>6, <2>1
    <3>2. PICK k \in (d + 1)..Placed : i = k % ListMax /\ Published(k)
      BY <2>0, <3>1 DEF SlotInv
    <3>3. k # e
      BY <1>4, <3>1, <3>2
    <3>4. k \in (e + 1)..Placed
      BY <1>0, <1>e, <3>3
    <3> QED
      BY <1>10, <3>2, <3>4
  <2>2. ASSUME NEW k \in (e + 1)..Placed, Published(k)'
        PROVE  AtLine(slots[k % ListMax], k, IF k = e + 1 THEN 0 + 1 ELSE 1)'
    <3>1. k \in (d + 1)..Placed /\ k # e /\ k # d + 1
      BY <1>0, <1>e
    <3>2. k % ListMax \in Slots /\ slots'[k % ListMax] = slots[k % ListMax]
      BY <1>6, <1>7, <3>1
    <3>3. AtLine(slots[k % ListMax], k, 1)
      BY <1>10, <2>0, <2>2, <3>1 DEF SlotInv
    <3>4. AtLine(slots[k % ListMax], k, 1)'
      BY <1>3, <3>2, <3>3 DEF AtLine, At
    <3>5. (IF k = e + 1 THEN 0 + 1 ELSE 1) = 1
      OBVIOUS
    <3> QED
      BY <3>4, <3>5
  <2> QED
    BY <1>10, <2>1, <2>2 DEF SlotInv
<1>14. SinkInv(e, 0)'
  BY <1>3 DEF SinkInv, Busy
<1>15. FileInv(e, 0)'
  <2> DEFINE f == TextUpTo(order)
  <2>0. order \in Seq(Line) /\ e \in 1..Len(order) /\ e \in 0..Len(order)
    BY <1>0, <1>1 DEF TypeOK, Placed
  <2>1. f[e] = f[e - 1] \o Run(t, n, 1, j) /\ f[e] \in Seq(Part)
    BY <1>0, <1>e, <2>0, TextSteps
  <2>2. file \o output = f[d] \o Run(t, n, 1, j)
    BY <1>e DEF InvAt, FileInv
  <2> HIDE DEF f
  <2>3. file \o output = f[e] \o <<>>
    <3>1. f[e] \o <<>> = f[e]
      BY <2>1
    <3>2. file \o output = f[e]
      BY <1>1, <2>1, <2>2, Zenon
    <3> QED
      BY <3>1, <3>2
  <2> QED
    BY <1>3, <2>3, EmptyRun DEF FileInv, f
<1>16. BlockInv(e, 0)'
  <2>1. ASSUME NEW c \in Blocks, used[c], text[c] # <<>> PROVE RunInv(c, e, 0)'
    <3>m. PICK u, o, i, m : /\ u = text[c][1][1] /\ o = text[c][1][2]
                            /\ i = text[c][1][3] /\ m = Len(text[c])
      OBVIOUS
    <3>1. /\ i > 0 /\ o <= line[u] /\ i + m - 1 <= Made(u, o) /\ text[c] = Run(u, o, i, m)
          /\ i + m - 1 = Made(u, o) => link[c] = Nil /\ (o = line[u] => node[u].tail = c)
          /\ i + m - 1 < Made(u, o) => At(link[c], u, o, i + m)
          /\ \A k \in 1..Placed : order[k] = <<u, o>> => k > d /\ (k = d + 1 => i > j)
      <4>1. RunInv(c, d, j)
        BY <2>1 DEF InvAt, BlockInv
      <4> QED
        BY <3>m, <4>1 DEF RunInv
    <3>2. m \in Nat \ {0} /\ i \in Nat /\ text[c][1] = <<u, o, i>>
      <4>1. text[c] \in Seq(Part)
        BY <1>0 DEF TypeOK
      <4>2. Len(text[c]) \in Nat \ {0} /\ text[c][1] \in Part
        BY <2>1, <4>1
      <4> QED
        BY <3>m, <4>2 DEF Part
    <3>3. ASSUME NEW k \in 1..Placed, order[k] = <<u, o>> PROVE k > e
      <4>1. k > d /\ (k = e => i > j)
        BY <1>e, <3>1, <3>3
      <4>2. k # e
        <5> SUFFICES ASSUME k = e PROVE FALSE
          OBVIOUS
        <5>1. u = t /\ o = n
          BY <1>2, <3>3
        <5>2. Made(u, o) = j
          <6>1. line[t] \in Nat
            BY <1>0, <1>2 DEF TypeOK
          <6>2. n # line[t]
            BY <1>2, <6>1
          <6> QED
            BY <1>0, <5>1, <6>2 DEF Made
        <5>3. i > j /\ i + m - 1 <= j /\ j \in Nat
          BY <1>0, <1>2, <3>1, <4>1, <5>2
        <5> QED
          BY <3>2, <5>3
      <4> QED
        BY <1>0, <1>e, <4>1, <4>2
    <3>4. Made(u, o)' = Made(u, o) /\ At(link[c], u, o, i + m)' = At(link[c], u, o, i + m)
      BY <1>3 DEF Made, At
    <3>5. /\ text'[c][1] = <<u, o, i>> /\ Len(text'[c]) = m /\ i > 0 /\ o <= line'[u]
          /\ i + m - 1 <= Made(u, o)' /\ text'[c] = Run(u, o, i, m)
      BY <1>3, <3>1, <3>2, <3>4, <3>m
    <3>6. /\ i + m - 1 = Made(u, o)' => link'[c] = Nil /\ (o = line'[u] => node'[u].tail = c)
          /\ i + m - 1 < Made(u, o)' => At(link[c], u, o, i + m)'
      BY <1>3, <3>1, <3>4
    <3>7. \A k \in 1..Placed' : order'[k] = <<u, o>> => k > e /\ (k = e + 1 => i > 0)
      BY <1>3, <1>10, <3>1, <3>3
    <3> QED
      BY <3>5, <3>6, <3>7, RunIs
  <2> QED
    BY <1>0, <1>3, <2>1 DEF InvAt, BlockInv
<1>17. InvAt(e, 0)'
  BY <1>8, <1>9, <1>11, <1>12, <1>13, <1>14, <1>15, <1>16 DEF InvAt
<1> QED
  BY <1>1, <1>10, <1>17, <1>e

-----------------------------------------------------------------------------
(* Every step keeps the invariant.                                         *)

\* Then the file is in order.
LEMMA InOrder ==
  ASSUME NEW d, NEW j, InvAt(d, j)
  PROVE  IsPrefix(file \o output, AllLines)
<1>1. order \in Seq(Line) /\ d \in 0..Len(order) /\ j \in Nat
  BY DEF InvAt, TypeOK, RingInv, SinkInv, Placed
<1>2. j > 0 => d < Len(order) /\ j <= Parts[order[d + 1][1]]
  BY DEF InvAt, SinkInv, Placed
<1>3. IsPrefix(TextUpTo(order)[d] \o Run(order[d + 1][1], order[d + 1][2], 1, j),
               TextUpTo(order)[Len(order)])
  BY <1>1, <1>2, WrittenIsPrefix
<1>4. file \o output = TextUpTo(order)[d] \o Run(order[d + 1][1], order[d + 1][2], 1, j)
  BY DEF InvAt, FileInv
<1> QED
  BY <1>3, <1>4 DEF AllLines

\* The numbers of the invariant are within their bounds.
LEMMA InvIs ==
  ASSUME NEW d, NEW j, InvAt(d, j)'
  PROVE  \E e \in 0..Placed', i \in Nat : InvAt(e, i)'
<1>1. d \in 0..Placed' /\ j \in Nat
  BY DEF InvAt, RingInv, SinkInv
<1> QED
  BY <1>1

\* A prefix stays one when the whole grows.
LEMMA PrefixGrows ==
  ASSUME NEW S, NEW s \in Seq(S), NEW t \in Seq(S), NEW u \in Seq(S), IsPrefix(s, t)
  PROVE  IsPrefix(s, t \o u)
<1>1. Len(s) \in Nat /\ Len(t) \in Nat /\ Len(s) <= Len(t) /\ SubSeq(s, 1, Len(s)) = SubSeq(t, 1, Len(s))
  BY LenProperties DEF IsPrefix
<1> DEFINE v == t \o u
<1>2. v \in Seq(S) /\ Len(v) = Len(t) + Len(u) /\ \A k \in 1..Len(t) : v[k] = t[k]
  BY ConcatElements
<1> HIDE DEF v
<1>3. Len(u) \in Nat /\ Len(s) <= Len(v)
  BY <1>1, <1>2, LenProperties
<1>4. SubSeq(v, 1, Len(s)) = SubSeq(t, 1, Len(s))
  BY <1>1, <1>2, <1>3
<1> QED
  BY <1>1, <1>3, <1>4 DEF IsPrefix, v

\* The lines of a longer list.
LEMMA MoreLines ==
  ASSUME NEW s \in Seq(Part), NEW lines \in Seq(Line), NEW x \in Line,
         IsPrefix(s, TextUpTo(lines)[Len(lines)])
  PROVE  IsPrefix(s, TextUpTo(Append(lines, x))[Len(Append(lines, x))])
<1> DEFINE more == Append(lines, x)
           f == TextUpTo(lines)
           g == TextUpTo(more)
<1>1. /\ more \in Seq(Line) /\ Len(lines) \in Nat /\ Len(lines) \in 0..Len(more)
      /\ Len(lines) \in 0..Len(lines)
  BY LenProperties
<1>2. g[Len(lines)] = f[Len(lines)] /\ f[Len(lines)] \in Seq(Part)
  BY <1>1, TextOfMore, TextSteps
<1>3. PICK u \in Seq(Part) : g[Len(more)] = g[Len(lines)] \o u
  <2> HIDE DEF more
  <2> QED
    BY <1>1, TextRest
<1> HIDE DEF g, more
<1>4. IsPrefix(s, f[Len(lines)] \o u)
  BY <1>2, PrefixGrows
<1> QED
  BY <1>2, <1>3, <1>4 DEF g, more

\* raced and short are never reset.
LEMMA HistoryGrows ==
  ASSUME raced \in BOOLEAN, short \in BOOLEAN, [Next]_vars
  PROVE  raced' \in BOOLEAN /\ short' \in BOOLEAN /\ (raced => raced') /\ (short => short')
<1>1. CASE UNCHANGED <<raced, short>>
  BY <1>1
<1>2. CASE Clear
  <2>1. raced' = (raced \/ used[cur]) /\ short' = short
    BY <1>2 DEF Clear
  <2> QED
    BY <2>1, Zenon
<1>3. ASSUME NEW n \in 0..OutputMax, WriteFile(n)
      PROVE  raced' \in BOOLEAN /\ short' \in BOOLEAN /\ (raced => raced') /\ (short => short')
  <2>1. short' = (short \/ n < Len(output)) /\ raced' = raced
    BY <1>3 DEF WriteFile
  <2> QED
    BY <2>1, Zenon
<1>4. CASE \E t \in Threads : Thread(t)
  <2>1. UNCHANGED <<raced, short>>
    BY <1>4 DEF Thread, StartChain, WritePart, Extend, LinkNext, Reserve, BackOff, Place,
                Publish, history
  <2> QED
    BY <1>1, <2>1
<1>5. CASE BeginExit \/ WakesEarly \/ StopSink \/ Join \/ UNCHANGED vars
  <2>1. UNCHANGED <<raced, short>>
    BY <1>5 DEF BeginExit, WakesEarly, StopSink, Join, vars, history
  <2> QED
    BY <1>1, <2>1
<1>6. CASE \/ SinkLoop \/ Take \/ CopyLater \/ Copy \/ EmptySlot \/ Count \/ Idle \/ Sleep
           \/ WaitTimesOut
  <2>1. UNCHANGED <<raced, short>>
    BY <1>6 DEF SinkLoop, Take, CopyLater, Copy, EmptySlot, Count, Idle, Sleep, WaitTimesOut,
                history
  <2> QED
    BY <1>1, <2>1
<1> QED
  BY <1>2, <1>3, <1>4, <1>5, <1>6 DEF Next, Sink

\* A block is taken while it is recycled.
LEMMA RaceBegins ==
  ASSUME NEW d, NEW j, InvAt(d, j), NEW t \in Threads, StartChain(t) \/ Extend(t), Racing'
  PROVE  RacingInv'
<1>1. /\ file' = file /\ output' = output /\ order' = order /\ line' = line
      /\ used' = [used EXCEPT ![Allocated] = TRUE]
  BY DEF StartChain, Extend, Alloc, sinking, ending, history
<1>2. /\ used \in [Blocks -> BOOLEAN] /\ line \in [Threads -> Nat] /\ order \in Seq(Line)
      /\ file \in Seq(Part) /\ output \in Seq(Part)
  BY DEF InvAt, TypeOK
<1>3. used' \in [Blocks -> BOOLEAN]
  BY <1>1, <1>2
<1>4. IsPrefix(file \o output, AllLines)
  BY InOrder
<1>5. IsPrefix(file \o output, AllLines)'
  BY <1>1, <1>4 DEF AllLines
<1>6. LinesInOrder'
  BY <1>5, Zenon DEF LinesInOrder
<1> QED
  BY <1>1, <1>2, <1>3, <1>6 DEF RacingInv

\* Until the sink clears it, the file is as it was.
LEMMA RacingStep ==
  ASSUME RacingInv, raced \in BOOLEAN, short \in BOOLEAN, [Next]_vars
  PROVE  raced' \/ RacingInv'
<1>0. /\ sink = "clear" /\ cur \in Blocks /\ used[cur] /\ LinesInOrder
      /\ used \in [Blocks -> BOOLEAN] /\ line \in [Threads -> Nat] /\ order \in Seq(Line)
      /\ file \in Seq(Part) /\ output \in Seq(Part)
  BY DEF RacingInv, Racing
<1>1. ASSUME file' = file, output' = output, order' = order, raced' = raced, short' = short
      PROVE  LinesInOrder'
  <2>1. AllLines' = AllLines
    BY <1>1 DEF AllLines
  <2> QED
    BY <1>0, <1>1, <2>1, Zenon DEF LinesInOrder
<1>2. CASE Sink
  <2>1. Clear
    BY <1>0, <1>2 DEF Sink, Sinks, SinkLoop, Take, CopyLater, Copy, EmptySlot, Count, Idle, Sleep,
                      WaitTimesOut, WriteFile
  <2>2. raced' = (raced \/ used[cur])
    BY <2>1 DEF Clear
  <2>3. raced'
    BY <1>0, <2>2, Zenon
  <2> QED
    BY <2>3
<1>3. CASE BeginExit \/ WakesEarly \/ StopSink \/ Join \/ UNCHANGED vars
  <2>1. /\ sink' = sink /\ cur' = cur /\ used' = used /\ line' = line /\ order' = order
        /\ file' = file /\ output' = output /\ raced' = raced /\ short' = short
    BY <1>0, <1>3 DEF BeginExit, WakesEarly, StopSink, Join, Notified, vars, blocks, thread, sinking, ending, history
  <2> QED
    BY <1>0, <1>1, <2>1 DEF RacingInv, Racing
<1>4. ASSUME NEW t \in Threads, Thread(t) PROVE RacingInv'
  <2>1. /\ sink' = sink /\ cur' = cur /\ file' = file /\ output' = output
        /\ raced' = raced /\ short' = short
    BY <1>0, <1>4 DEF Thread, StartChain, WritePart, Extend, LinkNext, Reserve, BackOff, Place,
                      Publish, Notified, sinking, ending, history
  <2>2. used' = used \/ used' = [used EXCEPT ![Allocated] = TRUE]
    BY <1>4 DEF Thread, StartChain, WritePart, Extend, LinkNext, Reserve, BackOff, Place,
                Publish, Alloc, blocks
  <2>3. used' \in [Blocks -> BOOLEAN] /\ used'[cur]
    BY <1>0, <2>2
  <2>4. line' = line \/ line' = [line EXCEPT ![t] = line[t] + 1]
    BY <1>4 DEF Thread, StartChain, WritePart, Extend, LinkNext, Reserve, BackOff, Place, Publish
  <2>5. line' \in [Threads -> Nat]
    <3>1. line[t] + 1 \in Nat
      BY <1>0
    <3> QED
      BY <1>0, <2>4, <3>1
  <2>6. order' = order \/ order' = Append(order, <<t, line[t]>>)
    BY <1>4 DEF Thread, StartChain, WritePart, Extend, LinkNext, Reserve, BackOff, Place, Publish,
                history
  <2>7. <<t, line[t]>> \in Line
    BY <1>0 DEF Line
  <2>8. order' \in Seq(Line)
    <3>1. PICK x \in Line : x = <<t, line[t]>>
      BY <2>7
    <3>2. Append(order, x) \in Seq(Line)
      BY <1>0
    <3> QED
      BY <1>0, <2>6, <3>1, <3>2
  <2>9. LinesInOrder'
    <3>1. CASE order' = order
      BY <1>1, <2>1, <3>1
    <3>2. CASE order' = Append(order, <<t, line[t]>>)
      <4>1. file \o output \in Seq(Part)
        BY <1>0, ConcatElements
      <4>2. PICK s, x : s = file \o output /\ x = <<t, line[t]>>
        OBVIOUS
      <4>3. IsPrefix(s, AllLines) =>
              IsPrefix(s, TextUpTo(Append(order, x))[Len(Append(order, x))])
        BY <1>0, <2>7, <4>1, <4>2, MoreLines DEF AllLines
      <4>4. IsPrefix(file \o output, AllLines) => IsPrefix(file' \o output', AllLines')
        BY <2>1, <3>2, <4>2, <4>3 DEF AllLines
      <4> QED
        BY <1>0, <2>1, <4>4, Zenon DEF LinesInOrder
    <3> QED
      BY <2>6, <3>1, <3>2
  <2> QED
    BY <1>0, <2>1, <2>3, <2>5, <2>8, <2>9 DEF RacingInv, Racing
<1> QED
  BY <1>2, <1>3, <1>4 DEF Next

\* A thread's step.
LEMMA ThreadKeeps ==
  ASSUME NEW d, NEW j, InvAt(d, j), NEW t \in Threads, Thread(t)
  PROVE  InvAt(d, j)' \/ RacingInv'
<1>1. CASE StartChain(t)
  BY <1>1, StartKeeps, RaceBegins
<1>2. CASE Extend(t)
  BY <1>2, ExtendKeeps, RaceBegins
<1>3. CASE WritePart(t)
  BY <1>3, PartKeeps
<1>4. CASE LinkNext(t)
  BY <1>4, LinkKeeps
<1>5. CASE Reserve(t) \/ BackOff(t)
  BY <1>5, RoomKeeps
<1>6. CASE Place(t)
  BY <1>6, PlaceKeeps
<1>7. CASE Publish(t)
  BY <1>7, PublishKeeps
<1> QED
  BY <1>1, <1>2, <1>3, <1>4, <1>5, <1>6, <1>7 DEF Thread

\* A step of the sink.
LEMMA SinkKeeps ==
  ASSUME NEW d, NEW j, InvAt(d, j), Sink, ~short'
  PROVE  \E e, i : InvAt(e, i)'
<1>1. CASE SinkLoop \/ Idle \/ Sleep \/ WaitTimesOut
  BY <1>1, SinkRests
<1>2. CASE Take
  BY <1>2, TakeKeeps
<1>3. CASE CopyLater
  BY <1>3, LaterKeeps
<1>4. CASE Copy
  BY <1>4, CopyKeeps
<1>5. CASE Clear
  BY <1>5, ClearKeeps
<1>6. CASE EmptySlot
  BY <1>6, EmptyKeeps
<1>7. CASE Count
  BY <1>7, CountKeeps
<1>8. ASSUME NEW n \in 0..OutputMax, WriteFile(n) PROVE \E e, i : InvAt(e, i)'
  BY <1>8, WriteKeeps
<1> QED
  BY <1>1, <1>2, <1>3, <1>4, <1>5, <1>6, <1>7, <1>8 DEF Sink

\* Every step keeps the invariant.
LEMMA InvKept == Inv /\ [Next]_vars => Inv'
<1> SUFFICES ASSUME Inv, [Next]_vars PROVE Inv'
  OBVIOUS
<1>0. raced \in BOOLEAN /\ short \in BOOLEAN
  BY DEF Inv
<1>1. raced' \in BOOLEAN /\ short' \in BOOLEAN /\ (raced => raced') /\ (short => short')
  BY <1>0, HistoryGrows
<1>2. CASE raced \/ short
  BY <1>1, <1>2, Zenon DEF Inv
<1>3. CASE RacingInv
  <2>1. raced' \/ RacingInv'
    BY <1>0, <1>3, RacingStep
  <2> QED
    BY <1>1, <2>1, Zenon DEF Inv
<1>4. ASSUME NEW d \in 0..Placed, NEW j \in Nat, InvAt(d, j) PROVE Inv'
  <2>1. short' \/ RacingInv' \/ \E e, i : InvAt(e, i)'
    <3>1. CASE \E t \in Threads : Thread(t)
      BY <1>4, <3>1, ThreadKeeps, Zenon
    <3>2. CASE Sink
      BY <1>4, <3>2, SinkKeeps, Zenon
    <3>3. CASE BeginExit \/ WakesEarly \/ StopSink \/ Join
      BY <1>4, <3>3, ExitKeeps, Zenon
    <3>4. CASE UNCHANGED vars
      <4>1. /\ UNCHANGED <<buffer, blocks, thread, order, rest>> /\ sink' = sink /\ cur' = cur
            /\ output' = output /\ file' = file
        BY <3>4 DEF vars, sinking, ending, history
      <4>2. output' \in Seq(Part) /\ file' \in Seq(Part)
        BY <1>4, <4>1 DEF InvAt, TypeOK
      <4>3. InvAt(d, j)'
        BY <1>4, <4>1, <4>2, Quiet
      <4> QED
        BY <4>3
    <3> QED
      BY <3>1, <3>2, <3>3, <3>4 DEF Next
  <2>2. (\E e, i : InvAt(e, i)') => \E e \in 0..Placed', i \in Nat : InvAt(e, i)'
    BY InvIs
  <2> QED
    BY <1>1, <2>1, <2>2, Zenon DEF Inv
<1> QED
  BY <1>2, <1>3, <1>4, Zenon DEF Inv

\* The invariant holds at first.
LEMMA InvInit == Init => Inv
<1> SUFFICES ASSUME Init PROVE Inv
  OBVIOUS
<1>1. /\ queueSize = 0 /\ producePos = 0 /\ consumePos = 1
      /\ slots = [i \in 0..(ListMax - 1) |-> Nil] /\ next = 0
      /\ used = [b \in Blocks |-> FALSE]
      /\ text = [b \in Blocks |-> <<>>] /\ link = [b \in Blocks |-> Nil]
      /\ pc = [t \in Threads |-> "append"]
      /\ line = [t \in Threads |-> 1] /\ part = [t \in Threads |-> 1]
      /\ node = [t \in Threads |-> [head |-> Nil, tail |-> Nil]]
      /\ spare = [t \in Threads |-> Nil]
      /\ sink = "loop" /\ cur = Nil /\ rest = Nil /\ output = <<>> /\ file = <<>> /\ order = <<>>
      /\ raced = FALSE /\ short = FALSE
  BY DEF Init
<1>2. Placed = 0 /\ <<>> \in Seq(Part) /\ order \in Seq(Line)
  BY <1>1 DEF Placed
<1>3. TypeOK
  <2>1. Nil \in Nat /\ 1 \in Nat \ {0} /\ 0 \in Nat
    BY DEF Nil
  <2>2. /\ slots \in [Slots -> Refs] /\ used \in [Blocks -> BOOLEAN] /\ link \in [Blocks -> Refs]
        /\ text \in [Blocks -> Seq(Part)] /\ node \in [Threads -> [head : Refs, tail : Refs]]
    BY <1>1, <1>2, Sizes DEF Slots
  <2>3. /\ pc \in [Threads -> {"append", "link", "finish", "backoff", "place", "publish"}]
        /\ line \in [Threads -> Nat] /\ part \in [Threads -> Nat \ {0}] /\ spare \in [Threads -> Nat]
    BY <1>1, <2>1
  <2> QED
    BY <1>1, <1>2, <2>1, <2>2, <2>3, Sizes DEF TypeOK
<1>4. DisjointInv
  BY <1>1 DEF DisjointInv
<1>5. ThreadInv
  <2>1. ASSUME NEW t \in Threads PROVE NodeInv(t) /\ Fresh(t) = Nil
    <3>1. pc[t] = "append" /\ part[t] = 1 /\ node[t].head = Nil /\ node[t].tail = Nil
      BY <1>1
    <3>2. Parts[t] \in Nat \ {0}
      BY Sizes
    <3>3. 1 <= Parts[t] /\ ~(1 > 1)
      BY <3>2
    <3> QED
      BY <3>1, <3>3 DEF NodeInv, Fresh
  <2> QED
    BY <2>1 DEF ThreadInv
<1>6. RingInv(0)
  <2>1. Those("backoff") = {} /\ Those("place") = {}
    BY <1>1 DEF Those
  <2>2. Cardinality({}) = 0
    BY FS_EmptySet
  <2>3. ListMax \in Nat /\ ListMax > 1 /\ 0 \in Slots /\ 1 \in Slots
    BY Sizes DEF Slots
  <2>4. 0 % ListMax = 0 /\ 1 % ListMax = 1
    <3>1. 0 \in Nat /\ 1 \in Nat /\ 0 = ListMax * 0 + 0 /\ 1 = ListMax * 0 + 1
      BY <2>3
    <3> QED
      BY <2>3, <3>1, Remainder
  <2>5. 0 + 1 = 1 /\ 0 + 0 + (0 - 0) + 0 = 0 /\ 0 + (0 - 0) < ListMax /\ 0 \in 0..0
    BY <2>3
  <2> QED
    BY <1>1, <1>2, <2>1, <2>2, <2>4, <2>5 DEF RingInv
<1>7. OrderInv(0)
  BY <1>1, <1>2 DEF OrderInv
<1>8. SlotInv(0, 0)
  BY <1>1, <1>2 DEF SlotInv, Slots
<1>9. SinkInv(0, 0)
  BY <1>1 DEF SinkInv, Busy
<1>10. FileInv(0, 0)
  <2>1. TextUpTo(order)[0] = <<>>
    BY <1>2, TextSteps
  <2>2. <<>> \o <<>> = <<>>
    OBVIOUS
  <2> QED
    BY <1>1, <2>1, <2>2, EmptyRun DEF FileInv
<1>11. BlockInv(0, 0)
  BY <1>1 DEF BlockInv
<1>12. InvAt(0, 0)
  BY <1>3, <1>4, <1>5, <1>6, <1>7, <1>8, <1>9, <1>10, <1>11 DEF InvAt
<1>13. \E d \in 0..Placed, j \in Nat : InvAt(d, j)
  <2>1. 0 \in 0..Placed /\ 0 \in Nat
    BY <1>2
  <2> QED
    BY <1>12, <2>1
<1> QED
  BY <1>1, <1>13, Zenon DEF Inv

\* The invariant says that the file is in order.
LEMMA InvOrder == Inv => LinesInOrder
<1> SUFFICES ASSUME Inv PROVE LinesInOrder
  OBVIOUS
<1>1. CASE raced \/ short
  BY <1>1, Zenon DEF LinesInOrder
<1>2. CASE RacingInv
  BY <1>2 DEF RacingInv
<1>3. ASSUME NEW d, NEW j, InvAt(d, j) PROVE LinesInOrder
  <2>1. IsPrefix(file \o output, AllLines)
    BY <1>3, InOrder
  <2> QED
    BY <2>1, Zenon DEF LinesInOrder
<1> QED
  BY <1>1, <1>2, <1>3, Zenon DEF Inv

\* Whatever threads log and however the sink and they interleave, the file and
\* the output begin the text of all lines in the order of their slots, until a
\* block is taken again between the two halves of recycle() (logging.cpp) or the
\* file takes less than it is given.
THEOREM LinesStayInOrder == Spec => []LinesInOrder
<1>1. Init => Inv
  BY InvInit
<1>2. Inv /\ [Next]_vars => Inv'
  BY InvKept
<1>3. Inv => LinesInOrder
  BY InvOrder
<1> QED
  BY <1>1, <1>2, <1>3, PTL DEF Spec

-----------------------------------------------------------------------------
(* ~Logging waits for the lines that were logged before it.                *)

Listed == ToSet(order)

(* A line has a slot from the moment its thread fills it, and so have the  *)
(* lines that ~Logging waits for; when the sink finds nothing to read it   *)
(* has written what it read.                                               *)
LoggedInv ==
    /\ pc \in [Threads -> {"append", "link", "finish", "backoff", "place", "publish"}]
    /\ line \in [Threads -> Nat] /\ order \in Seq(Line)
    /\ \A t \in Threads : \A n \in 1..line[t] :
         n < line[t] \/ pc[t] = "publish" => <<t, n>> \in Listed
    /\ before \subseteq Listed
    /\ threadSync \in BOOLEAN
    /\ sink \in {"idle", "lock"} => output = <<>>

(* What the sink tells ~Logging: the lines are in the file when it is      *)
(* about to sleep, unless ~Logging asked for another round meanwhile.      *)
FlushInv ==
    \/ raced \/ short \/ early
    \/ /\ sink = "lock" /\ destructor = "waits" /\ ~threadSync => Flushed
       /\ destructor \in {"woken", "joins", "done"} => Flushed

\* What the element of a longer list is.
LEMMA ListedGrows ==
  ASSUME NEW lines \in Seq(Line), NEW x \in Line
  PROVE  /\ Append(lines, x) \in Seq(Line)
         /\ ToSet(lines) \subseteq ToSet(Append(lines, x))
         /\ x \in ToSet(Append(lines, x))
<1> DEFINE more == Append(lines, x)
<1>1. /\ more \in Seq(Line) /\ Len(lines) \in Nat /\ Len(more) = Len(lines) + 1
      /\ DOMAIN lines = 1..Len(lines) /\ DOMAIN more = 1..Len(more)
      /\ more[Len(lines) + 1] = x /\ \A k \in 1..Len(lines) : more[k] = lines[k]
  BY LenProperties
<1> HIDE DEF more
<1>2. DOMAIN lines \subseteq DOMAIN more /\ Len(lines) + 1 \in DOMAIN more
  BY <1>1
<1>3. ToSet(lines) \subseteq ToSet(more) /\ x \in ToSet(more)
  BY <1>1, <1>2 DEF ToSet
<1> QED
  BY <1>1, <1>3 DEF more

\* A thread's step keeps the slots of the lines.
LEMMA ThreadLogged ==
  ASSUME LoggedInv, NEW t \in Threads, Thread(t)
  PROVE  LoggedInv'
<1>0. /\ pc \in [Threads -> {"append", "link", "finish", "backoff", "place", "publish"}]
      /\ line \in [Threads -> Nat] /\ order \in Seq(Line)
      /\ \A u \in Threads : \A n \in 1..line[u] :
           n < line[u] \/ pc[u] = "publish" => <<u, n>> \in Listed
      /\ before \subseteq Listed /\ threadSync \in BOOLEAN
      /\ sink \in {"idle", "lock"} => output = <<>>
  BY DEF LoggedInv
<1>1. /\ before' = before /\ threadSync' = threadSync /\ output' = output
      /\ sink' = sink \/ sink' = "loop"
  BY DEF Thread, StartChain, WritePart, Extend, LinkNext, Reserve, BackOff, Place, Publish,
         Notified, sinking, ending, history
<1>2. ASSUME order' = order, line' = line, NEW q \in {"append", "link", "finish", "backoff", "place"},
             pc' = [pc EXCEPT ![t] = q]
      PROVE  LoggedInv'
  <2>1. Listed' = Listed
    BY <1>2 DEF Listed
  <2>2. pc' \in [Threads -> {"append", "link", "finish", "backoff", "place", "publish"}]
    BY <1>0, <1>2
  <2>3. \A u \in Threads : pc'[u] = "publish" => pc[u] = "publish"
    BY <1>0, <1>2
  <2> HIDE DEF Listed
  <2>4. ASSUME NEW u \in Threads, NEW n \in 1..line'[u], n < line'[u] \/ pc'[u] = "publish"
        PROVE  <<u, n>> \in Listed'
    BY <1>0, <1>2, <2>1, <2>3, <2>4
  <2> QED
    BY <1>0, <1>1, <1>2, <2>1, <2>2, <2>4 DEF LoggedInv
<1>3. CASE StartChain(t)
  <2>1. order' = order /\ line' = line /\ pc' = pc /\ pc[t] = "append"
    BY <1>3 DEF StartChain, Logs, history
  <2>2. pc' = [pc EXCEPT ![t] = "append"]
    BY <1>0, <2>1
  <2> QED
    BY <1>2, <2>1, <2>2
<1>4. CASE WritePart(t) \/ LinkNext(t)
  <2>1. /\ order' = order /\ line' = line
        /\ pc' = [pc EXCEPT ![t] = IF part[t] = Parts[t] THEN "finish" ELSE "append"]
    BY <1>4 DEF WritePart, LinkNext, NextPart, history
  <2> QED
    BY <1>2, <2>1
<1>5. CASE Extend(t) \/ Reserve(t) \/ BackOff(t)
  <2>1. /\ order' = order /\ line' = line
        /\ \E q \in {"append", "link", "finish", "backoff", "place"} : pc' = [pc EXCEPT ![t] = q]
    BY <1>5 DEF Extend, Reserve, BackOff, history
  <2> QED
    BY <1>2, <2>1
<1>6. CASE Place(t)
  <2>1. /\ order' = Append(order, <<t, line[t]>>) /\ line' = line
        /\ pc' = [pc EXCEPT ![t] = "publish"]
    BY <1>6 DEF Place
  <2>2. <<t, line[t]>> \in Line
    BY <1>0 DEF Line
  <2>3. order' \in Seq(Line) /\ Listed \subseteq Listed' /\ <<t, line[t]>> \in Listed'
    <3>1. PICK x \in Line : x = <<t, line[t]>>
      BY <2>2
    <3> QED
      BY <1>0, <2>1, <3>1, ListedGrows DEF Listed
  <2>4. pc' \in [Threads -> {"append", "link", "finish", "backoff", "place", "publish"}]
    BY <1>0, <2>1
  <2> HIDE DEF Listed
  <2>5. ASSUME NEW u \in Threads, NEW n \in 1..line'[u], n < line'[u] \/ pc'[u] = "publish"
        PROVE  <<u, n>> \in Listed'
    <3>1. line[u] \in Nat
      BY <1>0
    <3>2. CASE u = t /\ n = line[t]
      BY <2>3, <3>2
    <3>3. CASE n < line[u]
      BY <1>0, <2>1, <2>3, <2>5, <3>3
    <3>4. CASE u # t /\ pc'[u] = "publish"
      <4>1. pc[u] = "publish"
        BY <1>0, <2>1, <3>4
      <4> QED
        BY <1>0, <2>1, <2>3, <2>5, <4>1
    <3>5. n < line[u] \/ n = line[u]
      BY <2>1, <2>5, <3>1
    <3> QED
      BY <2>1, <2>5, <3>2, <3>3, <3>4, <3>5
  <2> QED
    BY <1>0, <1>1, <2>1, <2>3, <2>4, <2>5 DEF LoggedInv
<1>7. CASE Publish(t)
  <2>1. /\ order' = order /\ line' = [line EXCEPT ![t] = line[t] + 1]
        /\ pc' = [pc EXCEPT ![t] = "append"] /\ pc[t] = "publish"
    BY <1>7 DEF Publish, Logs, history
  <2>2. Listed' = Listed
    BY <2>1 DEF Listed
  <2>3. line[t] + 1 \in Nat
    BY <1>0
  <2>4. /\ pc' \in [Threads -> {"append", "link", "finish", "backoff", "place", "publish"}]
        /\ line' \in [Threads -> Nat]
    BY <1>0, <2>1, <2>3
  <2> HIDE DEF Listed
  <2>5. ASSUME NEW u \in Threads, NEW n \in 1..line'[u], n < line'[u] \/ pc'[u] = "publish"
        PROVE  <<u, n>> \in Listed'
    <3>1. CASE u = t
      <4>1. line'[u] = line[t] + 1 /\ pc'[u] = "append" /\ line[t] \in Nat
        BY <1>0, <2>1, <3>1
      <4>2. n \in 1..line[t]
        BY <2>5, <4>1
      <4> QED
        BY <1>0, <2>1, <2>2, <3>1, <4>2
    <3>2. CASE u # t
      <4>1. line'[u] = line[u] /\ pc'[u] = pc[u]
        BY <1>0, <2>1, <3>2
      <4> QED
        BY <1>0, <2>2, <2>5, <4>1
    <3> QED
      BY <3>1, <3>2
  <2> QED
    BY <1>0, <1>1, <2>1, <2>2, <2>4, <2>5 DEF LoggedInv
<1> QED
  BY <1>3, <1>4, <1>5, <1>6, <1>7 DEF Thread

\* So does every other step, and ~Logging waits for lines that have a slot.
LEMMA LoggedKept == LoggedInv /\ [Next]_vars => LoggedInv'
<1> SUFFICES ASSUME LoggedInv, [Next]_vars PROVE LoggedInv'
  OBVIOUS
<1>0. /\ line \in [Threads -> Nat]
      /\ \A u \in Threads : \A n \in 1..line[u] :
           n < line[u] \/ pc[u] = "publish" => <<u, n>> \in Listed
      /\ before \subseteq Listed /\ threadSync \in BOOLEAN
      /\ sink \in {"idle", "lock"} => output = <<>>
  BY DEF LoggedInv
<1>1. CASE \E t \in Threads : Thread(t)
  BY <1>1, ThreadLogged
<1>2. CASE Sink \/ BeginExit \/ WakesEarly \/ StopSink \/ Join \/ UNCHANGED vars
  <2>1. pc' = pc /\ line' = line /\ order' = order
    BY <1>2 DEF Sink, SinkLoop, Take, CopyLater, Copy, Clear, EmptySlot, Count, Idle, Sleep,
                WaitTimesOut, WriteFile, BeginExit, WakesEarly, StopSink, Join, vars, thread, history
  <2>2. Listed' = Listed
    BY <2>1 DEF Listed
  <2> HIDE DEF Listed
  <2>3. before' \subseteq Listed
    <3>1. CASE BeginExit
      <4>1. Logged \subseteq Listed
        <5>1. ASSUME NEW t \in Threads, NEW n \in 1..(line[t] - 1) PROVE <<t, n>> \in Listed
          <6>1. line[t] \in Nat
            BY <1>0
          <6>2. n \in 1..line[t] /\ n < line[t]
            BY <6>1
          <6> QED
            BY <1>0, <6>2
        <5> QED
          BY <5>1 DEF Logged
      <4> QED
        BY <3>1, <4>1 DEF BeginExit
    <3>2. CASE ~BeginExit
      BY <1>0, <1>2, <3>2
      DEF Sink, SinkLoop, Take, CopyLater, Copy, Clear, EmptySlot, Count, Idle, Sleep,
          WaitTimesOut, WriteFile, WakesEarly, StopSink, Join, vars, history
    <3> QED
      BY <3>1, <3>2
  <2>4. threadSync' \in BOOLEAN
    BY <1>0, <1>2
    DEF Sink, SinkLoop, Take, CopyLater, Copy, Clear, EmptySlot, Count, Idle, Sleep,
        WaitTimesOut, WriteFile, BeginExit, WakesEarly, StopSink, Join, vars, ending
  <2>5. sink' \in {"idle", "lock"} => output' = <<>>
    BY <1>0, <1>2
    DEF Sink, Sinks, SinkLoop, Take, Consumed, CopyLater, Copy, Clear, GoOn, EmptySlot, Count,
        Idle, Sleep, WaitTimesOut, WriteFile, BeginExit, WakesEarly, StopSink, Join, Notified, vars, sinking
  <2> QED
    BY <2>1, <2>2, <2>3, <2>4, <2>5 DEF LoggedInv
<1> QED
  BY <1>1, <1>2 DEF Next

\* The text of all lines holds every part of each of them.
LEMMA TextHasLine ==
  ASSUME NEW lines \in Seq(Line), NEW k \in 1..Len(lines), NEW i \in 1..Parts[lines[k][1]]
  PROVE  Contains(TextUpTo(lines)[Len(lines)], <<lines[k][1], lines[k][2], i>>)
<1> DEFINE f == TextUpTo(lines)
           t == lines[k][1]
           n == lines[k][2]
           r == Run(t, n, 1, Parts[t])
<1>1. t \in Threads /\ n \in Nat /\ Parts[t] \in Nat \ {0} /\ Len(lines) \in Nat
  BY LineText, LenProperties
<1>2. r \in Seq(Part) /\ Len(r) = Parts[t] /\ r[i] = <<t, n, i>>
  <2>1. 1 \in Nat \ {0} /\ Parts[t] \in Nat /\ 1 + i - 1 = i
    BY <1>1
  <2>2. r \in Seq(Part) /\ Len(r) = Parts[t]
    <3>1. \A x \in Threads, m \in Nat, p \in Nat :
            Run(x, m, 1, p) \in Seq(Part) /\ Len(Run(x, m, 1, p)) = p
      BY <2>1, RunType
    <3> QED
      BY <1>1, <2>1, <3>1
  <2> QED
    BY <2>1, <2>2 DEF Run
<1>3. k \in 0..Len(lines) /\ k - 1 \in 0..Len(lines) /\ Len(lines) \in 0..Len(lines)
  BY <1>1
<1>4. f[k - 1] \in Seq(Part) /\ f[k] \in Seq(Part) /\ f[k] = f[k - 1] \o r
  BY <1>3, TextSteps
<1>5. PICK u \in Seq(Part) : f[Len(lines)] = f[k] \o u
  BY <1>3, TextRest
<1> HIDE DEF f, r
<1>6. /\ Len(f[k]) = Len(f[k - 1]) + Len(r) /\ f[k][Len(f[k - 1]) + i] = r[i]
      /\ Len(f[k - 1]) \in Nat
  <2>1. i \in 1..Len(r)
    BY <1>2
  <2>2. /\ Len(f[k - 1] \o r) = Len(f[k - 1]) + Len(r)
        /\ (f[k - 1] \o r)[Len(f[k - 1]) + i] = r[i]
    BY <1>2, <1>4, <2>1, ConcatElements
  <2> QED
    BY <1>4, <2>2, LenProperties
<1>7. /\ Len(f[Len(lines)]) = Len(f[k]) + Len(u) /\ Len(u) \in Nat
      /\ \A m \in 1..Len(f[k]) : f[Len(lines)][m] = f[k][m]
  BY <1>4, <1>5, ConcatElements, LenProperties
<1>8. Len(f[k - 1]) + i \in 1..Len(f[k]) /\ Len(f[k - 1]) + i \in 1..Len(f[Len(lines)])
  <2>1. PICK a, b, c, m \in Nat : a = Len(f[k - 1]) /\ b = Len(f[k]) /\ c = Len(u) /\ m = Parts[t]
    BY <1>1, <1>6, <1>7, <1>4, LenProperties
  <2>2. b = a + m /\ i \in 1..m /\ Len(f[Len(lines)]) = b + c
    BY <1>2, <1>6, <1>7, <2>1
  <2>3. \A x \in 1..m : a + x \in 1..(a + m) /\ a + x \in 1..((a + m) + c)
    OBVIOUS
  <2> QED
    BY <2>1, <2>2, <2>3
<1>9. f[Len(lines)][Len(f[k - 1]) + i] = <<t, n, i>>
  BY <1>2, <1>6, <1>7, <1>8
<1> QED
  BY <1>8, <1>9 DEF Contains, f

\* When the counter is 0 and nothing waits to be written, every line that has a
\* slot is in the file.
LEMMA EmptyIsFlushed ==
  ASSUME NEW d, NEW j, InvAt(d, j), LoggedInv, sink = "idle", queueSize = 0
  PROVE  Flushed
<1>0. /\ Placed \in Nat /\ d \in Nat /\ d <= Placed /\ j \in Nat /\ order \in Seq(Line)
      /\ \A p : Cardinality(Those(p)) \in Nat
  BY Facts DEF LoggedInv
<1>1. d = Placed
  <2>1. 0 = Cardinality(Those("backoff")) + Cardinality(Those("place")) + (Placed - d) + 0
    BY DEF InvAt, RingInv
  <2>2. Cardinality(Those("backoff")) \in Nat /\ Cardinality(Those("place")) \in Nat
    BY <1>0
  <2> QED
    BY <1>0, <2>1, <2>2
<1>2. j = 0
  <2>1. j > 0 => d < Placed
    BY DEF InvAt, SinkInv
  <2> QED
    BY <1>0, <1>1, <2>1
<1>3. file = TextUpTo(order)[Len(order)]
  <2>1. file \o output = TextUpTo(order)[d] \o Run(order[d + 1][1], order[d + 1][2], 1, j)
    BY DEF InvAt, FileInv
  <2>2. output = <<>> /\ Run(order[d + 1][1], order[d + 1][2], 1, j) = <<>>
    BY <1>2, EmptyRun DEF LoggedInv
  <2>3. file \in Seq(Part) /\ TextUpTo(order)[Len(order)] \in Seq(Part)
    <3>1. Len(order) \in 0..Len(order)
      BY <1>0 DEF Placed
    <3> QED
      BY <1>0, <3>1, TextSteps DEF InvAt, TypeOK
  <2>4. \A s \in Seq(Part) : s \o <<>> = s
    OBVIOUS
  <2> QED
    BY <1>1, <2>1, <2>2, <2>3, <2>4 DEF Placed
<1>4. ASSUME NEW l \in before, NEW i \in 1..Parts[l[1]]
      PROVE  Contains(file, <<l[1], l[2], i>>)
  <2>1. l \in ToSet(order)
    BY <1>4 DEF LoggedInv, Listed
  <2>2. PICK k \in 1..Len(order) : l = order[k]
    BY <1>0, <2>1 DEF ToSet
  <2> QED
    BY <1>0, <1>3, <1>4, <2>2, TextHasLine
<1> QED
  BY <1>4 DEF Flushed

\* What is in the file stays there.
LEMMA FlushedStays ==
  ASSUME Flushed, before' = before, file \in Seq(Part),
         file' = file \/ \E u \in Seq(Part) : file' = file \o u
  PROVE  Flushed'
<1>1. ASSUME NEW p, Contains(file, p) PROVE Contains(file', p)
  <2>1. CASE file' = file
    BY <1>1, <2>1
  <2>2. ASSUME NEW u \in Seq(Part), file' = file \o u PROVE Contains(file', p)
    <3>1. /\ Len(file') = Len(file) + Len(u) /\ Len(file) \in Nat /\ Len(u) \in Nat
          /\ \A k \in 1..Len(file) : file'[k] = file[k]
      BY <2>2, ConcatElements, LenProperties
    <3>2. 1..Len(file) \subseteq 1..Len(file')
      BY <3>1
    <3> QED
      BY <1>1, <3>1, <3>2 DEF Contains
  <2> QED
    BY <2>1, <2>2
<1> HIDE DEF Contains
<1> QED
  BY <1>1 DEF Flushed

\* Every step keeps what ~Logging relies on.
LEMMA FlushKept == Inv /\ LoggedInv /\ FlushInv /\ [Next]_vars => FlushInv'
<1> SUFFICES ASSUME Inv, LoggedInv, FlushInv, [Next]_vars, ~raced', ~short', ~early'
             PROVE  FlushInv'
  BY Zenon DEF FlushInv
<1>0. ~raced /\ ~short /\ ~early /\ ~WakesEarly
  <2>1. ~raced /\ ~short
    BY HistoryGrows DEF Inv
  <2>2. early' = early \/ WakesEarly
    BY DEF Next, Thread, StartChain, WritePart, Extend, LinkNext, Reserve, BackOff, Place, Publish,
           Sink, SinkLoop, Take, CopyLater, Copy, Clear, EmptySlot, Count, Idle, Sleep,
           WaitTimesOut, WriteFile, BeginExit, StopSink, Join, vars, history
  <2>3. WakesEarly => early'
    BY DEF WakesEarly
  <2> QED
    BY <2>1, <2>2, <2>3
<1>1. /\ sink = "lock" /\ destructor = "waits" /\ ~threadSync => Flushed
      /\ destructor \in {"woken", "joins", "done"} => Flushed
  BY <1>0, Zenon DEF FlushInv
<1>2. file \in Seq(Part) /\ output \in Seq(Part)
  <2>1. RacingInv \/ \E d \in 0..Placed, j \in Nat : InvAt(d, j)
    BY <1>0, Zenon DEF Inv
  <2> QED
    BY <2>1 DEF RacingInv, InvAt, TypeOK
<1>3. file' = file \/ \E u \in Seq(Part) : file' = file \o u
  <2>1. ASSUME NEW n \in 0..OutputMax, WriteFile(n)
        PROVE  \E u \in Seq(Part) : file' = file \o u
    <3>1. n \in 0..Len(output) /\ Len(output) \in Nat
      BY <1>2, <2>1, LenProperties, LogAssumption DEF WriteFile
    <3>2. SubSeq(output, 1, n) \in Seq(Part)
      BY <1>2, <3>1
    <3> QED
      BY <2>1, <3>2 DEF WriteFile
  <2>2. CASE ~ \E n \in 0..OutputMax : WriteFile(n)
    BY <2>2
    DEF Next, Thread, StartChain, WritePart, Extend, LinkNext, Reserve, BackOff, Place, Publish,
        Sink, SinkLoop, Take, CopyLater, Copy, Clear, EmptySlot, Count, Idle, Sleep,
        WaitTimesOut, BeginExit, WakesEarly, StopSink, Join, vars, ending
  <2> QED
    BY <2>1, <2>2
<1> DEFINE Told == /\ sink' = "lock" /\ destructor' = "waits" /\ ~threadSync' => Flushed'
                   /\ destructor' \in {"woken", "joins", "done"} => Flushed'
<1>4. CASE BeginExit
  <2>1. threadSync' /\ destructor' = "waits"
    BY <1>4 DEF BeginExit
  <2> QED
    BY <2>1, Zenon DEF FlushInv
<1>5. CASE Idle
  <2>1. destructor' = destructor /\ before' = before /\ file' = file /\ sink = "idle"
    BY <1>5 DEF Idle, Sinks, ending, history
  <2>2. sink' = "lock" => Flushed
    <3>1. PICK d \in 0..Placed, j \in Nat : InvAt(d, j)
      <4>1. ~RacingInv
        BY <2>1 DEF RacingInv, Racing
      <4> QED
        BY <1>0, <4>1, Zenon DEF Inv
    <3>2. sink' = "lock" => ~(queueSize > 0)
      BY <1>5 DEF Idle
    <3>3. queueSize \in Nat
      BY <3>1, Facts
    <3>4. sink' = "lock" => queueSize = 0
      BY <3>2, <3>3
    <3> QED
      BY <2>1, <3>1, <3>4, EmptyIsFlushed
  <2>3. Flushed => Flushed'
    BY <1>2, <2>1, FlushedStays
  <2>4. Told
    BY <1>1, <2>1, <2>2, <2>3
  <2> QED
    BY <2>4, Zenon DEF FlushInv
<1>6. CASE Sleep
  <2>1. before' = before /\ sink = "lock" /\ sink' # "lock"
    BY <1>6 DEF Sleep, Sinks, history
  <2>2. \/ destructor' = destructor
        \/ ~threadSync /\ destructor = "waits" /\ destructor' = "woken"
    BY <1>6 DEF Sleep
  <2>3. Flushed => Flushed'
    BY <1>2, <1>3, <2>1, FlushedStays
  <2>4. Told
    BY <1>1, <2>1, <2>2, <2>3
  <2> QED
    BY <2>4, Zenon DEF FlushInv
<1>7. CASE ~BeginExit /\ ~Idle /\ ~Sleep
  <2>1. before' = before
    BY <1>7
    DEF Next, Thread, StartChain, WritePart, Extend, LinkNext, Reserve, BackOff, Place, Publish,
        Sink, SinkLoop, Take, CopyLater, Copy, Clear, EmptySlot, Count,
        WaitTimesOut, WriteFile, WakesEarly, StopSink, Join, vars, history
  <2>2. Flushed => Flushed'
    BY <1>2, <1>3, <2>1, FlushedStays
  <2>3. threadSync' = threadSync
    BY <1>7
    DEF Next, Thread, StartChain, WritePart, Extend, LinkNext, Reserve, BackOff, Place, Publish,
        Sink, SinkLoop, Take, CopyLater, Copy, Clear, EmptySlot, Count,
        WaitTimesOut, WriteFile, WakesEarly, StopSink, Join, vars, ending
  <2>4. \/ destructor' = destructor
        \/ destructor \in {"woken", "joins"} /\ destructor' \in {"joins", "done"}
    BY <1>0, <1>7
    DEF Next, Thread, StartChain, WritePart, Extend, LinkNext, Reserve, BackOff, Place, Publish,
        Sink, SinkLoop, Take, CopyLater, Copy, Clear, EmptySlot, Count,
        WaitTimesOut, WriteFile, StopSink, Join, vars, ending
  <2>5. sink' = "lock" => sink = "lock"
    BY <1>7
    DEF Next, Thread, StartChain, WritePart, Extend, LinkNext, Reserve, BackOff, Place, Publish,
        Notified, Sink, SinkLoop, Take, Consumed, CopyLater, Copy, Clear, GoOn, EmptySlot, Count,
        WaitTimesOut, WriteFile, WakesEarly, StopSink, Join, vars, sinking
  <2>6. Told
    BY <1>1, <2>2, <2>3, <2>4, <2>5
  <2> QED
    BY <2>6, Zenon DEF FlushInv
<1> QED
  BY <1>4, <1>5, <1>6, <1>7

\* The sink does not wake ~Logging before every line that was logged when it
\* began is whole in the file, for any number of threads, lines, blocks and
\* slots; again until a block is taken while it is recycled, the file takes
\* less than it is given, or the wait of ~Logging returns unasked.
THEOREM ExitWaitsForLines == Spec => []ExitIsComplete
<1>1. Init => Inv
  BY InvInit
<1>2. Init => LoggedInv
  <2> SUFFICES ASSUME Init PROVE LoggedInv
    OBVIOUS
  <2>1. /\ pc = [t \in Threads |-> "append"] /\ line = [t \in Threads |-> 1] /\ order = <<>>
        /\ before = {} /\ threadSync = FALSE /\ sink = "loop"
    BY DEF Init
  <2>2. \A t \in Threads : \A n \in 1..line[t] : ~(n < line[t]) /\ pc[t] # "publish"
    BY <2>1
  <2>3. line \in [Threads -> Nat] /\ order \in Seq(Line)
    BY <2>1
  <2> QED
    BY <2>1, <2>2, <2>3 DEF LoggedInv
<1>3. Init => FlushInv
  <2> SUFFICES ASSUME Init PROVE FlushInv
    OBVIOUS
  <2>1. sink # "lock" /\ destructor = "no"
    BY DEF Init
  <2>2. destructor \notin {"woken", "joins", "done"}
    BY <2>1
  <2> QED
    BY <2>1, <2>2, Zenon DEF FlushInv
<1>4. FlushInv => ExitIsComplete
  BY Zenon DEF FlushInv, ExitIsComplete
<1> QED
  BY <1>1, <1>2, <1>3, <1>4, InvKept, LoggedKept, FlushKept, PTL DEF Spec
=============================================================================
