-------------------------- MODULE TcpConnectionProofs --------------------------
(***************************************************************************)
(* Proofs about TcpConnection for every bound on bytes, nesting and output *)
(* buffer.  The types, the order of the byte stream and why a connection   *)
(* that is up may be timed out hold whatever the application and the       *)
(* network do (every value of Uses).  The lifetime of the object, the      *)
(* callbacks it makes, the events it watches and its keepalive hold for    *)
(* every Uses without the members that break them, which each theorem      *)
(* names.                                                                  *)
(***************************************************************************)
EXTENDS TcpConnection, SequenceTheorems, TLAPS

Bytes == 1..MaxBytes

--------------------------------------------------------------------------------
(* Sequences *)

\* A sequence is what was flushed of it and what is left of it.
LEMMA SplitSeq ==
  ASSUME NEW S, NEW s \in Seq(S), NEW n \in Nat, n <= Len(s)
  PROVE  /\ SubSeq(s, 1, n) \in Seq(S)
         /\ SubSeq(s, n + 1, Len(s)) \in Seq(S)
         /\ Len(SubSeq(s, 1, n)) = n
         /\ \A i \in 1..n : SubSeq(s, 1, n)[i] = s[i]
         /\ Len(SubSeq(s, n + 1, Len(s))) = Len(s) - n
         /\ SubSeq(s, 1, n) \o SubSeq(s, n + 1, Len(s)) = s
<1>1. SubSeq(s, 1, n) \in Seq(S) /\ Len(SubSeq(s, 1, n)) = n
  BY SubSeqProperties, ElementOfSeq
<1>2. /\ SubSeq(s, n + 1, Len(s)) \in Seq(S)
      /\ Len(SubSeq(s, n + 1, Len(s))) = Len(s) - n
  BY SubSeqProperties, ElementOfSeq
<1>3. SubSeq(s, 1, n) \o SubSeq(s, n + 1, Len(s)) = SubSeq(s, 1, Len(s))
  <2>1. /\ 1 \in 1..(Len(s) + 1)
        /\ n \in (1 - 1)..Len(s)
        /\ Len(s) \in n..Len(s)
    BY LenProperties
  <2> QED
    BY <2>1, ConcatAdjacentSubSeq, Zenon
<1>4. \A i \in 1..n : SubSeq(s, 1, n)[i] = s[i]
  OBVIOUS
<1> QED
  BY <1>1, <1>2, <1>3, <1>4, SubSeqFull

\* The bytes i..k of the next message continue the numbering.
LEMMA NewBytesType ==
  ASSUME TypeOK, NEW k \in Nat, NEW i \in 1..(k + 1), total + k <= MaxBytes
  PROVE  /\ NewBytes(i, k) \in Seq(Bytes)
         /\ Len(NewBytes(i, k)) = k + 1 - i
         /\ \A j \in 1..(k + 1 - i) : NewBytes(i, k)[j] = total + i + j - 1
<1>1. k + 1 - i \in Nat /\ total \in Nat /\ MaxBytes \in Nat
  BY TcpConnectionAssumption DEF TypeOK
<1>2. \A j \in 1..(k + 1 - i) : total + i + j - 1 \in Bytes
  BY <1>1 DEF Bytes
<1> QED
  BY <1>1, <1>2 DEF NewBytes

\* A stream carries the first `n' bytes but for `gaps', in order and each once.
Carries(s, n, gaps) ==
  /\ \A i, j \in DOMAIN s : i < j => s[i] < s[j]
  /\ {s[i] : i \in DOMAIN s} = 1..n \ gaps

\* The next bytes behind a stream.
LEMMA CarriesMore ==
  ASSUME NEW n \in Nat, NEW m \in Nat, NEW gaps \in SUBSET (1..n),
         NEW s \in Seq(Bytes), Carries(s, n, gaps),
         NEW t \in Seq(Bytes), Len(t) = m, \A j \in 1..m : t[j] = n + j
  PROVE  s \o t \in Seq(Bytes) /\ Carries(s \o t, n + m, gaps)
<1> DEFINE l == Len(s)
           st == s \o t
<1>1. /\ st \in Seq(Bytes) /\ l \in Nat /\ Len(st) = l + m
      /\ \A i \in 1..(l + m) : st[i] = IF i <= l THEN s[i] ELSE t[i - l]
  BY ConcatProperties, LenProperties
<1>2. DOMAIN s = 1..l /\ DOMAIN st = 1..(l + m)
  BY <1>1, LenProperties
<1>3. \A i \in 1..l : s[i] \in 1..n /\ s[i] \notin gaps
  BY <1>2 DEF Carries
<1>4. \A i \in 1..(l + m) : i <= l => st[i] = s[i] /\ i \in 1..l
  BY <1>1
<1>5. \A i \in 1..(l + m) : i > l => st[i] = n + (i - l) /\ i - l \in 1..m
  <2> SUFFICES ASSUME NEW i \in 1..(l + m), i > l PROVE st[i] = n + (i - l) /\ i - l \in 1..m
    OBVIOUS
  <2>1. i - l \in 1..m /\ ~(i <= l)
    BY <1>1
  <2> QED
    BY <1>1, <2>1
<1>6. ASSUME NEW i \in 1..(l + m), NEW j \in 1..(l + m), i < j PROVE st[i] < st[j]
  <2>1. CASE j <= l
    <3>1. i <= l
      BY <1>1, <1>6, <2>1
    <3>2. i \in DOMAIN s /\ j \in DOMAIN s /\ st[i] = s[i] /\ st[j] = s[j]
      BY <1>2, <1>4, <2>1, <3>1
    <3> QED
      BY <1>6, <3>2 DEF Carries
  <2>2. CASE i <= l /\ j > l
    BY <1>1, <1>3, <1>4, <1>5, <2>2
  <2>3. CASE i > l
    <3>1. j > l
      BY <1>1, <1>6, <2>3
    <3> QED
      BY <1>1, <1>5, <1>6, <2>3, <3>1
  <2>4. j <= l \/ (i <= l /\ j > l) \/ i > l
    BY <1>1
  <2> QED
    BY <2>1, <2>2, <2>3, <2>4
<1>7. ASSUME NEW i \in 1..(l + m) PROVE st[i] \in 1..(n + m) \ gaps
  <2>1. CASE i <= l
    BY <1>3, <1>4, <2>1
  <2>2. CASE i > l
    BY <1>5, <2>2
  <2> QED
    BY <1>1, <2>1, <2>2
<1>8. ASSUME NEW b \in 1..(n + m) \ gaps PROVE \E i \in 1..(l + m) : st[i] = b
  <2>1. CASE b <= n
    <3>1. PICK i \in 1..l : s[i] = b
      BY <1>2, <2>1 DEF Carries
    <3>2. i \in 1..(l + m) /\ i <= l
      BY <1>1
    <3> QED
      BY <1>4, <3>1, <3>2
  <2>2. CASE b > n
    <3>1. l + (b - n) \in 1..(l + m) /\ l + (b - n) > l /\ n + (l + (b - n) - l) = b
      BY <1>1, <2>2
    <3>2. st[l + (b - n)] = b
      BY <1>5, <3>1
    <3> QED
      BY <3>1, <3>2
  <2> QED
    BY <2>1, <2>2
<1>9. {st[i] : i \in 1..(l + m)} = 1..(n + m) \ gaps
  <2>1. {st[i] : i \in 1..(l + m)} \subseteq 1..(n + m) \ gaps
    BY <1>7
  <2>2. 1..(n + m) \ gaps \subseteq {st[i] : i \in 1..(l + m)}
    <3> HIDE DEF st, l
    <3> QED
      BY <1>8
  <2> QED
    BY <2>1, <2>2, Zenon
<1>10. Carries(st, n + m, gaps)
  BY <1>2, <1>6, <1>9 DEF Carries
<1> QED
  BY <1>1, <1>10

\* Bytes that are not behind a stream are a gap of it.
LEMMA CarriesGap ==
  ASSUME NEW n \in Nat, NEW k \in Nat, NEW gaps, NEW s, Carries(s, n, gaps)
  PROVE  Carries(s, n + k, gaps \cup (n + 1)..(n + k))
<1>1. 1..n \ gaps = 1..(n + k) \ (gaps \cup (n + 1)..(n + k))
  OBVIOUS
<1> QED
  BY <1>1 DEF Carries

--------------------------------------------------------------------------------
(* The byte stream *)

\* Concatenation of bytes is associative.
LEMMA AssocBytes ==
  ASSUME NEW s \in Seq(Bytes), NEW t \in Seq(Bytes), NEW u \in Seq(Bytes)
  PROVE  (s \o t) \o u = s \o (t \o u)
  BY ConcatAssociative

BytesType ==
  /\ output \in Seq(Bytes) /\ wire \in Seq(Bytes)
  /\ total \in 0..MaxBytes /\ lost \subseteq 1..total

\* flush moves bytes from the front of the output to the end of the wire.
LEMMA FlushedKeepsStream ==
  ASSUME BytesType, NEW n \in Nat, n <= Len(output), Flushed(n)
  PROVE  BytesType' /\ wire' \o output' = wire \o output
<1>1. /\ SubSeq(output, 1, n) \in Seq(Bytes)
      /\ SubSeq(output, n + 1, Len(output)) \in Seq(Bytes)
      /\ SubSeq(output, 1, n) \o SubSeq(output, n + 1, Len(output)) = output
  BY SplitSeq DEF BytesType
<1>2. BytesType'
  BY <1>1, ConcatProperties DEF BytesType, Flushed
<1>3. wire' \o output'
        = wire \o (SubSeq(output, 1, n) \o SubSeq(output, n + 1, Len(output)))
  BY <1>1, AssocBytes DEF BytesType, Flushed
<1> QED
  BY <1>1, <1>2, <1>3

\* send puts the message behind what is on the wire and in the output, all of it
\* or, when it throws, the part the kernel took.
LEMMA SendKeepsStream ==
  ASSUME TypeOK, StreamIntact, NEW k \in 1..MaxBytes, Send(k)
  PROVE  BytesType' /\ StreamIntact'
<1>1. /\ total + k <= MaxBytes /\ total' = total + k /\ k \in Nat
      /\ total \in Nat /\ MaxBytes \in Nat /\ total' \in 0..MaxBytes
      /\ lost \in SUBSET (1..total)
  BY TcpConnectionAssumption DEF Send, TypeOK
<1>2. output \in Seq(Bytes) /\ wire \in Seq(Bytes) /\ Carries(wire \o output, total, lost)
  BY DEF TypeOK, Bytes, StreamIntact, Carries
<1>3. wire \o output \in Seq(Bytes)
  BY <1>2, ConcatProperties
<1>4. ASSUME output = <<>> PROVE Carries(wire, total, lost)
  BY <1>2, <1>4, ConcatEmptySeq
<1>5. SUFFICES /\ output' \in Seq(Bytes) /\ wire' \in Seq(Bytes)
               /\ lost' \subseteq 1..(total + k)
               /\ Carries(wire' \o output', total + k, lost')
  BY <1>1 DEF BytesType, StreamIntact, Carries
<1>6. CASE SendQueued(k)
  <2>1. output' = output \o NewBytes(1, k) /\ wire' = wire /\ lost' = lost
    BY <1>6 DEF SendQueued
  <2>2. /\ NewBytes(1, k) \in Seq(Bytes) /\ Len(NewBytes(1, k)) = k
        /\ \A j \in 1..k : NewBytes(1, k)[j] = total + j
    BY <1>1, NewBytesType
  <2>3. Carries((wire \o output) \o NewBytes(1, k), total + k, lost)
    BY <1>1, <1>2, <1>3, <2>2, CarriesMore
  <2>4. wire' \o output' = (wire \o output) \o NewBytes(1, k)
    BY <2>1, <2>2, <1>2, AssocBytes
  <2>5. output' \in Seq(Bytes) /\ lost' \subseteq 1..(total + k)
    BY <2>1, <1>1, <1>2, <2>2, ConcatProperties
  <2> QED
    BY <2>1, <2>3, <2>4, <2>5, <1>2
<1>7. ASSUME NEW n \in 0..MaxBytes, n <= k, output = <<>>
      PROVE  /\ wire \o NewBytes(1, n) \in Seq(Bytes)
             /\ Carries(wire \o NewBytes(1, n), total + n, lost)
  <2>1. n \in Nat /\ total + n <= MaxBytes
    BY <1>1, <1>7
  <2>2. /\ NewBytes(1, n) \in Seq(Bytes) /\ Len(NewBytes(1, n)) = n
        /\ \A j \in 1..n : NewBytes(1, n)[j] = total + j
    <3>1. 1 \in 1..(n + 1) /\ n + 1 - 1 = n /\ \A j \in 1..n : total + 1 + j - 1 = total + j
      BY <1>1, <2>1
    <3>2. /\ NewBytes(1, n) \in Seq(Bytes) /\ Len(NewBytes(1, n)) = n + 1 - 1
          /\ \A j \in 1..(n + 1 - 1) : NewBytes(1, n)[j] = total + 1 + j - 1
      BY <2>1, <3>1, NewBytesType
    <3> QED
      BY <3>1, <3>2
  <2> QED
    BY <1>1, <1>2, <1>4, <1>7, <2>1, <2>2, CarriesMore
<1>8. ASSUME NEW n \in 0..MaxBytes, SendDirect(k, n)
      PROVE  /\ output' \in Seq(Bytes) /\ wire' \in Seq(Bytes)
             /\ lost' \subseteq 1..(total + k)
             /\ Carries(wire' \o output', total + k, lost')
  <2>1. /\ output = <<>> /\ n <= k /\ n \in Nat /\ lost' = lost
        /\ wire' = wire \o NewBytes(1, n)
        /\ output' = NewBytes(n + 1, k)
    BY <1>8 DEF SendDirect
  <2>2. wire' \in Seq(Bytes) /\ Carries(wire', total + n, lost)
    BY <1>7, <2>1
  <2>3. /\ n + 1 \in 1..(k + 1) /\ k + 1 - (n + 1) = k - n /\ k - n \in Nat
        /\ total + n \in Nat /\ total + n + (k - n) = total + k
        /\ lost \in SUBSET (1..(total + n))
    BY <1>1, <2>1
  <2>4. /\ output' \in Seq(Bytes) /\ Len(output') = k - n
        /\ \A j \in 1..(k - n) : output'[j] = total + (n + 1) + j - 1
    <3>1. /\ NewBytes(n + 1, k) \in Seq(Bytes)
          /\ Len(NewBytes(n + 1, k)) = k + 1 - (n + 1)
          /\ \A j \in 1..(k + 1 - (n + 1)) : NewBytes(n + 1, k)[j] = total + (n + 1) + j - 1
      BY <1>1, <2>3, NewBytesType
    <3> QED
      BY <2>1, <2>3, <3>1
  <2>5. \A j \in 1..(k - n) : output'[j] = (total + n) + j
    BY <1>1, <2>1, <2>3, <2>4
  <2>6. Carries(wire' \o output', total + n + (k - n), lost)
    BY <2>2, <2>3, <2>4, <2>5, CarriesMore
  <2>7. lost' \subseteq 1..(total + k)
    BY <1>1, <2>1
  <2> QED
    BY <2>1, <2>2, <2>3, <2>4, <2>6, <2>7
<1>9. ASSUME NEW n \in 0..MaxBytes, SendPartThrows(k, n)
      PROVE  /\ output' \in Seq(Bytes) /\ wire' \in Seq(Bytes)
             /\ lost' \subseteq 1..(total + k)
             /\ Carries(wire' \o output', total + k, lost')
  <2>1. /\ output = <<>> /\ output' = <<>> /\ n <= k /\ n \in Nat
        /\ wire' = wire \o NewBytes(1, n)
        /\ lost' = lost \cup (total + n + 1)..(total + k)
    BY <1>1, <1>9, TcpConnectionAssumption DEF SendPartThrows
  <2>2. wire' \in Seq(Bytes) /\ Carries(wire', total + n, lost)
    BY <1>7, <2>1
  <2>3. total + n \in Nat /\ k - n \in Nat /\ total + n + (k - n) = total + k
    BY <1>1, <2>1
  <2>4. Carries(wire', total + k, lost')
    <3>1. Carries(wire', total + n + (k - n), lost \cup (total + n + 1)..(total + n + (k - n)))
      BY <2>2, <2>3, CarriesGap
    <3> QED
      BY <2>1, <2>3, <3>1
  <2>5. wire' \o output' = wire'
    BY <2>1, <2>2, ConcatEmptySeq
  <2>6. lost' \subseteq 1..(total + k)
    BY <1>1, <2>1
  <2> QED
    BY <1>2, <2>1, <2>2, <2>4, <2>5, <2>6
<1> QED
  BY <1>6, <1>8, <1>9 DEF Send

--------------------------------------------------------------------------------
(* Types *)

Frames == [cb : Callbacks, ref : BOOLEAN]

\* The parts of TypeOK besides the bytes and the stack, by groups of variables.
LifeType ==
  /\ side \in {"Server", "Client"}
  /\ status \in {"none", "CONNECTTING", "ESTABLISHED", "DISCONNECTED", "SOCKETERROR"}
  /\ timeout \in BOOLEAN
SockType ==
  /\ connected \in BOOLEAN /\ soerror \in BOOLEAN
  /\ net \in {"pending", "up", "refused"}
PollType == selevent \subseteq Events /\ watched \subseteq Events
LoopType == timer \in BOOLEAN /\ due \in BOOLEAN /\ ready \subseteq Events
HeldType == held \subseteq {"manager", "app"}
HistType == ends \in 0..2 /\ asked \in BOOLEAN /\ owed \in BOOLEAN
StackType == stack \in Seq(Frames)

\* TypeOK is the conjunction of its parts.
LEMMA TypeParts ==
  TypeOK <=> /\ LifeType /\ SockType /\ PollType /\ LoopType
             /\ BytesType /\ HeldType /\ HistType /\ StackType
  BY DEF TypeOK, LifeType, SockType, PollType, LoopType, BytesType, HeldType,
         HistType, StackType, Frames, Bytes

\* Socket::select registers known events only.
LEMMA SelectType ==
  ASSUME PollType, NEW remove, NEW add, add \subseteq Events, Select(remove, add)
  PROVE  PollType'
<1> DEFINE new == add \ selevent
<1>1. selevent' \subseteq Events /\ new \subseteq Events
  BY DEF PollType, Select
<1>2. watched' = watched \/ watched' = {"READ"} \cup new \/ watched' = selevent'
  BY DEF Select
<1>3. {"READ"} \subseteq Events
  BY DEF Events
<1> QED
  BY <1>1, <1>2, <1>3 DEF PollType

\* The status, timer and registration a close leaves behind.
LEMMA ShutType ==
  ASSUME TypeOK, Shut
  PROVE  /\ LifeType' /\ PollType' /\ timer' \in BOOLEAN /\ ends' \in 0..2
<1>1. LifeType'
  BY DEF TypeOK, Shut, LifeType
<1>2. PollType'
  BY DEF TypeOK, Shut, PollType
<1>3. timer' \in BOOLEAN
  BY DEF Shut
<1>4. ends' \in 0..2
  BY DEF TypeOK, Shut
<1> QED
  BY <1>1, <1>2, <1>3, <1>4

\* The stack without its innermost callback.
LEMMA BelowProperties ==
  ASSUME StackType, ~Idle
  PROVE  /\ Below \in Seq(Frames) /\ Len(Below) = Len(stack) - 1
         /\ \A i \in 1..(Len(stack) - 1) : Below[i] = stack[i]
         /\ Len(stack) \in Nat \ {0}
         /\ Top \in Frames /\ Top.ref \in BOOLEAN
<1>1. stack \in Seq(Frames) /\ stack # <<>>
  BY DEF StackType, Idle
<1>2. Len(stack) \in Nat \ {0}
  BY <1>1
<1>4. Top \in Frames
  BY <1>1, <1>2, ElementOfSeq DEF Top
<1>5. /\ SubSeq(stack, 1, Len(stack) - 1) \in Seq(Frames)
      /\ Len(SubSeq(stack, 1, Len(stack) - 1)) = Len(stack) - 1
      /\ \A i \in 1..(Len(stack) - 1) : SubSeq(stack, 1, Len(stack) - 1)[i] = stack[i]
  <2>1. Len(stack) - 1 \in Nat /\ Len(stack) - 1 <= Len(stack)
    BY <1>2
  <2> QED
    BY <1>1, <2>1, SplitSeq, ZenonT(30)
<1>6. Top.ref \in BOOLEAN
  BY <1>4 DEF Frames
<1> QED
  BY <1>2, <1>4, <1>5, <1>6 DEF Below

\* The fields of a frame.
LEMMA FrameFields ==
  ASSUME NEW cb, NEW ref
  PROVE  Frame(cb, ref).cb = cb /\ Frame(cb, ref).ref = ref
  BY DEF Frame

\* What a call, a return and a call in place of a return do to the stack.
LEMMA CallProperties ==
  ASSUME StackType, NEW cb \in Callbacks, NEW ref \in BOOLEAN, Call(cb, ref)
  PROVE  /\ StackType' /\ Len(stack') = Len(stack) + 1
         /\ \A i \in 1..Len(stack) : stack'[i] = stack[i]
         /\ stack'[Len(stack) + 1] = Frame(cb, ref)
         /\ Frame(cb, ref) \in Frames
<1>1. Frame(cb, ref) \in Frames
  BY DEF Frame, Frames
<1>2. stack' = Append(stack, Frame(cb, ref))
  BY DEF Call
<1> QED
  BY <1>1, <1>2, AppendProperties DEF StackType

\* The callback that takes the place of the one that returned.
LEMMA ThenProperties ==
  ASSUME StackType, ~Idle, NEW cb \in Callbacks, Then(cb)
  PROVE  /\ StackType' /\ Len(stack') = Len(stack)
         /\ \A i \in 1..(Len(stack) - 1) : stack'[i] = stack[i]
         /\ stack'[Len(stack)] = Frame(cb, Top.ref)
<1>1. /\ Below \in Seq(Frames) /\ Len(Below) = Len(stack) - 1
      /\ \A i \in 1..(Len(stack) - 1) : Below[i] = stack[i]
      /\ Len(stack) \in Nat \ {0} /\ Top.ref \in BOOLEAN
  BY BelowProperties
<1>2. Frame(cb, Top.ref) \in Frames
  BY <1>1 DEF Frame, Frames
<1>3. stack' = Append(Below, Frame(cb, Top.ref))
  BY DEF Then
<1>4. /\ stack' \in Seq(Frames) /\ Len(stack') = Len(Below) + 1
      /\ \A i \in 1..Len(Below) : stack'[i] = Below[i]
      /\ stack'[Len(Below) + 1] = Frame(cb, Top.ref)
  BY <1>1, <1>2, <1>3, AppendProperties
<1> QED
  BY <1>1, <1>4 DEF StackType

--------------------------------------------------------------------------------
(* Types and the byte stream are inductive *)

\* Every part of the type but the bytes.
OtherTypes ==
  /\ LifeType /\ SockType /\ PollType /\ LoopType
  /\ HeldType /\ HistType /\ StackType

\* Creation of a connection by the manager.
LEMMA CreateKeeps ==
  ASSUME TypeOK, Create
  PROVE  OtherTypes' /\ UNCHANGED bytes
<1> USE TypeParts DEF OtherTypes
<1>1. ASSUME NEW keepalive \in BOOLEAN, CreateTcpConnection(keepalive)
      PROVE  OtherTypes' /\ UNCHANGED bytes
  <2>1. StackType'
    BY <1>1, CallProperties DEF CreateTcpConnection, Callbacks
  <2>2. PollType'
    BY <1>1, SelectType DEF CreateTcpConnection, Events
  <2> QED
    BY <1>1, <2>1, <2>2
    DEF CreateTcpConnection, LifeType, SockType, LoopType, HeldType, HistType, hist
<1>2. CASE CreateTcpClient
  <2>1. PollType'
    BY <1>2, SelectType DEF CreateTcpClient
  <2> QED
    BY <1>2, <2>1
    DEF CreateTcpClient, LifeType, SockType, LoopType, HeldType, HistType, StackType,
        sock, hist
<1>3. CASE CreateImmediate
  <2>1. StackType'
    <3>1. Frame("create", FALSE) \in Frames
      BY DEF Frame, Frames, Callbacks
    <3>2. Frame("onConnected", RefOfHandler) \in Frames
      BY DEF Frame, Frames, Callbacks, RefOfHandler
    <3>3. \A a, b \in Frames : <<a, b>> \in Seq(Frames)
      OBVIOUS
    <3>4. <<Frame("create", FALSE), Frame("onConnected", RefOfHandler)>> \in Seq(Frames)
      BY <3>1, <3>2, <3>3
    <3> QED
      BY <1>3, <3>4 DEF CreateImmediate, StackType
  <2>2. PollType'
    BY <1>3, SelectType DEF CreateImmediate, Events
  <2> QED
    BY <1>3, <2>1, <2>2
    DEF CreateImmediate, LifeType, SockType, LoopType, HeldType, HistType, clock, hist
<1>4. CASE CreateFails
  <2>1. StackType'
    BY <1>4, CallProperties DEF CreateFails, Callbacks
  <2> QED
    BY <1>4, <2>1
    DEF CreateFails, LifeType, SockType, PollType, LoopType, HeldType, HistType,
        sock, poll, clock
<1>5. CASE CreateTcpConnectionFails
  BY <1>5
  DEF CreateTcpConnectionFails, LifeType, SockType, PollType, LoopType, HeldType, HistType,
      StackType, sock, poll, clock, hist
<1> QED
  BY <1>1, <1>2, <1>3, <1>4, <1>5 DEF Create

\* What Notified, which starts every notification of an event, leaves of the types.
LEMMA NotifiedType ==
  ASSUME TypeOK, NEW event, Notified(event)
  PROVE  ready' \subseteq Events /\ due' \in BOOLEAN /\ HeldType'
  BY TypeParts DEF Notified, LoopType, HeldType

\* handleOnClose out of a handler.
LEMMA BrokenType ==
  ASSUME TypeOK, Broken
  PROVE  /\ LifeType' /\ PollType' /\ timer' \in BOOLEAN /\ HistType' /\ StackType'
         /\ UNCHANGED bytes
<1>1. StackType'
  BY TypeParts, CallProperties DEF Broken, RefOfHandler, Callbacks
<1>2. LifeType' /\ PollType' /\ timer' \in BOOLEAN /\ ends' \in 0..2
  BY ShutType DEF Broken
<1> QED
  BY <1>1, <1>2, TypeParts DEF Broken, HistType

\* complete_nonblocking_connect on either event.
LEMMA CompleteConnectKeeps ==
  ASSUME TypeOK, StreamIntact, NEW event \in Events, CompleteConnect(event)
  PROVE  OtherTypes' /\ BytesType' /\ StreamIntact'
<1> USE TypeParts DEF OtherTypes
<1>1. ready' \subseteq Events /\ due' \in BOOLEAN /\ HeldType'
  BY NotifiedType DEF CompleteConnect
<1>2. SockType'
  BY DEF CompleteConnect, SockType
<1>3. CASE Broken
  <2>1. /\ LifeType' /\ PollType' /\ timer' \in BOOLEAN /\ HistType' /\ StackType'
        /\ UNCHANGED bytes
    BY <1>3, BrokenType
  <2> QED
    BY <1>1, <1>2, <2>1 DEF LoopType, BytesType, StreamIntact, bytes
<1>4. ASSUME NEW n \in 0..MaxBytes, ConnectOk(n)
      PROVE  OtherTypes' /\ BytesType' /\ StreamIntact'
  <2>1. BytesType' /\ wire' \o output' = wire \o output /\ UNCHANGED <<total, lost>>
    <3>1. n \in Nat /\ n <= Len(output) /\ Flushed(n) /\ UNCHANGED <<total, lost>>
      BY <1>4 DEF ConnectOk, Flushed
    <3> QED
      BY <3>1, FlushedKeepsStream
  <2>2. StackType'
    BY <1>4, CallProperties DEF ConnectOk, RefOfHandler, Callbacks
  <2>3. PollType'
    <3>1. (IF n < Len(output) THEN Events ELSE {"READ"}) \subseteq Events
      BY DEF Events
    <3> QED
      BY <1>4, <3>1, SelectType DEF ConnectOk
  <2>4. LifeType' /\ HistType' /\ timer' \in BOOLEAN
    BY <1>4 DEF ConnectOk, LifeType, HistType, hist
  <2> QED
    BY <1>1, <1>2, <2>1, <2>2, <2>3, <2>4 DEF LoopType, StreamIntact
<1> QED
  BY <1>3, <1>4 DEF CompleteConnect

\* TcpConnection::onWrite.
LEMMA OnWriteKeeps ==
  ASSUME TypeOK, StreamIntact, NEW n \in 0..MaxBytes, OnWrite(n)
  PROVE  OtherTypes' /\ BytesType' /\ StreamIntact'
<1> USE TypeParts DEF OtherTypes
<1>1. ready' \subseteq Events /\ due' \in BOOLEAN /\ HeldType'
  BY NotifiedType DEF OnWrite
<1>2. BytesType' /\ wire' \o output' = wire \o output /\ UNCHANGED <<total, lost>>
  <2>1. n \in Nat /\ n <= Len(output) /\ Flushed(n) /\ UNCHANGED <<total, lost>>
    BY DEF OnWrite, Flushed
  <2> QED
    BY <2>1, FlushedKeepsStream
<1>3. PollType'
  <2>1. CASE Select({"WRITE"}, {})
    BY <2>1, SelectType
  <2>2. CASE UNCHANGED poll
    BY <2>2 DEF poll, PollType
  <2> QED
    BY <2>1, <2>2 DEF OnWrite
<1>4. StackType' /\ owed' \in BOOLEAN
  <2>1. CASE Call("onWrite", RefOfHandler) /\ owed' = FALSE
    BY <2>1, CallProperties DEF RefOfHandler, Callbacks
  <2>2. CASE UNCHANGED <<stack, owed>>
    BY <2>2 DEF StackType, HistType
  <2> QED
    BY <2>1, <2>2 DEF OnWrite
<1>5. LifeType' /\ SockType' /\ timer' \in BOOLEAN /\ HistType'
  BY <1>4 DEF OnWrite, LifeType, SockType, LoopType, HistType, life, sock
<1> QED
  BY <1>1, <1>2, <1>3, <1>4, <1>5 DEF LoopType, StreamIntact

\* The other steps of the event loop leave the bytes alone.
LEMMA LoopKeeps ==
  ASSUME TypeOK, StreamIntact, Loop
  PROVE  OtherTypes' /\ BytesType' /\ StreamIntact'
<1> USE TypeParts DEF OtherTypes
<1>0. ASSUME UNCHANGED bytes PROVE BytesType' /\ StreamIntact'
  BY <1>0 DEF bytes, BytesType, StreamIntact
<1>1. ASSUME NEW events \in SUBSET Events, EpollWait(events)
      PROVE  OtherTypes' /\ UNCHANGED bytes
  BY <1>1 DEF EpollWait, LifeType, SockType, PollType, LoopType, HeldType, HistType,
              StackType, life, sock, poll, clock, hist
<1>2. ASSUME Expire PROVE OtherTypes' /\ UNCHANGED bytes
  BY <1>2 DEF Expire, LifeType, SockType, PollType, LoopType, HeldType, HistType,
              StackType, life, sock, poll, hist
<1>3. ASSUME SkipRemoved PROVE OtherTypes' /\ UNCHANGED bytes
  BY <1>3, ZenonT(30) DEF SkipRemoved, LifeType, SockType, PollType, LoopType, HeldType, HistType,
              StackType, life, sock, poll, hist
<1>4. ASSUME OnReadData PROVE OtherTypes' /\ UNCHANGED bytes
  <2>1. ready' \subseteq Events /\ due' \in BOOLEAN /\ HeldType'
    BY <1>4, NotifiedType DEF OnReadData
  <2>2. StackType'
    BY <1>4, CallProperties DEF OnReadData, RefOfHandler, Callbacks
  <2> QED
    BY <1>4, <2>1, <2>2
    DEF OnReadData, LifeType, SockType, PollType, LoopType, HistType, life, sock, poll, hist
<1>5. ASSUME OnReadError \/ OnWriteError PROVE OtherTypes' /\ UNCHANGED bytes
  <2>1. ready' \subseteq Events /\ due' \in BOOLEAN /\ HeldType'
    BY <1>5, NotifiedType DEF OnReadError, OnWriteError
  <2>2. /\ LifeType' /\ PollType' /\ timer' \in BOOLEAN /\ HistType' /\ StackType'
        /\ UNCHANGED bytes
    BY <1>5, BrokenType DEF OnReadError, OnWriteError
  <2> QED
    BY <1>5, <2>1, <2>2 DEF OnReadError, OnWriteError, SockType, LoopType, sock
<1>6. ASSUME OnReadNoSpace PROVE OtherTypes' /\ UNCHANGED bytes
  <2>1. ready' \subseteq Events /\ due' \in BOOLEAN /\ HeldType'
    BY <1>6, NotifiedType DEF OnReadNoSpace
  <2>2. LifeType' /\ PollType' /\ timer' \in BOOLEAN /\ ends' \in 0..2
    BY <1>6, ShutType DEF OnReadNoSpace
  <2>3. StackType'
    BY <1>6, CallProperties DEF OnReadNoSpace, RefOfHandler, Callbacks
  <2> QED
    BY <1>6, <2>1, <2>2, <2>3 DEF OnReadNoSpace, SockType, LoopType, HistType, sock
<1>7. ASSUME ConnectTimeout \/ OnTimeoutRecv PROVE OtherTypes' /\ UNCHANGED bytes
  <2>1. LifeType' /\ PollType' /\ timer' \in BOOLEAN /\ ends' \in 0..2
    BY <1>7, ShutType DEF ConnectTimeout, OnTimeoutRecv
  <2>2. StackType'
    BY <1>7, CallProperties DEF ConnectTimeout, OnTimeoutRecv, RefOfHandler, Callbacks
  <2> QED
    BY <1>7, <2>1, <2>2
    DEF ConnectTimeout, OnTimeoutRecv, Timeout, SockType, LoopType, HeldType, HistType, sock
<1>8. ASSUME OnTimeoutRearm PROVE OtherTypes' /\ UNCHANGED bytes
  BY <1>8 DEF OnTimeoutRearm, Timeout, LifeType, SockType, PollType, LoopType, HeldType,
              HistType, StackType, life, sock, poll
<1>9. ASSUME OnTimeoutHeartbeat PROVE OtherTypes' /\ UNCHANGED bytes
  <2>1. StackType'
    BY <1>9, CallProperties DEF OnTimeoutHeartbeat, RefOfHandler, Callbacks
  <2> QED
    BY <1>9, <2>1
    DEF OnTimeoutHeartbeat, Timeout, LifeType, SockType, PollType, LoopType, HeldType,
        HistType, life, sock, poll
<1>10. CASE Notify
  BY <1>10, <1>0, <1>3, <1>4, <1>5, <1>6, <1>7, <1>8, <1>9, CompleteConnectKeeps,
     OnWriteKeeps DEF Notify
<1> QED
  BY <1>0, <1>1, <1>2, <1>10 DEF Loop

\* The end of a callback leaves the bytes alone.
LEMMA EndKeeps ==
  ASSUME TypeOK, EndOfCallback
  PROVE  OtherTypes' /\ UNCHANGED bytes
<1> USE TypeParts DEF OtherTypes
<1>1. ASSUME ~Idle, Return PROVE StackType'
  BY <1>1, BelowProperties DEF Return, StackType
<1>2. ASSUME ~Idle, NEW cb \in Callbacks, Then(cb) PROVE StackType'
  BY <1>2, ThenProperties
<1>3. CASE Finish \/ FinishHeartbeat \/ FailHeartbeat \/ FinishCreate
  <2>1. StackType'
    BY <1>1, <1>3 DEF Finish, FinishHeartbeat, FailHeartbeat, FinishCreate, Ends
  <2>2. UNCHANGED <<life, sock, poll, due, ready, bytes, hist>>
    BY <1>3 DEF Finish, FinishHeartbeat, FailHeartbeat, FinishCreate, clock
  <2>3. timer' \in BOOLEAN
    BY <1>3 DEF Finish, FinishHeartbeat, FailHeartbeat, FinishCreate, clock, LoopType
  <2>4. HeldType'
    BY <1>3 DEF Finish, FinishHeartbeat, FailHeartbeat, FinishCreate, HeldType
  <2> QED
    BY <2>1, <2>2, <2>3, <2>4
    DEF LifeType, SockType, PollType, LoopType, HistType, life, sock, poll, hist
<1>4. CASE FinishClose \/ FailClose
  <2>1. ~Idle /\ (Then("onData") \/ Return)
    BY <1>4 DEF FinishClose, FailClose, Ends
  <2>2. StackType'
    BY <1>1, <1>2, <2>1 DEF Callbacks
  <2>3. UNCHANGED <<life, sock, selevent, due, ready, bytes, hist>>
    BY <1>4 DEF FinishClose, FailClose, poll, clock
  <2>4. timer' \in BOOLEAN /\ PollType'
    BY <1>4 DEF FinishClose, FailClose, poll, clock, LoopType, PollType
  <2>5. HeldType'
    BY <1>4 DEF FinishClose, FailClose, HeldType
  <2> QED
    BY <2>2, <2>3, <2>4, <2>5
    DEF LifeType, SockType, LoopType, HistType, life, sock, hist
<1>5. CASE FailData \/ FailCallback
  <2>1. ~Idle /\ (Then("onInitiativeClose") \/ Then("onClose"))
    BY <1>5 DEF FailData, FailCallback, Ends
  <2>2. StackType'
    BY <1>2, <2>1 DEF Callbacks
  <2>3. LifeType' /\ PollType' /\ timer' \in BOOLEAN /\ ends' \in 0..2
    BY <1>5, ShutType DEF FailData, FailCallback
  <2> QED
    BY <1>5, <2>2, <2>3
    DEF FailData, FailCallback, SockType, LoopType, HeldType, HistType, sock
<1> QED
  BY <1>3, <1>4, <1>5 DEF EndOfCallback

\* What the application does keeps the types and the stream.
LEMMA ApplicationKeeps ==
  ASSUME TypeOK, StreamIntact, Application
  PROVE  OtherTypes' /\ BytesType' /\ StreamIntact'
<1> USE TypeParts DEF OtherTypes
<1>0. ASSUME UNCHANGED bytes PROVE BytesType' /\ StreamIntact'
  BY <1>0 DEF bytes, BytesType, StreamIntact
<1>1. CASE Close
  <2>1. LifeType' /\ PollType' /\ timer' \in BOOLEAN /\ ends' \in 0..2
    BY <1>1, ShutType DEF Close
  <2>2. StackType'
    BY <1>1, CallProperties DEF Close, Callbacks
  <2>3. OtherTypes'
    BY <1>1, <2>1, <2>2 DEF Close, SockType, LoopType, HeldType, HistType, sock
  <2> QED
    BY <1>0, <1>1, <2>3 DEF Close
<1>2. CASE SetKeepaliveTimeout
  <2>1. OtherTypes'
    BY <1>2 DEF SetKeepaliveTimeout, LifeType, SockType, PollType, LoopType, HeldType,
                HistType, StackType, sock, poll, hist
  <2> QED
    BY <1>0, <1>2, <2>1 DEF SetKeepaliveTimeout
<1>3. CASE Retain \/ Release
  <2>1. OtherTypes'
    BY <1>3 DEF Retain, Release, LifeType, SockType, PollType, LoopType, HeldType,
                HistType, StackType, life, sock, poll, clock, hist
  <2> QED
    BY <1>0, <1>3, <2>1 DEF Retain, Release
<1>4. ASSUME NEW k \in 1..MaxBytes, Send(k)
      PROVE  OtherTypes' /\ BytesType' /\ StreamIntact'
  <2>1. BytesType' /\ StreamIntact'
    BY <1>4, SendKeepsStream
  <2>2. PollType'
    <3>1. {"WRITE"} \subseteq Events
      BY DEF Events
    <3>2. Select({}, {"WRITE"}) \/ UNCHANGED poll
      BY <1>4 DEF Send, SendDirect, SendPartThrows, SendQueued, poll
    <3>3. CASE UNCHANGED poll
      BY <3>3 DEF poll, PollType
    <3> QED
      BY <3>1, <3>2, <3>3, SelectType
  <2>3. owed' \in BOOLEAN
    BY <1>4 DEF Send
  <2> QED
    BY <1>4, <2>1, <2>2, <2>3
    DEF Send, LifeType, SockType, LoopType, HeldType, HistType, StackType,
        life, sock, clock
<1> QED
  BY <1>1, <1>2, <1>3, <1>4 DEF Application

\* Types and the byte stream are kept by every step, whatever Uses allows.
LEMMA InductiveStream == Spec => [](TypeOK /\ StreamIntact)
<1>1. Init => TypeOK /\ StreamIntact
  <2> SUFFICES ASSUME Init PROVE TypeOK /\ StreamIntact
    OBVIOUS
  <2>1. TypeOK
    <3>1. LifeType /\ SockType /\ PollType
      BY DEF Init, LifeType, SockType, PollType
    <3>2. LoopType /\ HeldType
      BY DEF Init, LoopType, HeldType
    <3>3. HistType
      <4>1. ends \in 0..2
        BY DEF Init
      <4>2. asked \in BOOLEAN /\ owed \in BOOLEAN
        BY Zenon DEF Init
      <4> QED
        BY <4>1, <4>2 DEF HistType
    <3>4. BytesType /\ StackType
      BY TcpConnectionAssumption DEF Init, BytesType, StackType
    <3> QED
      BY <3>1, <3>2, <3>3, <3>4, TypeParts
  <2>2. <<>> \o <<>> = <<>>
    BY ConcatEmptySeq
  <2>3. Carries(<<>>, 0, {})
    BY DEF Carries
  <2> QED
    BY <2>1, <2>2, <2>3 DEF Init, StreamIntact, Carries
<1>2. TypeOK /\ StreamIntact /\ [Next]_vars => TypeOK' /\ StreamIntact'
  <2> SUFFICES ASSUME TypeOK, StreamIntact, [Next]_vars
               PROVE  OtherTypes' /\ BytesType' /\ StreamIntact'
    BY TypeParts DEF OtherTypes, TypeOK, LifeType, SockType, PollType, LoopType,
       BytesType, HeldType, HistType, StackType, Frames, Bytes
  <2>0. ASSUME UNCHANGED bytes PROVE BytesType' /\ StreamIntact'
    BY <2>0, TypeParts DEF bytes, BytesType, StreamIntact
  <2>1. CASE Create
    BY <2>0, <2>1, CreateKeeps
  <2>2. ASSUME NEW answer \in {"up", "refused"}, Handshake(answer)
        PROVE  OtherTypes' /\ BytesType' /\ StreamIntact'
    <3>1. OtherTypes'
      BY <2>2, TypeParts
      DEF Handshake, OtherTypes, LifeType, SockType, PollType, LoopType, HeldType,
          HistType, StackType, life, poll, clock, hist
    <3> QED
      BY <2>0, <2>2, <3>1 DEF Handshake
  <2>3. CASE Loop
    BY <2>3, LoopKeeps
  <2>4. CASE EndOfCallback
    BY <2>0, <2>4, EndKeeps
  <2>5. CASE Application
    BY <2>5, ApplicationKeeps
  <2>6. CASE UNCHANGED vars
    BY <2>0, <2>6, TypeParts
    DEF vars, OtherTypes, LifeType, SockType, PollType, LoopType, HeldType, HistType,
        StackType, life, sock, poll, clock, hist
  <2> QED
    BY <2>1, <2>2, <2>3, <2>4, <2>5, <2>6 DEF Next
<1> QED
  BY <1>1, <1>2, PTL DEF Spec

\* Type correctness of a connection.
THEOREM TypeCorrect == Spec => []TypeOK
  BY InductiveStream, PTL

\* send, flush and the flush at connect hand the bytes to the kernel in order
\* and each once, but for the rest of a message whose send threw when part of it
\* was on the wire; whatever else the application and the network do.
THEOREM StreamStaysIntact == Spec => []StreamIntact
  BY InductiveStream, PTL

--------------------------------------------------------------------------------
(* The timer of a connection has a reason *)

\* Before the object exists nothing refers to it.
Unborn ==
  status = "none" =>
    /\ ~connected /\ ~timer /\ ~due
    /\ ready = {} /\ held = {} /\ stack = <<>>

\* A connection that is up has a timer only for its keepalive, and events and
\* an expired timer never wait together.
TimerReason ==
  /\ due => ready = {}
  /\ connected /\ (timer \/ due) => timeout

\* A heartbeat, after which the timer is armed again, is one of a keepalive.
Beats == \A i \in 1..Len(stack) : stack[i].cb = "onHeartbeat" => timeout

TimerInv == Unborn /\ TimerReason /\ Beats

\* Without an object there is no reference to it.
LEMMA NotAliveUnborn ==
  ASSUME Unborn, status = "none"
  PROVE  ~Alive /\ Idle
  BY DEF Unborn, Alive, Idle

\* Only the manager creates a connection, and only once.
LEMMA BornOnce ==
  ASSUME TypeOK, Unborn, Next, ~Create
  PROVE  status # "none" /\ status' # "none"
<1>1. status # "none"
  <2> SUFFICES ASSUME status = "none" PROVE FALSE
    OBVIOUS
  <2>1. ~Alive /\ Idle /\ ~due /\ ready = {} /\ held = {}
    BY NotAliveUnborn DEF Unborn
  <2>2. ~Loop
    BY <2>1 DEF Loop, EpollWait, Expire, Notify, SkipRemoved, CompleteConnect, OnReadData,
                OnReadError, OnReadNoSpace, OnWrite, OnWriteError, ConnectTimeout,
                OnTimeoutRearm, OnTimeoutHeartbeat, OnTimeoutRecv, Notified, Timeout
  <2>3. ~EndOfCallback
    BY <2>1 DEF EndOfCallback, Finish, FinishHeartbeat, FinishClose, FinishCreate, FailData,
                FailCallback, FailHeartbeat, FailClose, Ends
  <2>4. ~Application
    BY <2>1 DEF Application, Close, SetKeepaliveTimeout, Retain, Release, Send, MayUse
  <2>5. \A answer : ~Handshake(answer)
    BY DEF Handshake
  <2> QED
    BY <2>2, <2>3, <2>4, <2>5 DEF Next
<1>2. CASE Loop
  <2>1. ASSUME Shut PROVE status' # "none"
    BY <2>1 DEF Shut
  <2> QED
    BY <1>1, <1>2, <2>1
    DEF Loop, EpollWait, Expire, Notify, SkipRemoved, CompleteConnect, ConnectOk, Broken,
        OnReadData, OnReadError, OnReadNoSpace, OnWrite, OnWriteError, ConnectTimeout,
        OnTimeoutRearm, OnTimeoutHeartbeat, OnTimeoutRecv, life
<1>3. CASE EndOfCallback
  BY <1>1, <1>3
  DEF EndOfCallback, Finish, FinishHeartbeat, FinishClose, FinishCreate, FailData,
      FailCallback, FailHeartbeat, FailClose, Shut, life
<1>4. CASE Application
  BY <1>1, <1>4
  DEF Application, Close, SetKeepaliveTimeout, Retain, Release, Send, Shut, life
<1>5. ASSUME NEW answer, Handshake(answer) PROVE status' # "none"
  BY <1>1, <1>5 DEF Handshake, life
<1> QED
  BY <1>1, <1>2, <1>3, <1>4, <1>5 DEF Next

\* What the stack can do to the heartbeats in progress.
LEMMA BeatsStack ==
  ASSUME StackType, Beats, timeout => timeout'
  PROVE  /\ UNCHANGED stack => Beats'
         /\ ~Idle /\ Return => Beats'
         /\ \A cb \in Callbacks : ~Idle /\ Then(cb) /\ cb # "onHeartbeat" => Beats'
         /\ \A cb \in Callbacks, ref \in BOOLEAN :
              Call(cb, ref) /\ (cb = "onHeartbeat" => timeout') => Beats'
<1>0. Len(stack) \in Nat
  BY LenProperties DEF StackType
<1>1. UNCHANGED stack => Beats'
  BY DEF Beats
<1>2. ASSUME ~Idle, Return PROVE Beats'
  <2>1. Len(stack') = Len(stack) - 1 /\ \A i \in 1..(Len(stack) - 1) : stack'[i] = stack[i]
    BY <1>2, BelowProperties DEF Return
  <2> QED
    BY <1>0, <2>1 DEF Beats
<1>3. ASSUME NEW cb \in Callbacks, ~Idle, Then(cb), cb # "onHeartbeat" PROVE Beats'
  <2>1. /\ Len(stack') = Len(stack)
        /\ \A i \in 1..(Len(stack) - 1) : stack'[i] = stack[i]
        /\ stack'[Len(stack)].cb = cb
    BY <1>3, ThenProperties, FrameFields
  <2> QED
    BY <1>0, <1>3, <2>1 DEF Beats
<1>4. ASSUME NEW cb \in Callbacks, NEW ref \in BOOLEAN, Call(cb, ref),
             cb = "onHeartbeat" => timeout'
      PROVE  Beats'
  <2>1. /\ Len(stack') = Len(stack) + 1
        /\ \A i \in 1..Len(stack) : stack'[i] = stack[i]
        /\ stack'[Len(stack) + 1].cb = cb
    BY <1>4, CallProperties, FrameFields
  <2> QED
    BY <1>0, <1>4, <2>1 DEF Beats
<1> QED
  BY <1>1, <1>2, <1>3, <1>4

\* Every step keeps the reason of the timer.
LEMMA StepTimerInv == TypeOK /\ TimerInv /\ [Next]_vars => TimerInv'
<1> SUFFICES ASSUME TypeOK, Unborn, TimerReason, Beats, [Next]_vars PROVE TimerInv'
  BY DEF TimerInv
<1>0. StackType /\ LoopType /\ LifeType /\ SockType
  BY TypeParts
<1> DEFINE Kept == TimerReason' /\ Beats'
<1>1. CASE UNCHANGED vars
  BY <1>1 DEF vars, TimerInv, Unborn, TimerReason, Beats, life, sock, clock
<1>2. CASE Create
  <2>1. status = "none"
    BY <1>2 DEF Create, CreateTcpConnection, CreateTcpConnectionFails, CreateTcpClient,
                CreateImmediate, CreateFails
  <2>2. ~connected /\ ~timer /\ ~due /\ ready = {} /\ stack = <<>>
    BY <2>1 DEF Unborn
  <2>3. Unborn'
    BY <1>2
    DEF Create, CreateTcpConnection, CreateTcpConnectionFails, CreateTcpClient,
        CreateImmediate, CreateFails, Unborn
  <2>4. TimerReason'
    <3>1. ASSUME NEW keepalive \in BOOLEAN, CreateTcpConnection(keepalive)
          PROVE  TimerReason'
      BY <2>2, <3>1 DEF CreateTcpConnection, TimerReason
    <3>2. CASE CreateTcpClient
      BY <2>2, <3>2 DEF CreateTcpClient, TimerReason, sock
    <3>3. CASE CreateImmediate
      BY <2>2, <3>3 DEF CreateImmediate, TimerReason, sock, clock
    <3>4. CASE CreateFails
      BY <2>2, <3>4 DEF CreateFails, TimerReason, sock, clock
    <3>5. CASE CreateTcpConnectionFails
      BY <2>2, <3>5 DEF CreateTcpConnectionFails, TimerReason, sock, clock
    <3> QED
      BY <1>2, <3>1, <3>2, <3>3, <3>4, <3>5 DEF Create
  <2>5. Beats'
    <3>1. ASSUME NEW cb \in Callbacks, cb # "onHeartbeat", Call(cb, TRUE) PROVE Beats'
      <4>1. Len(stack) = 0
        BY <2>2
      <4>2. Len(stack') = Len(stack) + 1 /\ stack'[Len(stack) + 1] = Frame(cb, TRUE)
        BY <3>1, <1>0, CallProperties
      <4>3. Frame(cb, TRUE).cb = cb
        BY FrameFields
      <4>4. stack'[Len(stack) + 1].cb = cb
        BY <4>2, <4>3, Zenon
      <4>5. \A i \in 1..Len(stack') : i = Len(stack) + 1
        BY <4>1, <4>2
      <4> QED
        BY <3>1, <4>4, <4>5 DEF Beats
    <3>2. CASE CreateTcpClient \/ CreateTcpConnectionFails
      BY <2>2, <3>2 DEF CreateTcpClient, CreateTcpConnectionFails, Beats
    <3>3. CASE CreateImmediate
      <4>1. Len(stack') = 2 /\ stack'[1].cb = "create" /\ stack'[2].cb = "onConnected"
        BY <3>3, FrameFields DEF CreateImmediate
      <4> QED
        BY <4>1 DEF Beats
    <3> QED
      BY <1>2, <3>1, <3>2, <3>3
      DEF Create, CreateTcpConnection, CreateFails, Callbacks
  <2> QED
    BY <2>3, <2>4, <2>5 DEF TimerInv
<1>3. ASSUME NEW answer, Handshake(answer) PROVE Kept
  BY <1>3 DEF Handshake, TimerReason, Beats, life, clock
<1>4. ASSUME Loop PROVE Kept
  <2>1. UNCHANGED timeout
    BY <1>4
    DEF Loop, EpollWait, Expire, Notify, SkipRemoved, CompleteConnect, ConnectOk, Broken,
        OnReadData, OnReadError, OnReadNoSpace, OnWrite, OnWriteError, ConnectTimeout,
        OnTimeoutRearm, OnTimeoutHeartbeat, OnTimeoutRecv, life, Shut
  <2>2. Beats'
    <3>1. CASE UNCHANGED stack
      BY <1>0, <2>1, <3>1, BeatsStack
    <3>2. ASSUME NEW cb \in Callbacks, cb # "onHeartbeat", Call(cb, RefOfHandler) PROVE Beats'
      BY <1>0, <2>1, <3>2, BeatsStack DEF RefOfHandler
    <3>3. CASE OnTimeoutHeartbeat
      BY <1>0, <2>1, <3>3, BeatsStack DEF OnTimeoutHeartbeat, RefOfHandler, Callbacks
    <3> QED
      BY <1>4, <3>1, <3>2, <3>3
      DEF Loop, EpollWait, Expire, Notify, SkipRemoved, CompleteConnect, ConnectOk, Broken,
          OnReadData, OnReadError, OnReadNoSpace, OnWrite, OnWriteError, ConnectTimeout,
          OnTimeoutRearm, OnTimeoutRecv, Callbacks
  <2>3. TimerReason'
    <3>1. ASSUME NEW event, Notified(event) PROVE ~due' /\ due' = due
      BY <3>1 DEF Notified, TimerReason
    <3>2. ASSUME NEW event, CompleteConnect(event) PROVE TimerReason'
      BY <3>1, <3>2, <2>1 DEF CompleteConnect, Broken, Shut, ConnectOk, TimerReason
    <3>3. CASE OnReadData
      BY <3>1, <3>3, <2>1 DEF OnReadData, TimerReason, sock
    <3>4. CASE OnReadError \/ OnReadNoSpace \/ OnWriteError
      BY <3>1, <3>4 DEF OnReadError, OnReadNoSpace, OnWriteError, Broken, Shut, TimerReason
    <3>5. ASSUME NEW n, OnWrite(n) PROVE TimerReason'
      BY <3>1, <3>5, <2>1 DEF OnWrite, TimerReason, sock
    <3>6. CASE ConnectTimeout \/ OnTimeoutRecv
      BY <3>6 DEF ConnectTimeout, OnTimeoutRecv, Timeout, Shut, TimerReason
    <3>7. CASE OnTimeoutRearm \/ OnTimeoutHeartbeat
      BY <3>7, <2>1 DEF OnTimeoutRearm, OnTimeoutHeartbeat, Timeout, TimerReason
    <3>8. CASE SkipRemoved \/ Expire
      BY <3>8, <2>1 DEF SkipRemoved, Expire, TimerReason, sock
    <3>9. ASSUME NEW events, EpollWait(events) PROVE TimerReason'
      BY <3>9, <2>1 DEF EpollWait, TimerReason, sock, clock
    <3> QED
      BY <1>4, <3>2, <3>3, <3>4, <3>5, <3>6, <3>7, <3>8, <3>9 DEF Loop, Notify
  <2> QED
    BY <2>2, <2>3
<1>5. ASSUME EndOfCallback PROVE Kept
  <2>1. UNCHANGED <<timeout, connected, due, ready>>
    BY <1>5
    DEF EndOfCallback, Finish, FinishHeartbeat, FinishClose, FinishCreate, FailData,
        FailCallback, FailHeartbeat, FailClose, Shut, life, sock, clock
  <2>2. ~Idle /\ (Return \/ \E cb \in Callbacks : cb # "onHeartbeat" /\ Then(cb))
    BY <1>5
    DEF EndOfCallback, Finish, FinishHeartbeat, FinishClose, FinishCreate, FailData,
        FailCallback, FailHeartbeat, FailClose, Ends, Callbacks
  <2>3. Beats'
    BY <1>0, <2>1, <2>2, BeatsStack
  <2>4. CASE FinishHeartbeat
    <3>1. timeout
      <4>1. Len(stack) \in Nat \ {0} /\ stack[Len(stack)].cb = "onHeartbeat"
        BY <1>0, <2>4, BelowProperties DEF FinishHeartbeat, Ends, Top
      <4> QED
        BY <4>1 DEF Beats
    <3> QED
      BY <2>1, <2>3, <3>1 DEF TimerReason
  <2>5. CASE ~FinishHeartbeat
    <3>1. timer' = timer \/ ~timer'
      BY <1>5, <2>5
      DEF EndOfCallback, Finish, FinishClose, FinishCreate, FailData,
          FailCallback, FailHeartbeat, FailClose, Shut, clock
    <3> QED
      BY <2>1, <2>3, <3>1 DEF TimerReason
  <2> QED
    BY <2>4, <2>5
<1>6. ASSUME Application PROVE Kept
  <2>1. timeout => timeout'
    BY <1>6
    DEF Application, Close, SetKeepaliveTimeout, Retain, Release, Send, Shut, life
  <2>2. Beats'
    <3>1. UNCHANGED stack \/ Call("onInitiativeClose", FALSE)
      BY <1>6 DEF Application, Close, SetKeepaliveTimeout, Retain, Release, Send
    <3>2. "onInitiativeClose" \in Callbacks
      BY DEF Callbacks
    <3> QED
      BY <1>0, <2>1, <3>1, <3>2, BeatsStack
  <2>3. TimerReason'
    <3>1. CASE Close
      BY <3>1 DEF Close, Shut, TimerReason, sock
    <3>2. CASE SetKeepaliveTimeout
      BY <3>2 DEF SetKeepaliveTimeout, TimerReason
    <3>3. CASE UNCHANGED <<life, sock, clock, ready>>
      BY <3>3 DEF TimerReason, life, sock, clock
    <3> QED
      BY <1>6, <3>1, <3>2, <3>3 DEF Application, Retain, Release, Send
  <2> QED
    BY <2>2, <2>3
<1>7. CASE Next /\ ~Create
  <2>1. Unborn'
    BY <1>7, BornOnce DEF Unborn
  <2> QED
    BY <1>3, <1>4, <1>5, <1>6, <1>7, <2>1 DEF Next, TimerInv
<1> QED
  BY <1>1, <1>2, <1>7

\* The invariant of the timer holds in every reachable state, for every Uses.
LEMMA InductiveTimer == Spec => []TimerInv
<1>1. Init => TimerInv
  BY DEF Init, TimerInv, Unborn, TimerReason, Beats
<1> QED
  BY <1>1, StepTimerInv, TypeCorrect, PTL DEF Spec

\* The assert(false) of TcpConnection::onTimeout is never reached, whatever the
\* application and the network do: a connection that is up and whose timer
\* expires has asked for a keepalive.
THEOREM TimeoutIsKeepalive == Spec => []TimeoutHasReason
<1>1. TimerInv => TimeoutHasReason
  BY DEF TimerInv, TimerReason, TimeoutHasReason
<1> QED
  BY <1>1, InductiveTimer, PTL

--------------------------------------------------------------------------------
(* A connect in progress is guarded *)

\* While the connect is in progress no handler runs: the object is kept by the
\* manager alone, and its socket is not connected.
Connecting ==
  status = "CONNECTTING" =>
    /\ ~connected /\ held = {"manager"} /\ stack = <<>>
    /\ "WRITE" \in watched /\ (timer \/ due)

ConnectInv ==
  /\ status = "none" => selevent = {} /\ watched = {}
  /\ Connecting

\* No step but the creation leads to a connect in progress, and the steps that
\* do not end it leave its guards alone.
LEMMA StepConnectInv == TimerInv /\ TypeOK /\ ConnectInv /\ [Next]_vars => ConnectInv'
<1> SUFFICES ASSUME TypeOK, TimerInv, ConnectInv, [Next]_vars PROVE ConnectInv'
  OBVIOUS
<1>1. CASE UNCHANGED vars
  BY <1>1 DEF vars, ConnectInv, Connecting, life, sock, poll, clock
<1>2. CASE Create
  <2>1. CASE CreateTcpClient
    <3>1. selevent = {} /\ watched = {} /\ ~connected /\ stack = <<>>
      BY <2>1 DEF CreateTcpClient, ConnectInv, TimerInv, Unborn
    <3>2. "WRITE" \in watched'
      BY <2>1, <3>1 DEF CreateTcpClient, Select, Events
    <3> QED
      BY <2>1, <3>1, <3>2 DEF CreateTcpClient, ConnectInv, Connecting, sock
  <2>2. CASE ~CreateTcpClient
    BY <1>2, <2>2
    DEF Create, CreateTcpConnection, CreateTcpConnectionFails, CreateImmediate, CreateFails,
        ConnectInv, Connecting
  <2> QED
    BY <2>1, <2>2
<1>3. ASSUME Next, ~Create PROVE Connecting'
  <2>1. SUFFICES ASSUME status' = "CONNECTTING" PROVE Connecting'
    BY DEF Connecting
  <2>2. status = "CONNECTTING"
    BY <1>3, <2>1
    DEF Next, Handshake, Loop, EpollWait, Expire, Notify, SkipRemoved, CompleteConnect,
        ConnectOk, Broken, OnReadData, OnReadError, OnReadNoSpace, OnWrite, OnWriteError,
        ConnectTimeout, OnTimeoutRearm, OnTimeoutHeartbeat, OnTimeoutRecv, EndOfCallback,
        Finish, FinishHeartbeat, FinishClose, FinishCreate, FailData, FailCallback,
        FailHeartbeat, FailClose, Application, Close, SetKeepaliveTimeout, Retain, Release,
        Send, Shut, life
  <2>3. /\ ~connected /\ held = {"manager"} /\ stack = <<>>
        /\ "WRITE" \in watched /\ (timer \/ due)
    BY <2>2 DEF ConnectInv, Connecting
  <2>4. Alive /\ Idle
    BY <2>3 DEF Alive, Idle
  <2>5. ~EndOfCallback
    BY <2>4
    DEF EndOfCallback, Finish, FinishHeartbeat, FinishClose, FinishCreate, FailData,
        FailCallback, FailHeartbeat, FailClose, Ends
  <2>6. ASSUME NEW answer, Handshake(answer) PROVE Connecting'
    BY <2>3, <2>6 DEF Handshake, Connecting, poll, clock
  <2>7. ASSUME Loop PROVE Connecting'
    <3>1. (\E events \in SUBSET Events : EpollWait(events)) \/ Expire
      BY <2>1, <2>3, <2>4, <2>7
      DEF Loop, Notify, SkipRemoved, CompleteConnect, ConnectOk, Broken, OnReadData,
          OnReadError, OnReadNoSpace, OnWrite, OnWriteError, ConnectTimeout,
          OnTimeoutRearm, OnTimeoutHeartbeat, OnTimeoutRecv, Shut
    <3> QED
      BY <2>3, <3>1 DEF EpollWait, Expire, Connecting, sock, poll, clock
  <2>8. ASSUME Application PROVE Connecting'
    <3>1. CASE Close \/ Retain \/ Release
      BY <2>1, <2>3, <2>4, <3>1 DEF Close, Retain, Release, Shut
    <3>2. CASE SetKeepaliveTimeout
      BY <2>3, <3>2 DEF SetKeepaliveTimeout, Connecting, sock, poll
    <3>3. ASSUME NEW k, Send(k) PROVE Connecting'
      BY <2>3, <3>3 DEF Send, SendDirect, SendPartThrows, SendQueued, Connecting, sock, poll, clock
    <3> QED
      BY <2>8, <3>1, <3>2, <3>3 DEF Application
  <2> QED
    BY <1>3, <2>5, <2>6, <2>7, <2>8 DEF Next
<1>4. CASE Next /\ ~Create
  <2>1. status' # "none"
    BY <1>4, BornOnce DEF TimerInv
  <2> QED
    BY <1>3, <1>4, <2>1 DEF ConnectInv
<1> QED
  BY <1>1, <1>2, <1>4

\* A peer that does not answer cannot keep a connect: as long as it lasts its
\* timer is armed or about to be notified, the object is there to be told and
\* epoll reports an answer.  For every use the application makes of it.
THEOREM ConnectIsGuarded == Spec => []ConnectGuarded
<1>1. Init => ConnectInv
  BY DEF Init, ConnectInv, Connecting
<1>2. ConnectInv => ConnectGuarded
  BY DEF ConnectInv, Connecting, ConnectGuarded, Alive
<1> QED
  BY <1>1, <1>2, StepConnectInv, InductiveTimer, TypeCorrect, PTL DEF Spec

--------------------------------------------------------------------------------
(* A closed connection is forgotten *)

\* Nothing but the manager keeps the object, and the manager is told of every
\* close: the application keeps no reference and no close callback throws.
Forgets == {"retain", "throwInClose"} \cap Uses = {}

CloseCallbacks == {"onClose", "onInitiativeClose", "onCloseFull"}

Open == {"CONNECTTING", "ESTABLISHED"}

\* Who keeps the object: the manager, from the creation until the callback that
\* reports the close returns, unless the connection came up in the constructor.
RefInv ==
  /\ held \subseteq {"manager"}
  /\ \A i \in 1..Len(stack) : stack[i].cb \in CloseCallbacks => Closed
  /\ Closed /\ held # {} => \E i \in 1..Len(stack) : stack[i].cb \in CloseCallbacks
  /\ \A i \in 1..Len(stack) : stack[i].cb = "create" => i = 1 /\ ~stack[i].ref /\ held = {}
  /\ status \in Open => held # {} \/ (Len(stack) > 0 /\ stack[1].cb = "create")

\* Between two callbacks only a holder keeps the object.
LEMMA AliveWhenIdle == Idle => (Alive <=> held # {})
  BY DEF Idle, Alive

\* A notification finds an open connection that the manager keeps.
LEMMA IdleIsOpen ==
  ASSUME TypeOK, Unborn, RefInv, Idle, Alive
  PROVE  status \in Open /\ held # {}
<1>1. held # {} /\ Len(stack) = 0
  BY AliveWhenIdle DEF Idle
<1>2. status # "none"
  BY <1>1 DEF Unborn
<1>3. ~Closed
  <2>1. ~ \E i \in 1..Len(stack) : stack[i].cb \in CloseCallbacks
    BY <1>1
  <2> QED
    BY <1>1, <2>1 DEF RefInv
<1> QED
  BY <1>1, <1>2, <1>3 DEF TypeOK, Open, Closed

\* A call of a close callback closes the connection; any other call is made
\* between two callbacks, by a connection that is open.
LEMMA RefCall ==
  ASSUME StackType, RefInv, NEW cb \in Callbacks \ {"create"}, NEW ref \in BOOLEAN,
         Call(cb, ref), UNCHANGED held,
         \/ cb \in CloseCallbacks /\ status' = "DISCONNECTED"
         \/ cb \notin CloseCallbacks /\ Idle /\ held # {} /\ status' \in Open
  PROVE  RefInv'
<1>1. /\ Len(stack') = Len(stack) + 1 /\ Len(stack) \in Nat
      /\ \A i \in 1..Len(stack) : stack'[i] = stack[i]
      /\ stack'[Len(stack) + 1].cb = cb
  BY CallProperties, FrameFields, LenProperties DEF StackType
<1>2. \A i \in 1..Len(stack') : i \in 1..Len(stack) \/ i = Len(stack) + 1
  BY <1>1
<1>3. Len(stack) + 1 \in 1..Len(stack')
  BY <1>1
<1>4. CASE cb \in CloseCallbacks /\ status' = "DISCONNECTED"
  <2>1. Closed' /\ status' \notin Open
    BY <1>4 DEF Closed, Open
  <2>2. (\E i \in 1..Len(stack) : stack[i].cb \in CloseCallbacks)'
    BY <1>1, <1>3, <1>4
  <2>3. \A i \in 1..Len(stack') :
          stack'[i].cb = "create" => i = 1 /\ ~stack'[i].ref /\ held' = {}
    BY <1>1, <1>2, <1>4 DEF RefInv
  <2> QED
    BY <2>1, <2>2, <2>3 DEF RefInv
<1>5. CASE cb \notin CloseCallbacks /\ Idle /\ held # {} /\ status' \in Open
  <2>1. Len(stack) = 0 /\ ~Closed'
    BY <1>5 DEF Idle, Open, Closed
  <2>2. \A i \in 1..Len(stack') : stack'[i].cb = cb
    BY <1>1, <1>2, <2>1
  <2> QED
    BY <1>5, <2>1, <2>2 DEF RefInv
<1> QED
  BY <1>4, <1>5

\* The return of a callback that reports no close.
LEMMA RefReturn ==
  ASSUME StackType, RefInv, ~Idle, Top.cb \notin CloseCallbacks, Top.cb # "create", Return,
         UNCHANGED <<held, status>>
  PROVE  RefInv'
<1>1. /\ Len(stack') = Len(stack) - 1 /\ Len(stack) \in Nat \ {0}
      /\ \A i \in 1..(Len(stack) - 1) : stack'[i] = stack[i]
  BY BelowProperties DEF Return
<1>2. \A i \in 1..Len(stack') : i \in 1..Len(stack) /\ i \in 1..(Len(stack) - 1)
  BY <1>1
<1>3. Closed' = Closed
  BY DEF Closed
<1>4. \A i \in 1..Len(stack) : i \in 1..Len(stack') \/ i = Len(stack)
  BY <1>1
<1>5. (\E i \in 1..Len(stack) : stack[i].cb \in CloseCallbacks)
        => (\E i \in 1..Len(stack) : stack[i].cb \in CloseCallbacks)'
  BY <1>1, <1>2, <1>4 DEF Top
<1>6. Len(stack) > 0 /\ stack[1].cb = "create" => Len(stack') > 0 /\ stack'[1].cb = "create"
  <2> SUFFICES ASSUME stack[1].cb = "create" PROVE Len(stack') > 0 /\ stack'[1].cb = "create"
    OBVIOUS
  <2>1. Len(stack) # 1
    BY DEF Top
  <2>2. 1 \in 1..(Len(stack) - 1)
    BY <1>1, <2>1
  <2> QED
    BY <1>1, <2>1, <2>2
<1> QED
  BY <1>1, <1>2, <1>3, <1>5, <1>6 DEF RefInv

\* Another callback in the place of one that returned.
LEMMA RefThen ==
  ASSUME StackType, RefInv, ~Idle, NEW cb \in Callbacks \ {"create"}, Then(cb), Closed',
         cb \in CloseCallbacks \/ held' = {}, held' \subseteq held
  PROVE  RefInv'
<1>1. /\ Len(stack') = Len(stack) /\ Len(stack) \in Nat \ {0}
      /\ \A i \in 1..(Len(stack) - 1) : stack'[i] = stack[i]
      /\ stack'[Len(stack)].cb = cb
  BY ThenProperties, BelowProperties, FrameFields
<1>2. \A i \in 1..Len(stack') : i \in 1..(Len(stack) - 1) \/ i = Len(stack)
  BY <1>1
<1>3. Len(stack) \in 1..Len(stack')
  BY <1>1
<1>4. status' \notin Open
  BY DEF Closed, Open
<1>5. held' # {} => (\E i \in 1..Len(stack) : stack[i].cb \in CloseCallbacks)'
  BY <1>1, <1>3
<1>6. \A i \in 1..Len(stack') :
        stack'[i].cb = "create" => i = 1 /\ ~stack'[i].ref /\ held' = {}
  <2>1. \A i \in 1..(Len(stack) - 1) : i \in 1..Len(stack)
    BY <1>1
  <2> QED
    BY <1>1, <1>2, <2>1 DEF RefInv
<1> QED
  BY <1>4, <1>5, <1>6 DEF RefInv

\* Every step keeps the references in order.
LEMMA StepRefInv ==
  ASSUME Forgets, TypeOK, Unborn, RefInv, [Next]_vars
  PROVE  RefInv'
<1>0. StackType /\ HeldType
  BY TypeParts
<1>1. ASSUME UNCHANGED <<status, held, stack>> PROVE RefInv'
  BY <1>1 DEF RefInv, Closed
<1>2. CASE Create
  <2>1. status = "none" /\ stack = <<>> /\ held = {} /\ Len(stack) = 0
    BY <1>2
    DEF Create, CreateTcpConnection, CreateTcpConnectionFails, CreateTcpClient,
        CreateImmediate, CreateFails, Unborn
  <2>2. ASSUME NEW cb \in Callbacks \ ({"create"} \cup CloseCallbacks), Call(cb, TRUE),
               held' \subseteq {"manager"}, status' \in Open => held' # {}, Closed' => held' = {}
        PROVE  RefInv'
    <3>1. Len(stack') = 1 /\ stack'[1].cb = cb
      <4>1. Len(stack') = Len(stack) + 1 /\ stack'[Len(stack) + 1] = Frame(cb, TRUE)
        BY <1>0, <2>2, CallProperties
      <4>2. Frame(cb, TRUE).cb = cb
        BY FrameFields
      <4>3. stack'[Len(stack) + 1].cb = cb
        BY <4>1, <4>2, Zenon
      <4> QED
        BY <2>1, <4>1, <4>3
    <3>2. \A i \in 1..Len(stack') : stack'[i].cb = cb
      BY <3>1
    <3> QED
      BY <2>2, <3>2 DEF RefInv
  <2>3. ASSUME NEW keepalive, CreateTcpConnection(keepalive) PROVE RefInv'
    <3>1. "onAccepted" \in Callbacks \ ({"create"} \cup CloseCallbacks)
      BY DEF Callbacks, CloseCallbacks
    <3> QED
      BY <2>2, <2>3, <3>1 DEF CreateTcpConnection, Closed
  <2>4. CASE CreateTcpClient
    <3>1. Len(stack') = 0
      BY <2>1, <2>4 DEF CreateTcpClient
    <3>2. \A i : i \notin 1..Len(stack')
      BY <3>1
    <3> QED
      BY <2>4, <3>2 DEF CreateTcpClient, RefInv, Closed
  <2>5. CASE CreateImmediate
    <3>1. /\ Len(stack') = 2 /\ stack'[1].cb = "create" /\ stack'[1].ref = FALSE
          /\ stack'[2].cb = "onConnected"
      BY <2>5, FrameFields DEF CreateImmediate
    <3>2. \A i \in 1..Len(stack') : i = 1 \/ i = 2
      BY <3>1
    <3>3. held' = {} /\ ~Closed'
      BY <2>1, <2>5 DEF CreateImmediate, Closed
    <3> QED
      BY <3>1, <3>2, <3>3 DEF RefInv, CloseCallbacks
  <2>6. CASE CreateFails
    <3>1. "onCreateFailed" \in Callbacks \ ({"create"} \cup CloseCallbacks)
      BY DEF Callbacks, CloseCallbacks
    <3> QED
      BY <2>1, <2>2, <2>6, <3>1 DEF CreateFails, Open
  <2>7. CASE CreateTcpConnectionFails
    <3>1. \A i : i \notin 1..Len(stack')
      BY <2>1, <2>7 DEF CreateTcpConnectionFails
    <3> QED
      BY <2>1, <2>7, <3>1 DEF CreateTcpConnectionFails, RefInv, Open
  <2> QED
    BY <1>2, <2>3, <2>4, <2>5, <2>6, <2>7 DEF Create
<1>3. ASSUME Idle, Alive, UNCHANGED held, NEW cb \in CloseCallbacks, NEW ref \in BOOLEAN,
             Call(cb, ref), status' = "DISCONNECTED"
      PROVE  RefInv'
  BY <1>0, <1>3, RefCall DEF CloseCallbacks, Callbacks
<1>4. ASSUME Idle, Alive, UNCHANGED held, NEW cb \in Callbacks \ ({"create"} \cup CloseCallbacks),
             Call(cb, TRUE), status' = status \/ status' = "ESTABLISHED"
      PROVE  RefInv'
  <2>1. status' \in Open /\ held # {}
    BY <1>4, IdleIsOpen DEF Open
  <2> QED
    BY <1>0, <1>4, <2>1, RefCall
<1>5. CASE Loop
  <2>1. ASSUME NEW event, CompleteConnect(event) PROVE RefInv'
    <3>1. Idle /\ Alive /\ UNCHANGED held
      BY <2>1 DEF CompleteConnect, Notified
    <3>2. CASE Broken
      BY <1>3, <3>1, <3>2 DEF Broken, Shut, RefOfHandler, CloseCallbacks
    <3>3. ASSUME NEW n, ConnectOk(n) PROVE RefInv'
      BY <1>4, <3>1, <3>3 DEF ConnectOk, RefOfHandler, CloseCallbacks, Callbacks
    <3> QED
      BY <2>1, <3>2, <3>3 DEF CompleteConnect
  <2>2. CASE OnReadData
    BY <1>4, <2>2 DEF OnReadData, Notified, RefOfHandler, CloseCallbacks, Callbacks, life
  <2>3. CASE OnReadError \/ OnReadNoSpace \/ OnWriteError
    BY <1>3, <2>3
    DEF OnReadError, OnReadNoSpace, OnWriteError, Broken, Shut, Notified, RefOfHandler,
        CloseCallbacks
  <2>4. ASSUME NEW n, OnWrite(n) PROVE RefInv'
    <3>1. Idle /\ Alive /\ UNCHANGED <<held, status>>
      BY <2>4 DEF OnWrite, Notified, life
    <3>2. CASE UNCHANGED stack
      BY <1>1, <3>1, <3>2
    <3>3. CASE Call("onWrite", RefOfHandler)
      BY <1>4, <3>1, <3>3 DEF RefOfHandler, CloseCallbacks, Callbacks
    <3> QED
      BY <2>4, <3>2, <3>3 DEF OnWrite
  <2>5. CASE ConnectTimeout \/ OnTimeoutRecv
    BY <1>3, <2>5 DEF ConnectTimeout, OnTimeoutRecv, Timeout, Shut, RefOfHandler, CloseCallbacks
  <2>6. CASE OnTimeoutHeartbeat
    BY <1>4, <2>6 DEF OnTimeoutHeartbeat, Timeout, RefOfHandler, CloseCallbacks, Callbacks, life
  <2>7. CASE UNCHANGED <<status, held, stack>>
    BY <1>1, <2>7
  <2> QED
    BY <1>5, <2>1, <2>2, <2>3, <2>4, <2>5, <2>6, <2>7
    DEF Loop, EpollWait, Expire, Notify, SkipRemoved, OnTimeoutRearm, Timeout, life
<1>6. CASE EndOfCallback
  <2>0. ~Idle /\ Alive /\ Len(stack) \in Nat \ {0} /\ Len(stack) \in 1..Len(stack)
    <3>1. ~Idle /\ Alive
      BY <1>6
      DEF EndOfCallback, Finish, FinishHeartbeat, FinishClose, FinishCreate, FailData,
          FailCallback, FailHeartbeat, FailClose, Ends
    <3> QED
      BY <1>0, <3>1, BelowProperties
  <2>1. CASE Finish \/ FinishHeartbeat \/ FailHeartbeat
    <3>1. Top.cb \notin CloseCallbacks /\ Top.cb # "create"
      BY <2>1 DEF Finish, FinishHeartbeat, FailHeartbeat, Ends, CloseCallbacks
    <3>2. Return /\ UNCHANGED <<held, status>>
      BY <2>1 DEF Finish, FinishHeartbeat, FailHeartbeat, life
    <3> QED
      BY <1>0, <2>0, <3>1, <3>2, RefReturn
  <2>2. CASE FinishClose
    <3>1. Top.cb \in CloseCallbacks /\ UNCHANGED status /\ held' = held \ {"manager"}
      BY <2>2 DEF FinishClose, Ends, CloseCallbacks, life
    <3>2. Closed /\ Closed' /\ held' = {}
      BY <2>0, <3>1 DEF RefInv, Top, Closed
    <3>3. CASE Then("onData")
      BY <1>0, <2>0, <3>2, <3>3, RefThen DEF Callbacks
    <3>4. CASE Return
      <4>1. /\ Len(stack') = Len(stack) - 1
            /\ \A i \in 1..(Len(stack) - 1) : stack'[i] = stack[i]
        BY <1>0, <2>0, <3>4, BelowProperties DEF Return
      <4>2. \A i \in 1..Len(stack') : i \in 1..Len(stack) /\ stack'[i] = stack[i]
        BY <2>0, <4>1
      <4> QED
        BY <3>2, <4>2 DEF RefInv, Open, Closed
    <3> QED
      BY <2>2, <3>3, <3>4 DEF FinishClose
  <2>3. ASSUME FinishCreate PROVE FALSE
    <3>1. stack[Len(stack)].cb = "create"
      BY <2>3 DEF FinishCreate, Ends, Top
    <3>2. Len(stack) = 1 /\ ~stack[1].ref /\ held = {}
      BY <2>0, <3>1 DEF RefInv
    <3>3. DOMAIN stack = 1..1
      BY <1>0, <3>2 DEF StackType
    <3> QED
      BY <2>0, <3>2, <3>3 DEF Alive
  <2>4. CASE FailData \/ FailCallback
    <3>1. PICK cb \in CloseCallbacks : Then(cb)
      BY <2>4 DEF FailData, FailCallback, CloseCallbacks
    <3>2. Closed' /\ held' \subseteq held /\ cb \in Callbacks \ {"create"}
      BY <2>4, <3>1 DEF FailData, FailCallback, Shut, Closed, CloseCallbacks, Callbacks
    <3> QED
      BY <1>0, <2>0, <3>1, <3>2, RefThen
  <2>5. ~FailClose
    BY DEF FailClose, Forgets
  <2> QED
    BY <1>6, <2>1, <2>2, <2>3, <2>4, <2>5 DEF EndOfCallback
<1>7. CASE Application
  <2>1. CASE Close
    <3>1. "onInitiativeClose" \in Callbacks \ {"create"} /\ "onInitiativeClose" \in CloseCallbacks
      BY DEF Callbacks, CloseCallbacks
    <3>2. Call("onInitiativeClose", FALSE) /\ status' = "DISCONNECTED" /\ UNCHANGED held
      BY <2>1 DEF Close, Shut
    <3> QED
      BY <1>0, <3>1, <3>2, RefCall
  <2>2. ~Retain /\ ~Release
    BY DEF Retain, Release, Forgets, RefInv
  <2> QED
    BY <1>1, <1>7, <2>1, <2>2 DEF Application, SetKeepaliveTimeout, Send, life
<1> QED
  BY <1>1, <1>2, <1>5, <1>6, <1>7 DEF Next, Handshake, vars, life

\* The references are in order in every reachable state.
LEMMA InductiveRefs == ASSUME Forgets PROVE Spec => []RefInv
<1>1. Init => RefInv
  BY DEF Init, RefInv, Closed, Open
<1>2. TypeOK /\ TimerInv /\ RefInv /\ [Next]_vars => RefInv'
  BY StepRefInv DEF TimerInv
<1> QED
  BY <1>1, <1>2, TypeCorrect, InductiveTimer, PTL DEF Spec

\* Unless the application keeps a reference or a close callback throws, a
\* closed connection is forgotten: the last callback leaves no reference to it.
THEOREM ClosedConnectionsAreForgotten ==
  ASSUME Forgets PROVE Spec => []ClosedIsForgotten
<1>1. RefInv => ClosedIsForgotten
  <2> SUFFICES ASSUME RefInv, Closed, Idle PROVE ~Alive
    BY DEF ClosedIsForgotten
  <2>1. Len(stack) = 0
    BY DEF Idle
  <2>2. ~ \E i \in 1..Len(stack) : stack[i].cb \in CloseCallbacks
    BY <2>1
  <2> QED
    BY <2>2, AliveWhenIdle DEF RefInv
<1> QED
  BY <1>1, InductiveRefs, PTL

--------------------------------------------------------------------------------
(* The registration with epoll follows the output *)

\* While connecting every event is watched; once up, room to write is watched
\* exactly when bytes are queued.  A closed connection may have any of it.
PollInv ==
  /\ status = "none" => selevent = {} /\ watched = {} /\ output = <<>>
  /\ status = "CONNECTTING" => selevent = Events /\ watched = Events /\ ~connected
  /\ status = "ESTABLISHED" =>
       /\ connected /\ watched = selevent /\ "READ" \in selevent
       /\ ("WRITE" \in selevent) <=> (output # <<>>)

\* What is left of the output after `n' bytes of it were sent.
LEMMA FlushedRest ==
  ASSUME TypeOK, NEW n \in Nat, n <= Len(output), Flushed(n)
  PROVE  (output' = <<>>) <=> (n = Len(output))
<1>1. output \in Seq(Bytes) /\ Len(output) \in Nat
  BY TypeParts DEF BytesType
<1>2. output' \in Seq(Bytes) /\ Len(output') = Len(output) - n
  BY <1>1, SplitSeq DEF Flushed
<1>3. (output' = <<>>) <=> (Len(output') = 0)
  BY <1>2, EmptySeq
<1> QED
  BY <1>1, <1>2, <1>3

\* A send that leaves bytes behind leaves some in the output.
LEMMA SendRest ==
  ASSUME TypeOK, NEW k \in 1..MaxBytes, total + k <= MaxBytes
  PROVE  /\ \A n \in 0..MaxBytes : n <= k => ((NewBytes(n + 1, k) = <<>>) <=> (n = k))
         /\ output \o NewBytes(1, k) # <<>>
<1>0. k \in Nat \ {0} /\ MaxBytes \in Nat
  BY TcpConnectionAssumption
<1>1. ASSUME NEW n \in 0..MaxBytes, n <= k
      PROVE  NewBytes(n + 1, k) \in Seq(Bytes) /\ Len(NewBytes(n + 1, k)) = k - n
  <2>1. n + 1 \in 1..(k + 1) /\ k + 1 - (n + 1) = k - n
    BY <1>0, <1>1
  <2> QED
    BY <1>0, <2>1, NewBytesType
<1>2. ASSUME NEW n \in 0..MaxBytes, n <= k
      PROVE  (NewBytes(n + 1, k) = <<>>) <=> (n = k)
  <2>1. (NewBytes(n + 1, k) = <<>>) <=> (Len(NewBytes(n + 1, k)) = 0)
    BY <1>1, <1>2, EmptySeq
  <2> QED
    BY <1>0, <1>1, <1>2, <2>1
<1>3. output \o NewBytes(1, k) # <<>>
  <2>1. NewBytes(1, k) \in Seq(Bytes) /\ Len(NewBytes(1, k)) = k
    BY <1>0, NewBytesType
  <2>2. output \in Seq(Bytes) /\ Len(output) \in Nat
    BY TypeParts DEF BytesType
  <2>3. output \o NewBytes(1, k) \in Seq(Bytes) /\ Len(output \o NewBytes(1, k)) = Len(output) + k
    BY <2>1, <2>2, ConcatProperties
  <2>4. Len(output \o NewBytes(1, k)) # 0
    BY <1>0, <2>2, <2>3
  <2> QED
    BY <2>3, <2>4, EmptySeq
<1> QED
  BY <1>2, <1>3

\* Every step keeps the registration in line with the output.
LEMMA StepPollInv ==
  ASSUME TypeOK, Unborn, RefInv, PollInv, [Next]_vars
  PROVE  PollInv'
<1>1. ASSUME UNCHANGED <<status, selevent, watched, connected, output>> PROVE PollInv'
  BY <1>1 DEF PollInv
<1>2. ASSUME Closed' PROVE PollInv'
  BY <1>2 DEF PollInv, Closed
<1>3. CASE Create
  <2>1. status = "none" /\ selevent = {} /\ watched = {} /\ output = <<>> /\ ~connected
    BY <1>3
    DEF Create, CreateTcpConnection, CreateTcpConnectionFails, CreateTcpClient,
        CreateImmediate, CreateFails, PollInv,
        Unborn
  <2>2. ASSUME NEW keepalive, CreateTcpConnection(keepalive) PROVE PollInv'
    BY <2>1, <2>2 DEF CreateTcpConnection, Select, PollInv, bytes
  <2>3. CASE CreateTcpClient
    BY <2>1, <2>3 DEF CreateTcpClient, Select, PollInv, Events, sock
  <2>4. CASE CreateImmediate
    BY <2>1, <2>4 DEF CreateImmediate, Select, PollInv, bytes
  <2>5. CASE CreateFails \/ CreateTcpConnectionFails
    BY <1>2, <2>5 DEF CreateFails, CreateTcpConnectionFails, Closed
  <2> QED
    BY <1>3, <2>2, <2>3, <2>4, <2>5 DEF Create
<1>4. CASE Loop
  <2>1. ASSUME NEW event, CompleteConnect(event) PROVE PollInv'
    <3>1. status = "CONNECTTING"
      BY <2>1, IdleIsOpen DEF CompleteConnect, Notified, Open, PollInv
    <3>2. CASE Broken
      BY <1>2, <3>2 DEF Broken, Shut, Closed
    <3>3. ASSUME NEW n \in 0..MaxBytes, ConnectOk(n), ~soerror PROVE PollInv'
      <4>1. (output' = <<>>) <=> (n = Len(output))
        BY <3>3, FlushedRest DEF ConnectOk
      <4>2. status' = "ESTABLISHED" /\ connected'
        BY <2>1, <3>3 DEF ConnectOk, CompleteConnect
      <4>3. n <= Len(output) /\ n \in Nat /\ Len(output) \in Nat
        BY <3>3, TypeParts, LenProperties DEF ConnectOk, BytesType
      <4>4. CASE n < Len(output)
        <5>1. Select(Events, Events) /\ output' # <<>>
          BY <3>3, <4>1, <4>3, <4>4 DEF ConnectOk
        <5>2. selevent' = Events /\ watched' = Events
          BY <3>1, <5>1 DEF Select, PollInv
        <5> QED
          BY <4>2, <5>1, <5>2 DEF PollInv, Events
      <4>5. CASE ~(n < Len(output))
        <5>1. Select(Events, {"READ"}) /\ output' = <<>>
          BY <3>3, <4>1, <4>3, <4>5 DEF ConnectOk
        <5>2. selevent' = {"READ"} /\ watched' = {"READ"}
          BY <3>1, <5>1 DEF Select, PollInv, Events
        <5> QED
          BY <4>2, <5>1, <5>2 DEF PollInv
      <4> QED
        BY <4>4, <4>5
    <3> QED
      BY <2>1, <3>2, <3>3 DEF CompleteConnect
  <2>2. CASE OnReadError \/ OnReadNoSpace \/ OnWriteError \/ ConnectTimeout \/ OnTimeoutRecv
    BY <1>2, <2>2
    DEF OnReadError, OnReadNoSpace, OnWriteError, ConnectTimeout, OnTimeoutRecv, Broken, Shut,
        Closed
  <2>3. ASSUME NEW n \in 0..MaxBytes, OnWrite(n) PROVE PollInv'
    <3>1. status = "ESTABLISHED" /\ status' = "ESTABLISHED" /\ connected'
      BY <2>3, IdleIsOpen DEF OnWrite, Notified, Open, PollInv, life, sock
    <3>2. (output' = <<>>) <=> (n = Len(output))
      BY <2>3, FlushedRest DEF OnWrite
    <3>3. n <= Len(output) /\ n \in Nat /\ Len(output) \in Nat
      BY <2>3, TypeParts, LenProperties DEF OnWrite, BytesType
    <3>4. CASE output # <<>> /\ n = Len(output)
      <4>1. Select({"WRITE"}, {}) /\ output' = <<>>
        BY <2>3, <3>2, <3>4 DEF OnWrite
      <4>2. selevent' = selevent \ {"WRITE"} /\ watched' = selevent'
        BY <3>1, <3>4, <4>1 DEF Select, PollInv
      <4> QED
        BY <3>1, <4>1, <4>2 DEF PollInv
    <3>5. CASE ~(output # <<>> /\ n = Len(output))
      <4>1. UNCHANGED <<selevent, watched>>
        BY <2>3, <3>5 DEF OnWrite, poll
      <4>2. (output' = <<>>) <=> (output = <<>>)
        <5>1. output = <<>> => Len(output) = 0
          OBVIOUS
        <5> QED
          BY <3>2, <3>3, <3>5, <5>1
      <4> QED
        BY <3>1, <4>1, <4>2 DEF PollInv
    <3> QED
      BY <3>4, <3>5
  <2> QED
    BY <1>1, <1>4, <2>1, <2>2, <2>3
    DEF Loop, EpollWait, Expire, Notify, SkipRemoved, OnReadData, OnTimeoutRearm,
        OnTimeoutHeartbeat, Timeout, life, sock, poll, bytes
<1>5. CASE EndOfCallback
  <2>1. CASE FailData \/ FailCallback
    BY <1>2, <2>1 DEF FailData, FailCallback, Shut, Closed
  <2>2. CASE FailClose
    <3>1. Closed
      <4>1. ~Idle /\ Top.cb \in CloseCallbacks
        BY <2>2 DEF FailClose, Ends, CloseCallbacks
      <4>2. Len(stack) \in 1..Len(stack)
        BY <4>1, TypeParts, BelowProperties
      <4> QED
        BY <4>1, <4>2 DEF RefInv, Top
    <3> QED
      BY <1>2, <2>2, <3>1 DEF FailClose, Closed, life
  <2> QED
    BY <1>1, <1>5, <2>1, <2>2
    DEF EndOfCallback, Finish, FinishHeartbeat, FinishClose, FinishCreate, FailHeartbeat,
        life, sock, poll, bytes
<1>6. CASE Application
  <2>1. CASE Close
    BY <1>2, <2>1 DEF Close, Shut, Closed
  <2>2. ASSUME NEW k \in 1..MaxBytes, Send(k) PROVE PollInv'
    <3>1. UNCHANGED <<status, connected>> /\ total + k <= MaxBytes /\ status # "none"
      BY <2>2, NotAliveUnborn DEF Send, MayUse, life, sock
    <3>2. CASE SendQueued(k)
      <4>1. output' # <<>> /\ UNCHANGED <<selevent, watched>>
        BY <3>1, <3>2, SendRest DEF SendQueued, poll
      <4> QED
        BY <3>1, <3>2, <4>1 DEF SendQueued, PollInv
    <3>3. ASSUME NEW n \in 0..MaxBytes, SendDirect(k, n) PROVE PollInv'
      <4>1. connected /\ output = <<>> /\ n <= k /\ output' = NewBytes(n + 1, k)
        BY <3>3 DEF SendDirect
      <4>2. (output' = <<>>) <=> (n = k)
        BY <3>1, <4>1, SendRest
      <4>3. n \in Nat /\ k \in Nat
        BY TcpConnectionAssumption
      <4>4. CASE n < k
        <5>1. Select({}, {"WRITE"}) /\ output' # <<>>
          BY <3>3, <4>2, <4>3, <4>4 DEF SendDirect
        <5>2. ASSUME status = "ESTABLISHED"
              PROVE  selevent' = selevent \cup {"WRITE"} /\ watched' = selevent'
          BY <4>1, <5>1, <5>2 DEF Select, PollInv
        <5> QED
          BY <3>1, <4>1, <5>1, <5>2 DEF PollInv
      <4>5. CASE ~(n < k)
        <5>1. UNCHANGED <<selevent, watched>> /\ output' = <<>>
          BY <3>3, <4>1, <4>2, <4>3, <4>5 DEF SendDirect, poll
        <5> QED
          BY <3>1, <4>1, <5>1 DEF PollInv
      <4> QED
        BY <4>4, <4>5
    <3>4. ASSUME NEW n \in 0..MaxBytes, SendPartThrows(k, n) PROVE PollInv'
      BY <1>1, <3>1, <3>4 DEF SendPartThrows, poll
    <3> QED
      BY <2>2, <3>2, <3>3, <3>4 DEF Send
  <2> QED
    BY <1>1, <1>6, <2>1, <2>2
    DEF Application, SetKeepaliveTimeout, Retain, Release, life, sock, poll, bytes
<1> QED
  BY <1>1, <1>3, <1>4, <1>5, <1>6 DEF Next, Handshake, vars, life, sock, poll, bytes

\* The registration follows the output in every reachable state.
LEMMA InductivePoll == ASSUME Forgets PROVE Spec => []PollInv
<1>1. Init => PollInv
  BY DEF Init, PollInv
<1>2. TypeOK /\ TimerInv /\ RefInv /\ PollInv /\ [Next]_vars => PollInv'
  BY StepPollInv DEF TimerInv
<1> QED
  BY <1>1, <1>2, TypeCorrect, InductiveTimer, InductiveRefs, PTL DEF Spec

\* Through direct sends, partial sends and flushes, and nested in any
\* callbacks, an established connection watches for room to write exactly when
\* it has bytes to write.
THEOREM WriteIsWatched == ASSUME Forgets PROVE Spec => []WriteWatchedIffQueued
<1>1. PollInv => WriteWatchedIffQueued
  BY DEF PollInv, WriteWatchedIffQueued
<1> QED
  BY <1>1, InductivePoll, PTL

--------------------------------------------------------------------------------
(* The end of a connection is reported once *)

\* The application does nothing more with a connection that is closed.
Leaves == {"useClosed", "failAfterClose"} \cap Uses = {}

\* A report of the end closes the connection.
OnceInv == ends <= 1 /\ (~Closed => ends = 0)

\* Every step that closes finds an open connection.
LEMMA StepOnceInv ==
  ASSUME Leaves, TypeOK, Unborn, RefInv, OnceInv, [Next]_vars
  PROVE  OnceInv'
<1>1. ASSUME UNCHANGED <<status, ends>> PROVE OnceInv'
  BY <1>1 DEF OnceInv, Closed
<1>2. ASSUME ~Closed, Shut PROVE OnceInv'
  BY <1>2 DEF OnceInv, Shut, Closed
<1>3. ASSUME Idle, Alive PROVE ~Closed
  BY <1>3, IdleIsOpen DEF Open, Closed
<1>4. CASE Create
  <2>1. status = "none" /\ ends = 0
    BY <1>4
    DEF Create, CreateTcpConnection, CreateTcpConnectionFails, CreateTcpClient,
        CreateImmediate, CreateFails, OnceInv,
        Closed
  <2>2. ASSUME NEW keepalive, CreateTcpConnection(keepalive) PROVE OnceInv'
    BY <2>1, <2>2 DEF CreateTcpConnection, OnceInv, hist
  <2>3. CASE CreateTcpClient \/ CreateImmediate
    BY <2>1, <2>3 DEF CreateTcpClient, CreateImmediate, OnceInv, hist
  <2>4. CASE CreateFails
    BY <2>1, <2>4 DEF CreateFails, OnceInv, Closed
  <2>5. CASE CreateTcpConnectionFails
    BY <2>1, <2>5 DEF CreateTcpConnectionFails, OnceInv, hist
  <2> QED
    BY <1>4, <2>2, <2>3, <2>4, <2>5 DEF Create
<1>5. CASE Loop
  <2>1. ASSUME NEW event, CompleteConnect(event) PROVE OnceInv'
    <3>1. ~Closed
      BY <1>3, <2>1 DEF CompleteConnect, Notified
    <3>2. ASSUME NEW n, ConnectOk(n) PROVE OnceInv'
      BY <3>1, <3>2 DEF ConnectOk, OnceInv, hist
    <3> QED
      BY <1>2, <2>1, <3>1, <3>2 DEF CompleteConnect, Broken
  <2>2. CASE OnReadError \/ OnReadNoSpace \/ OnWriteError \/ ConnectTimeout \/ OnTimeoutRecv
    BY <1>2, <1>3, <2>2
    DEF OnReadError, OnReadNoSpace, OnWriteError, ConnectTimeout, OnTimeoutRecv, Broken,
        Notified, Timeout
  <2> QED
    BY <1>1, <1>5, <2>1, <2>2
    DEF Loop, EpollWait, Expire, Notify, SkipRemoved, OnReadData, OnWrite, OnTimeoutRearm,
        OnTimeoutHeartbeat, Timeout, life, hist
<1>6. CASE EndOfCallback
  <2>1. CASE FailData \/ FailCallback
    BY <1>2, <2>1 DEF FailData, FailCallback, MayFail, Leaves
  <2> QED
    BY <1>1, <1>6, <2>1
    DEF EndOfCallback, Finish, FinishHeartbeat, FinishClose, FinishCreate, FailHeartbeat,
        FailClose, life, hist
<1>7. CASE Application
  <2>1. CASE Close
    BY <1>2, <2>1 DEF Close, MayUse, Leaves
  <2> QED
    BY <1>1, <1>7, <2>1
    DEF Application, SetKeepaliveTimeout, Retain, Release, Send, life, hist
<1> QED
  BY <1>1, <1>4, <1>5, <1>6, <1>7 DEF Next, Handshake, vars, life, hist

\* An application that keeps no reference, and does nothing more with a
\* connection that is closed, hears of the end of the connection once,
\* whichever of the handlers and timers that close it come together.
THEOREM EndIsReportedOnce ==
  ASSUME Forgets, Leaves PROVE Spec => []CloseReportedOnce
<1>1. Init => OnceInv
  BY DEF Init, OnceInv
<1>2. TypeOK /\ TimerInv /\ RefInv /\ OnceInv /\ [Next]_vars => OnceInv'
  BY StepOnceInv DEF TimerInv
<1>3. OnceInv => CloseReportedOnce
  BY DEF OnceInv, CloseReportedOnce
<1> QED
  BY <1>1, <1>2, <1>3, TypeCorrect, InductiveTimer, InductiveRefs, PTL DEF Spec

\* Without a full input buffer there is no close that goes on to onData.
NoFull == \A i \in 1..Len(stack) : stack[i].cb # "onCloseFull"

\* Only the input buffer at its limit makes that callback.
LEMMA InductiveNoFull == ASSUME "flood" \notin Uses PROVE Spec => []NoFull
<1>1. Init => NoFull
  BY DEF Init, NoFull
<1>2. TypeOK /\ NoFull /\ [Next]_vars => NoFull'
  <2> SUFFICES ASSUME StackType, NoFull, [Next]_vars PROVE NoFull'
    BY TypeParts
  <2>0. Len(stack) \in Nat
    BY LenProperties DEF StackType
  <2>1. ASSUME NEW cb \in Callbacks \ {"onCloseFull"}, NEW ref \in BOOLEAN, Call(cb, ref)
        PROVE  NoFull'
    <3>1. /\ Len(stack') = Len(stack) + 1
          /\ \A i \in 1..Len(stack) : stack'[i] = stack[i]
          /\ stack'[Len(stack) + 1].cb = cb
      BY <2>1, CallProperties, FrameFields
    <3> QED
      BY <2>0, <3>1 DEF NoFull
  <2>2. ASSUME ~Idle, NEW cb \in Callbacks \ {"onCloseFull"}, Then(cb) PROVE NoFull'
    <3>1. /\ Len(stack') = Len(stack)
          /\ \A i \in 1..(Len(stack) - 1) : stack'[i] = stack[i]
          /\ stack'[Len(stack)].cb = cb
      BY <2>2, ThenProperties, FrameFields
    <3> QED
      BY <2>0, <3>1 DEF NoFull
  <2>3. ASSUME ~Idle, Return PROVE NoFull'
    <3>1. Len(stack') = Len(stack) - 1 /\ \A i \in 1..(Len(stack) - 1) : stack'[i] = stack[i]
      BY <2>3, BelowProperties DEF Return
    <3> QED
      BY <2>0, <3>1 DEF NoFull
  <2>4. CASE UNCHANGED stack
    BY <2>4 DEF NoFull
  <2>5. CASE CreateImmediate
    <3>1. Len(stack') = 2 /\ stack'[1].cb = "create" /\ stack'[2].cb = "onConnected"
      BY <2>5, FrameFields DEF CreateImmediate
    <3> QED
      BY <3>1 DEF NoFull
  <2>6. CASE Create
    BY <2>1, <2>4, <2>5, <2>6
    DEF Create, CreateTcpConnection, CreateTcpConnectionFails, CreateTcpClient, CreateFails, Callbacks
  <2>7. CASE Loop
    BY <2>1, <2>4, <2>7
    DEF Loop, EpollWait, Expire, Notify, SkipRemoved, CompleteConnect, ConnectOk, Broken,
        OnReadData, OnReadError, OnReadNoSpace, OnWrite, OnWriteError, ConnectTimeout,
        OnTimeoutRearm, OnTimeoutHeartbeat, OnTimeoutRecv, Callbacks, RefOfHandler
  <2>8. CASE EndOfCallback
    BY <2>2, <2>3, <2>8
    DEF EndOfCallback, Finish, FinishHeartbeat, FinishClose, FinishCreate, FailData,
        FailCallback, FailHeartbeat, FailClose, Ends, Callbacks
  <2>9. CASE Application
    BY <2>1, <2>4, <2>9
    DEF Application, Close, SetKeepaliveTimeout, Retain, Release, Send, Callbacks
  <2> QED
    BY <2>4, <2>6, <2>7, <2>8, <2>9 DEF Next, Handshake, vars
<1> QED
  BY <1>1, <1>2, TypeCorrect, PTL DEF Spec

\* Nor does a closed connection make any other callback, unless the input
\* buffer ran full: the handler then goes on to onData.
THEOREM ClosedIsSilent ==
  ASSUME Forgets, Leaves, "flood" \notin Uses PROVE Spec => NoCallbackAfterClose
<1>1. TypeOK /\ TimerInv /\ RefInv /\ NoFull /\ [Next]_vars
        => [Closed /\ Len(stack') >= Len(stack) => stack' = stack]_vars
  <2> SUFFICES ASSUME TypeOK, Unborn, RefInv, NoFull, Next, Closed, stack' # stack
               PROVE  Len(stack') < Len(stack)
    BY LenProperties, TypeParts DEF TimerInv, StackType
  <2>0. StackType
    BY TypeParts
  <2>1. ~(Idle /\ Alive)
    BY IdleIsOpen DEF Open, Closed
  <2>2. ~Create
    BY DEF Create, CreateTcpConnection, CreateTcpConnectionFails, CreateTcpClient,
           CreateImmediate, CreateFails, Closed
  <2>3. ~Loop
    BY <2>1
    DEF Loop, EpollWait, Expire, Notify, SkipRemoved, CompleteConnect, OnReadData, OnReadError,
        OnReadNoSpace, OnWrite, OnWriteError, ConnectTimeout, OnTimeoutRearm,
        OnTimeoutHeartbeat, OnTimeoutRecv, Notified, Timeout
  <2>4. ~Application
    BY DEF Application, Close, SetKeepaliveTimeout, Retain, Release, Send, MayUse, Leaves
  <2>5. \A answer : ~Handshake(answer)
    BY DEF Handshake
  <2>6. EndOfCallback
    BY <2>2, <2>3, <2>4, <2>5 DEF Next
  <2>7. ~Idle /\ Return
    <3>1. ~Idle
      BY <2>6
      DEF EndOfCallback, Finish, FinishHeartbeat, FinishClose, FinishCreate, FailData,
          FailCallback, FailHeartbeat, FailClose, Ends
    <3>2. Top.cb # "onCloseFull"
      BY <2>0, <3>1, BelowProperties DEF NoFull, Top
    <3>3. ~FailData /\ ~FailCallback
      BY DEF FailData, FailCallback, MayFail, Leaves
    <3> QED
      BY <2>6, <3>1, <3>2, <3>3
      DEF EndOfCallback, Finish, FinishHeartbeat, FinishClose, FinishCreate, FailHeartbeat,
          FailClose
  <2> QED
    BY <2>0, <2>7, BelowProperties DEF Return
<1> QED
  BY <1>1, TypeCorrect, InductiveTimer, InductiveRefs, InductiveNoFull, PTL
  DEF Spec, NoCallbackAfterClose

--------------------------------------------------------------------------------
(* A keepalive stays armed *)

\* No heartbeat throws and no keepalive is asked for before the connection is up.
Beating == {"throwInBeat", "earlyKeepalive"} \cap Uses = {}

\* The timer is armed, about to be notified, or its handler is in its callback.
KeepInv ==
  /\ status \in {"none", "CONNECTTING"} => ~timeout
  /\ status = "ESTABLISHED" /\ timeout =>
       timer \/ due \/ \E i \in 1..Len(stack) : stack[i].cb = "onHeartbeat"

\* Every step keeps the keepalive armed.
LEMMA StepKeepInv ==
  ASSUME Forgets, Beating, TypeOK, Unborn, RefInv, PollInv, KeepInv, [Next]_vars
  PROVE  KeepInv'
<1>0. StackType /\ Len(stack) \in Nat
  BY TypeParts, LenProperties DEF StackType
<1>1. ASSUME Closed' PROVE KeepInv'
  BY <1>1 DEF KeepInv, Closed
<1>2. ASSUME UNCHANGED <<status, timeout>>, timer => timer', due => due',
             (\E i \in 1..Len(stack) : stack[i].cb = "onHeartbeat")
               => (\E i \in 1..Len(stack) : stack[i].cb = "onHeartbeat")'
      PROVE  KeepInv'
  BY <1>2 DEF KeepInv
<1>3. ASSUME NEW cb \in Callbacks, NEW ref \in BOOLEAN, Call(cb, ref)
      PROVE  (\E i \in 1..Len(stack) : stack[i].cb = "onHeartbeat") \/ cb = "onHeartbeat"
               => (\E i \in 1..Len(stack) : stack[i].cb = "onHeartbeat")'
  <2>1. /\ Len(stack') = Len(stack) + 1
        /\ \A i \in 1..Len(stack) : stack'[i] = stack[i]
        /\ stack'[Len(stack) + 1].cb = cb
    BY <1>0, <1>3, CallProperties, FrameFields
  <2>2. \A i \in 1..Len(stack) : i \in 1..Len(stack')
    BY <1>0, <2>1
  <2>3. Len(stack) + 1 \in 1..Len(stack')
    BY <1>0, <2>1
  <2> QED
    BY <2>1, <2>2, <2>3
<1>4. CASE Create
  <2>1. status = "none" /\ ~timeout /\ ~timer /\ ~due
    BY <1>4
    DEF Create, CreateTcpConnection, CreateTcpConnectionFails, CreateTcpClient,
        CreateImmediate, CreateFails, KeepInv,
        Unborn
  <2>2. ASSUME NEW keepalive \in BOOLEAN, CreateTcpConnection(keepalive) PROVE KeepInv'
    BY <2>2 DEF CreateTcpConnection, KeepInv
  <2>3. CASE CreateTcpClient \/ CreateImmediate
    <3>1. ~timeout'
      BY <2>1, <2>3 DEF CreateTcpClient, CreateImmediate
    <3> QED
      BY <3>1 DEF KeepInv
  <2>4. CASE CreateFails \/ CreateTcpConnectionFails
    BY <1>1, <2>4 DEF CreateFails, CreateTcpConnectionFails, Closed
  <2> QED
    BY <1>4, <2>2, <2>3, <2>4 DEF Create
<1>5. CASE Loop
  <2>1. ASSUME NEW event, CompleteConnect(event) PROVE KeepInv'
    <3>1. status = "CONNECTTING"
      BY <2>1, IdleIsOpen DEF CompleteConnect, Notified, Open, PollInv
    <3>2. ASSUME NEW n, ConnectOk(n) PROVE KeepInv'
      BY <3>1, <3>2 DEF ConnectOk, KeepInv
    <3>3. CASE Broken
      BY <1>1, <3>3 DEF Broken, Shut, Closed
    <3> QED
      BY <2>1, <3>2, <3>3 DEF CompleteConnect
  <2>2. CASE OnReadError \/ OnReadNoSpace \/ OnWriteError \/ ConnectTimeout \/ OnTimeoutRecv
    BY <1>1, <2>2
    DEF OnReadError, OnReadNoSpace, OnWriteError, ConnectTimeout, OnTimeoutRecv, Broken, Shut,
        Closed
  <2>3. CASE OnReadData
    <3>1. "onData" \in Callbacks /\ Call("onData", TRUE)
      BY <2>3 DEF OnReadData, Callbacks, RefOfHandler
    <3> QED
      BY <1>2, <1>3, <2>3, <3>1 DEF OnReadData, Notified, life
  <2>4. ASSUME NEW n, OnWrite(n) PROVE KeepInv'
    <3>1. UNCHANGED <<status, timeout, timer, due>>
      BY <2>4 DEF OnWrite, Notified, life
    <3>2. CASE UNCHANGED stack
      BY <1>2, <3>1, <3>2
    <3>3. CASE Call("onWrite", TRUE)
      <4>1. "onWrite" \in Callbacks
        BY DEF Callbacks
      <4> QED
        BY <1>2, <1>3, <3>1, <3>3, <4>1
    <3> QED
      BY <2>4, <3>2, <3>3 DEF OnWrite, RefOfHandler
  <2>5. CASE OnTimeoutRearm
    BY <2>5 DEF OnTimeoutRearm, KeepInv, life
  <2>6. CASE OnTimeoutHeartbeat
    <3>1. "onHeartbeat" \in Callbacks /\ Call("onHeartbeat", TRUE)
      BY <2>6 DEF OnTimeoutHeartbeat, Callbacks, RefOfHandler
    <3>2. (\E i \in 1..Len(stack) : stack[i].cb = "onHeartbeat")'
      BY <1>3, <3>1
    <3> QED
      BY <2>6, <3>2 DEF OnTimeoutHeartbeat, KeepInv, life
  <2>7. CASE Expire
    BY <2>7 DEF Expire, KeepInv, life
  <2>8. CASE SkipRemoved
    <3>1. status # "ESTABLISHED" /\ UNCHANGED <<status, timeout>>
      <4>1. Len(stack) = 0 /\ held = {}
        BY <2>8, AliveWhenIdle DEF SkipRemoved, Idle
      <4> QED
        BY <2>8, <4>1 DEF SkipRemoved, RefInv, Open, life
    <3> QED
      BY <3>1 DEF KeepInv
  <2>9. ASSUME NEW events, EpollWait(events) PROVE KeepInv'
    BY <1>2, <2>9 DEF EpollWait, life, clock
  <2> QED
    BY <1>5, <2>1, <2>2, <2>3, <2>4, <2>5, <2>6, <2>7, <2>8, <2>9 DEF Loop, Notify
<1>6. CASE EndOfCallback
  <2>1. CASE FailData \/ FailCallback
    BY <1>1, <2>1 DEF FailData, FailCallback, Shut, Closed
  <2>2. CASE FinishHeartbeat
    BY <2>2 DEF FinishHeartbeat, KeepInv, life
  <2>3. ~FailHeartbeat /\ ~FailClose
    BY DEF FailHeartbeat, FailClose, Forgets, Beating
  <2>4. CASE Finish \/ FinishClose \/ FinishCreate
    <3>1. /\ ~Idle /\ Top.cb # "onHeartbeat" /\ UNCHANGED <<status, timeout, timer, due>>
          /\ Return \/ Then("onData")
      BY <2>4 DEF Finish, FinishClose, FinishCreate, Ends, life, clock
    <3>2. /\ Len(stack) \in Nat \ {0} /\ Len(stack') \in {Len(stack), Len(stack) - 1}
          /\ \A i \in 1..(Len(stack) - 1) : stack'[i] = stack[i]
      BY <1>0, <3>1, BelowProperties, ThenProperties DEF Return, Callbacks
    <3>3. \A i \in 1..Len(stack) : i \in 1..(Len(stack) - 1) \/ i = Len(stack)
      BY <3>2
    <3>4. \A i \in 1..(Len(stack) - 1) : i \in 1..Len(stack')
      BY <3>2
    <3>5. (\E i \in 1..Len(stack) : stack[i].cb = "onHeartbeat")
               => (\E i \in 1..Len(stack) : stack[i].cb = "onHeartbeat")'
      BY <3>1, <3>2, <3>3, <3>4 DEF Top
    <3> QED
      BY <1>2, <3>1, <3>5
  <2> QED
    BY <1>6, <2>1, <2>2, <2>3, <2>4 DEF EndOfCallback
<1>7. CASE Application
  <2>1. CASE Close
    BY <1>1, <2>1 DEF Close, Shut, Closed
  <2>2. CASE SetKeepaliveTimeout
    <3>1. status \notin {"none", "CONNECTTING"} /\ status' = status /\ timer'
      BY <2>2, NotAliveUnborn DEF SetKeepaliveTimeout, MayUse, Beating
    <3> QED
      BY <3>1 DEF KeepInv
  <2> QED
    BY <1>2, <1>7, <2>1, <2>2 DEF Application, Retain, Release, Send, life, clock
<1> QED
  BY <1>2, <1>4, <1>5, <1>6, <1>7 DEF Next, Handshake, vars, life, clock

\* A keepalive that was asked for on a connection that is up stays armed:
\* no order of expiry, heartbeat, traffic and nested calls loses its timer.
THEOREM KeepaliveStaysArmed ==
  ASSUME Forgets, Beating PROVE Spec => []KeepaliveArmed
<1>1. Init => KeepInv
  BY DEF Init, KeepInv
<1>2. TypeOK /\ TimerInv /\ RefInv /\ PollInv /\ KeepInv /\ [Next]_vars => KeepInv'
  BY StepKeepInv DEF TimerInv
<1>3. KeepInv => KeepaliveArmed
  <2>1. ASSUME Idle PROVE ~ \E i \in 1..Len(stack) : stack[i].cb = "onHeartbeat"
    <3>1. Len(stack) = 0
      BY <2>1 DEF Idle
    <3> QED
      BY <3>1
  <2> QED
    BY <2>1 DEF KeepInv, KeepaliveArmed
<1> QED
  BY <1>1, <1>2, <1>3, TypeCorrect, InductiveTimer, InductiveRefs, InductivePoll, PTL DEF Spec

--------------------------------------------------------------------------------
(* The object outlives its callbacks *)

\* The application keeps no reference and does nothing with a closed connection,
\* and no connection comes up inside its constructor.
Plain == {"retain", "useClosed", "immediate"} \cap Uses = {}

\* The manager keeps an open connection, and a handler without a reference (that
\* of IConnection::close) is the innermost one: the manager keeps the object
\* until it returns.
OutInv ==
  /\ held \subseteq {"manager"}
  /\ status \in Open => held # {}
  /\ \A i \in 1..Len(stack) : stack[i].cb \in CloseCallbacks => Closed
  /\ \A i \in 1..Len(stack) : ~stack[i].ref =>
       i = Len(stack) /\ held # {} /\ Closed /\ stack[i].cb = "onInitiativeClose"

\* No connection came up inside its constructor.
NoCreate == \A i \in 1..Len(stack) : stack[i].cb # "create"

\* Only a ::connect that succeeds at once leaves the constructor on the stack.
LEMMA InductiveNoCreate == ASSUME "immediate" \notin Uses PROVE Spec => []NoCreate
<1>1. Init => NoCreate
  BY DEF Init, NoCreate
<1>2. TypeOK /\ NoCreate /\ [Next]_vars => NoCreate'
  <2> SUFFICES ASSUME StackType, NoCreate, [Next]_vars PROVE NoCreate'
    BY TypeParts
  <2>0. Len(stack) \in Nat
    BY LenProperties DEF StackType
  <2>1. ASSUME NEW cb \in Callbacks \ {"create"}, NEW ref \in BOOLEAN, Call(cb, ref)
        PROVE  NoCreate'
    <3>1. /\ Len(stack') = Len(stack) + 1
          /\ \A i \in 1..Len(stack) : stack'[i] = stack[i]
          /\ stack'[Len(stack) + 1].cb = cb
      BY <2>1, CallProperties, FrameFields
    <3> QED
      BY <2>0, <3>1 DEF NoCreate
  <2>2. ASSUME ~Idle, NEW cb \in Callbacks \ {"create"}, Then(cb) PROVE NoCreate'
    <3>1. /\ Len(stack') = Len(stack)
          /\ \A i \in 1..(Len(stack) - 1) : stack'[i] = stack[i]
          /\ stack'[Len(stack)].cb = cb
      BY <2>2, ThenProperties, FrameFields
    <3> QED
      BY <2>0, <3>1 DEF NoCreate
  <2>3. ASSUME ~Idle, Return PROVE NoCreate'
    <3>1. Len(stack') = Len(stack) - 1 /\ \A i \in 1..(Len(stack) - 1) : stack'[i] = stack[i]
      BY <2>3, BelowProperties DEF Return
    <3> QED
      BY <2>0, <3>1 DEF NoCreate
  <2>4. CASE UNCHANGED stack
    BY <2>4 DEF NoCreate
  <2>5. ~CreateImmediate
    BY DEF CreateImmediate
  <2>6. CASE Create
    BY <2>1, <2>4, <2>5, <2>6
    DEF Create, CreateTcpConnection, CreateTcpConnectionFails, CreateTcpClient, CreateFails, Callbacks
  <2>7. CASE Loop
    BY <2>1, <2>4, <2>7
    DEF Loop, EpollWait, Expire, Notify, SkipRemoved, CompleteConnect, ConnectOk, Broken,
        OnReadData, OnReadError, OnReadNoSpace, OnWrite, OnWriteError, ConnectTimeout,
        OnTimeoutRearm, OnTimeoutHeartbeat, OnTimeoutRecv, Callbacks, RefOfHandler
  <2>8. CASE EndOfCallback
    BY <2>2, <2>3, <2>8
    DEF EndOfCallback, Finish, FinishHeartbeat, FinishClose, FinishCreate, FailData,
        FailCallback, FailHeartbeat, FailClose, Ends, Callbacks
  <2>9. CASE Application
    BY <2>1, <2>4, <2>9
    DEF Application, Close, SetKeepaliveTimeout, Retain, Release, Send, Callbacks
  <2> QED
    BY <2>4, <2>6, <2>7, <2>8, <2>9 DEF Next, Handshake, vars
<1> QED
  BY <1>1, <1>2, TypeCorrect, PTL DEF Spec

\* Every step leaves the object to somebody.
LEMMA StepOutInv ==
  ASSUME Plain, TypeOK, Unborn, NoCreate, OutInv, [Next]_vars
  PROVE  OutInv'
<1>0. StackType /\ Len(stack) \in Nat
  BY TypeParts, LenProperties DEF StackType
<1>1. ASSUME UNCHANGED <<status, held, stack>> PROVE OutInv'
  BY <1>1 DEF OutInv, Closed
<1>2. ASSUME Idle, NEW cb \in Callbacks, Call(cb, TRUE), held' \subseteq {"manager"},
             status' \in Open => held' # {}, cb \in CloseCallbacks => Closed'
      PROVE  OutInv'
  <2>1. Len(stack) = 0
    BY <1>2 DEF Idle
  <2>2. Len(stack') = 1 /\ stack'[1].ref = TRUE
    <3>1. Len(stack') = Len(stack) + 1 /\ stack'[Len(stack) + 1] = Frame(cb, TRUE)
      BY <1>0, <1>2, CallProperties
    <3>2. Frame(cb, TRUE).ref = TRUE
      BY FrameFields
    <3>3. Len(stack) + 1 = 1
      BY <2>1
    <3> QED
      BY <3>1, <3>2, <3>3, Zenon
  <2>3. stack'[1].cb = cb
    <3>1. Len(stack') = Len(stack) + 1 /\ stack'[Len(stack) + 1] = Frame(cb, TRUE)
      BY <1>0, <1>2, CallProperties
    <3>2. Len(stack) + 1 = 1
      BY <2>1
    <3>3. Frame(cb, TRUE).cb = cb
      BY FrameFields
    <3> QED
      BY <3>1, <3>2, <3>3, Zenon
  <2>4. \A i \in 1..Len(stack') : i = 1
    BY <2>2
  <2> QED
    BY <1>2, <2>2, <2>3, <2>4 DEF OutInv
<1>3. CASE Create
  <2>1. Idle
    BY <1>3
    DEF Create, CreateTcpConnection, CreateTcpConnectionFails, CreateTcpClient,
        CreateImmediate, CreateFails, Unborn, Idle
  <2>2. ASSUME NEW keepalive, CreateTcpConnection(keepalive) PROVE OutInv'
    BY <1>2, <2>1, <2>2 DEF CreateTcpConnection, Callbacks, CloseCallbacks
  <2>3. CASE CreateTcpClient
    BY <2>1, <2>3 DEF CreateTcpClient, OutInv, Idle
  <2>4. ~CreateImmediate
    BY DEF CreateImmediate, Plain
  <2>5. CASE CreateFails \/ CreateTcpConnectionFails
    <3>1. CASE CreateFails
      BY <1>2, <2>1, <3>1 DEF CreateFails, Callbacks, CloseCallbacks, OutInv, Open
    <3>2. CASE CreateTcpConnectionFails
      BY <2>1, <3>2 DEF CreateTcpConnectionFails, Idle, OutInv, Open
    <3> QED
      BY <2>5, <3>1, <3>2
  <2> QED
    BY <1>3, <2>2, <2>3, <2>4, <2>5 DEF Create
<1>4. ASSUME Idle, Alive, UNCHANGED held, NEW cb \in Callbacks, Call(cb, TRUE),
             cb \in CloseCallbacks => Closed'
      PROVE  OutInv'
  BY <1>2, <1>4, AliveWhenIdle DEF OutInv
<1>5. CASE Loop
  <2>0. ASSUME Shut PROVE Closed'
    BY <2>0 DEF Shut, Closed
  <2>1. ASSUME NEW event, CompleteConnect(event) PROVE OutInv'
    <3>1. Idle /\ Alive /\ UNCHANGED held
      BY <2>1 DEF CompleteConnect, Notified
    <3>2. CASE Broken
      BY <1>4, <2>0, <3>1, <3>2 DEF Broken, RefOfHandler, Callbacks
    <3>3. ASSUME NEW n, ConnectOk(n) PROVE OutInv'
      BY <1>4, <3>1, <3>3 DEF ConnectOk, RefOfHandler, Callbacks, CloseCallbacks
    <3> QED
      BY <2>1, <3>2, <3>3 DEF CompleteConnect
  <2>2. CASE OnReadData
    BY <1>4, <2>2 DEF OnReadData, Notified, RefOfHandler, Callbacks, CloseCallbacks
  <2>3. CASE OnReadError \/ OnReadNoSpace \/ OnWriteError
    BY <1>4, <2>0, <2>3
    DEF OnReadError, OnReadNoSpace, OnWriteError, Notified, Broken, RefOfHandler, Callbacks
  <2>4. ASSUME NEW n, OnWrite(n) PROVE OutInv'
    <3>1. Idle /\ Alive /\ UNCHANGED <<held, status>>
      BY <2>4 DEF OnWrite, Notified, life
    <3>2. CASE UNCHANGED stack
      BY <1>1, <3>1, <3>2
    <3>3. CASE Call("onWrite", RefOfHandler)
      BY <1>4, <3>1, <3>3 DEF RefOfHandler, CloseCallbacks, Callbacks
    <3> QED
      BY <2>4, <3>2, <3>3 DEF OnWrite
  <2>5. CASE ConnectTimeout \/ OnTimeoutRecv
    BY <1>4, <2>0, <2>5 DEF ConnectTimeout, OnTimeoutRecv, Timeout, RefOfHandler, Callbacks
  <2>6. CASE OnTimeoutHeartbeat
    BY <1>4, <2>6 DEF OnTimeoutHeartbeat, Timeout, RefOfHandler, Callbacks, CloseCallbacks
  <2>7. CASE UNCHANGED <<status, held, stack>>
    BY <1>1, <2>7
  <2> QED
    BY <1>5, <2>1, <2>2, <2>3, <2>4, <2>5, <2>6, <2>7
    DEF Loop, EpollWait, Expire, Notify, SkipRemoved, OnTimeoutRearm, Timeout, life
<1>6. ASSUME ~Idle, Return, UNCHANGED status, held' \subseteq held,
             status \in Open => held' = held
      PROVE  OutInv'
  <2>1. /\ Len(stack') = Len(stack) - 1 /\ Len(stack) \in Nat \ {0}
        /\ \A i \in 1..(Len(stack) - 1) : stack'[i] = stack[i]
    BY <1>0, <1>6, BelowProperties DEF Return
  <2>2. \A i \in 1..Len(stack') : i \in 1..Len(stack) /\ i # Len(stack) /\ stack'[i] = stack[i]
    BY <2>1
  <2>3. Closed' = Closed
    BY <1>6 DEF Closed
  <2> QED
    BY <1>6, <2>2, <2>3 DEF OutInv
<1>7. ASSUME ~Idle, NEW cb \in Callbacks, Then(cb), Top.cb # "onInitiativeClose",
             held' \subseteq held, Closed'
      PROVE  OutInv'
  <2>1. /\ Len(stack') = Len(stack) /\ Len(stack) \in Nat \ {0}
        /\ \A i \in 1..(Len(stack) - 1) : stack'[i] = stack[i]
        /\ stack'[Len(stack)] = Frame(cb, Top.ref)
    BY <1>0, <1>7, BelowProperties, ThenProperties
  <2>2. stack'[Len(stack)].ref = Top.ref
    <3>1. Frame(cb, Top.ref).ref = Top.ref
      BY FrameFields
    <3> QED
      BY <2>1, <3>1, Zenon
  <2>3. \A i \in 1..Len(stack') :
          i \in 1..Len(stack) /\ (i = Len(stack) \/ i \in 1..(Len(stack) - 1))
    BY <2>1
  <2>4. Top.ref
    BY <1>7, <2>1 DEF OutInv, Top
  <2>5. \A i \in 1..(Len(stack) - 1) : i \in 1..Len(stack) /\ i # Len(stack)
    BY <2>1
  <2>6. \A i \in 1..(Len(stack) - 1) : stack'[i].ref
    BY <2>1, <2>5 DEF OutInv
  <2>7. \A i \in 1..Len(stack') : stack'[i].ref
    BY <2>2, <2>3, <2>4, <2>6
  <2>8. status' \notin Open
    BY <1>7 DEF Closed, Open
  <2> QED
    BY <1>7, <2>7, <2>8 DEF OutInv
<1>8. CASE EndOfCallback
  <2>1. CASE Finish \/ FinishHeartbeat \/ FailHeartbeat
    BY <1>6, <2>1 DEF Finish, FinishHeartbeat, FailHeartbeat, Ends, life
  <2>2. CASE FinishClose \/ FailClose
    <3>1. /\ ~Idle /\ Top.cb \in CloseCallbacks /\ UNCHANGED status /\ held' \subseteq held
          /\ IF Top.cb = "onCloseFull" THEN Then("onData") ELSE Return
      BY <2>2 DEF FinishClose, FailClose, Ends, CloseCallbacks, life
    <3>2. Closed /\ Closed' /\ status \notin Open
      <4>1. Len(stack) \in 1..Len(stack)
        BY <1>0, <3>1, BelowProperties
      <4> QED
        BY <3>1, <4>1 DEF OutInv, Top, Closed, Open
    <3>3. CASE Top.cb = "onCloseFull"
      BY <1>7, <3>1, <3>2, <3>3 DEF Callbacks
    <3>4. CASE Top.cb # "onCloseFull"
      BY <1>6, <3>1, <3>2, <3>4
    <3> QED
      BY <3>3, <3>4
  <2>3. ASSUME FinishCreate PROVE FALSE
    <3>1. ~Idle /\ Top.cb = "create"
      BY <2>3 DEF FinishCreate, Ends
    <3>2. Len(stack) \in 1..Len(stack)
      BY <1>0, <3>1, BelowProperties
    <3> QED
      BY <3>1, <3>2 DEF NoCreate, Top
  <2>4. CASE FailData \/ FailCallback
    <3>1. PICK cb \in Callbacks : Then(cb)
      BY <2>4 DEF FailData, FailCallback, Callbacks
    <3>2. ~Idle /\ Top.cb # "onInitiativeClose" /\ held' \subseteq held /\ Closed'
      BY <2>4 DEF FailData, FailCallback, Ends, Shut, Closed
    <3> QED
      BY <1>7, <3>1, <3>2
  <2> QED
    BY <1>8, <2>1, <2>2, <2>3, <2>4 DEF EndOfCallback
<1>9. CASE Application
  <2>1. CASE Close
    <3>1. /\ status \in Open /\ held # {} /\ ~Closed /\ Closed' /\ status' \notin Open
          /\ held' = held
      BY <2>1, NotAliveUnborn DEF Close, MayUse, Plain, Shut, Closed, Open, OutInv, TypeOK
    <3>2. /\ Len(stack') = Len(stack) + 1
          /\ \A i \in 1..Len(stack) : stack'[i] = stack[i]
          /\ stack'[Len(stack) + 1].cb = "onInitiativeClose"
      <4>1. "onInitiativeClose" \in Callbacks /\ Call("onInitiativeClose", FALSE)
        BY <2>1 DEF Close, Callbacks
      <4>2. Frame("onInitiativeClose", FALSE).cb = "onInitiativeClose"
        BY FrameFields
      <4> QED
        BY <1>0, <4>1, <4>2, CallProperties
    <3>3. \A i \in 1..Len(stack') : i \in 1..Len(stack) \/ i = Len(stack')
      BY <1>0, <3>2
    <3> QED
      BY <3>1, <3>2, <3>3 DEF OutInv
  <2>2. ~Retain /\ ~Release
    BY DEF Retain, Release, Plain, OutInv
  <2> QED
    BY <1>1, <1>9, <2>1, <2>2 DEF Application, SetKeepaliveTimeout, Send, life
<1> QED
  BY <1>1, <1>3, <1>5, <1>8, <1>9 DEF Next, Handshake, vars, life

\* No callback frees the object under the code that called it, whatever closes
\* and failures it makes: the handler's reference, or the manager's, is left.
THEOREM ObjectOutlivesCallbacks == ASSUME Plain PROVE Spec => []OutlivesItsCallbacks
<1>1. Init => OutInv
  BY DEF Init, OutInv, Open
<1>2. TypeOK /\ TimerInv /\ NoCreate /\ OutInv /\ [Next]_vars => OutInv'
  BY StepOutInv DEF TimerInv
<1>3. TypeOK /\ OutInv => OutlivesItsCallbacks
  <2> SUFFICES ASSUME TypeOK, OutInv, ~Idle PROVE Alive
    BY DEF OutlivesItsCallbacks
  <2>1. StackType /\ Len(stack) \in 1..Len(stack)
    BY TypeParts, BelowProperties
  <2>2. stack[Len(stack)].ref \/ held # {}
    BY <2>1 DEF OutInv
  <2>3. Len(stack) \in DOMAIN stack
    BY <2>1, LenProperties DEF StackType
  <2> QED
    BY <2>2, <2>3 DEF Alive
<1>4. "immediate" \notin Uses
  BY DEF Plain
<1>5. Spec => []NoCreate
  BY <1>4, InductiveNoCreate
<1> QED
  BY <1>1, <1>2, <1>3, <1>5, TypeCorrect, InductiveTimer, PTL DEF Spec

================================================================================
