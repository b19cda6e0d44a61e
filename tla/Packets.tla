------------------------------ MODULE Packets -------------------------------
(***************************************************************************)
(* Pack and Unpack (utils/packet.h) on top of Serializer and Deserializer  *)
(* (utils/serializer.h): a packet is written field by field, travels, may  *)
(* lose its tail, and is read field by field with the same types.          *)
(*                                                                         *)
(* A byte is a digit 0 .. Base - 1 and an integer of w bytes is written as *)
(* w digits, so the widths and the wrap-around of the length fields are    *)
(* those of the code with Base in place of 256.                            *)
(***************************************************************************)
EXTENDS Integers, Sequences, SequencesExt, FiniteSets

CONSTANTS
    Base,       \* 256 in the code
    Fields,     \* the fields [type, val] a packet may hold
    Orders,     \* byte orders in use, a subset of {"LE", "BE"}
    Offsets,    \* bytes already in the buffer a Serializer is put on
    MaxFields   \* bound on the fields of one packet

ASSUME BaseAssumption == Base \in Nat /\ Base % 2 = 0 /\ Base > 2

VARIABLES
    order,   \* byte order of both ends
    offset,  \* Serializer::offset_, the size of the buffer at the start
    buffer,  \* the ByteBuffer under the Serializer
    sent,    \* fields written
    phase,   \* "write", "read", or how the packet ended
    rest,    \* what the Deserializer has still in front of it
    got,     \* what the reader made of each field
    lost     \* bytes of the packet that never arrived

vars == <<order, offset, buffer, sent, phase, rest, got, lost>>

-----------------------------------------------------------------------------
(* Integers on the wire.                                                   *)

(* The w digits of n, most significant first; a cast to w bytes drops what *)
(* does not fit.                                                           *)
Digits(n, w) == [i \in 1..w |-> (n \div Base^(w - i)) % Base]

(* BO::hton and BO::ntoh.                                                  *)
InOrder(ds, bo) == IF bo = "LE" THEN Reverse(ds) ELSE ds

WriteFixed(n, w, bo) == InOrder(Digits(n, w), bo)

Number(ds) == FoldLeft(LAMBDA acc, d : acc * Base + d, 0, ds)

(* The outcome of a read: how it ended, the value, and what is left.       *)
Read(how, val, left) == [how |-> how, val |-> val, left |-> left]

(* The value of a read that worked, converted.                             *)
As(Convert(_), r) == IF r.how = "ok" THEN [r EXCEPT !.val = Convert(@)] ELSE r

(* Mutant: too short a rest is handed out as it is.                        *)
ReadRawLenient(bs, k, error) ==
    LET n == IF k < Len(bs) THEN k ELSE Len(bs)
    IN  Read("ok", SubSeq(bs, 1, n), SubSeq(bs, n + 1, Len(bs)))

(* Deserializer::read: k raw bytes.                                        *)
ReadRaw(bs, k, error) ==
    IF Len(bs) < k THEN Read(error, <<>>, bs)
    ELSE Read("ok", SubSeq(bs, 1, k), SubSeq(bs, k + 1, Len(bs)))

ReadFixed(bs, w, bo) ==
    As(LAMBDA ds : Number(InOrder(ds, bo)), ReadRaw(bs, w, "RuntimeException"))

(* Varint with zigzag, from a header that is not in the repository: groups *)
(* of digits below Half, least significant first, all but the last marked. *)
Half == Base \div 2

VarintSize(n) == CHOOSE k \in 1..(n + 1) : Half^k > n /\ (k = 1 \/ Half^(k-1) <= n)

WriteVarint(n) ==
    LET z == 2 * n
        k == VarintSize(z)
    IN  [i \in 1..k |-> ((z \div Half^(i-1)) % Half) + (IF i < k THEN Half ELSE 0)]

ReadVarint(bs) ==
    IF \A i \in DOMAIN bs : bs[i] >= Half THEN Read("RuntimeException", 0, bs)
    ELSE LET k == CHOOSE i \in DOMAIN bs :
                    bs[i] < Half /\ \A j \in 1..i-1 : bs[j] >= Half
             ds == [i \in 1..k |-> bs[k + 1 - i] % Half]
             z  == FoldLeft(LAMBDA acc, d : acc * Half + d, 0, ds)
         IN  Read("ok", z \div 2, SubSeq(bs, k + 1, Len(bs)))

-----------------------------------------------------------------------------
(* Fields.                                                                 *)

WriteString(v, w, bo) == WriteFixed(Len(v), w, bo) \o v

(* pb::Tag::make, key and type.                                            *)
Tag(v) == v.key * 8 + v.type

(* push_varstr refuses what its length field cannot say, wherever in the   *)
(* packet it is.                                                           *)
RECURSIVE TooBig(_, _)

TooBig(t, v) ==
    CASE t.kind = "varstr"   -> Len(v) >= Base^2
      [] t.kind \in {"block", "varblock"} -> TooBig(t.of, v)
      [] t.kind = "pair"     -> TooBig(t.first, v[1]) \/ TooBig(t.second, v[2])
      [] t.kind = "list"     -> \E i \in DOMAIN v : TooBig(t.of, v[i])
      [] t.kind = "set"      -> \E x \in v : TooBig(t.of, x)
      [] OTHER -> FALSE

RECURSIVE Marshal(_, _, _)

(* marshal_container: the count, then the elements as they come.           *)
MarshalAll(t, vs, bo) ==
    FoldLeft(LAMBDA acc, v : acc \o Marshal(t, v, bo),
             WriteFixed(Len(vs), 4, bo), vs)

Marshal(t, v, bo) ==
    CASE t.kind = "fixed"    -> WriteFixed(v, t.width, bo)
      [] t.kind = "bool"     -> WriteFixed(IF v THEN 1 ELSE 0, 1, bo)
      [] t.kind \in {"varstr", "string16"} -> WriteString(v, 2, bo)
      [] t.kind = "varstr32" -> WriteString(v, 4, bo)
      [] t.kind = "varint"   -> WriteVarint(v)
      [] t.kind = "bytes"    -> WriteVarint(Len(v)) \o v
      [] t.kind = "tag"      -> WriteVarint(Tag(v))
      [] t.kind = "varblock" -> LET body == Marshal(t.of, v, "LE")
                                IN  WriteVarint(Len(body)) \o body
      [] t.kind = "pair"     -> Marshal(t.first, v[1], bo) \o Marshal(t.second, v[2], bo)
      [] t.kind = "list"     -> MarshalAll(t.of, v, bo)
      [] t.kind = "set"      -> MarshalAll(t.of, SetToSeq(v), bo)

RECURSIVE Unmarshal(_, _, _)

ReadSized(size, error) ==
    IF size.how = "ok" THEN ReadRaw(size.left, size.val, error) ELSE size

(* unmarshal_container: as many elements as the count says, stopping where *)
(* one of them throws.                                                     *)
UnmarshalAll(t, bs, bo) ==
    LET n == ReadFixed(bs, 4, bo)
    IN  IF n.how # "ok" THEN n
        ELSE FoldLeft(LAMBDA acc, i :
                        LET r == Unmarshal(t, acc.left, bo)
                        IN  IF acc.how # "ok" THEN acc
                            ELSE Read(r.how, Append(acc.val, r.val), r.left),
                      Read("ok", <<>>, n.left), [i \in 1..n.val |-> i])

(* pb::read_block: the block becomes a Deserializer of its own.            *)
ReadBlock(t, size) ==
    LET body == ReadSized(size, "RuntimeException")
    IN  IF body.how # "ok" THEN body
        ELSE [Unmarshal(t, body.val, "LE") EXCEPT !.left = body.left]

Unmarshal(t, bs, bo) ==
    CASE t.kind = "fixed"    -> ReadFixed(bs, t.width, bo)
      [] t.kind = "bool"     -> As(LAMBDA n : n # 0, ReadFixed(bs, 1, bo))
      [] t.kind = "varstr"   -> ReadSized(ReadFixed(bs, 2, bo), "UnpackError")
      [] t.kind = "string16" -> ReadSized(ReadFixed(bs, 2, bo), "RuntimeException")
      [] t.kind = "varstr32" -> ReadSized(ReadFixed(bs, 4, bo), "UnpackError")
      [] t.kind = "varint"   -> ReadVarint(bs)
      [] t.kind = "bytes"    -> ReadSized(ReadVarint(bs), "RuntimeException")
      [] t.kind = "tag"      -> As(LAMBDA n : [key |-> n \div 8, type |-> n % 8],
                                   ReadVarint(bs))
      [] t.kind = "block"    -> ReadBlock(t.of, ReadFixed(bs, 4, bo))
      [] t.kind = "varblock" -> ReadBlock(t.of, ReadVarint(bs))
      [] t.kind = "pair"     -> LET a == Unmarshal(t.first, bs, bo)
                                IN  IF a.how # "ok" THEN a
                                    ELSE As(LAMBDA b : <<a.val, b>>,
                                            Unmarshal(t.second, a.left, bo))
      [] t.kind = "list"     -> UnmarshalAll(t.of, bs, bo)
      [] t.kind = "set"      -> As(ToSet, UnmarshalAll(t.of, bs, bo))

(* pb::skip by wire type; every other type has none.                       *)
Skippable(t) ==
    \/ t.kind \in {"varint", "block", "varblock"}
    \/ t.kind = "fixed" /\ t.width \in {4, 8}

(* Mutant: every fixed field is skipped as four bytes.                     *)
SkipFieldShort(t, bs, bo) ==
    CASE t.kind = "varint"   -> ReadVarint(bs)
      [] t.kind = "fixed"    -> ReadRaw(bs, 4, "RuntimeException")
      [] t.kind = "block"    -> ReadSized(ReadFixed(bs, 4, bo), "RuntimeException")
      [] t.kind = "varblock" -> ReadSized(ReadVarint(bs), "RuntimeException")

SkipField(t, bs, bo) ==
    CASE t.kind = "varint"   -> ReadVarint(bs)
      [] t.kind = "fixed"    -> ReadRaw(bs, t.width, "RuntimeException")
      [] t.kind = "block"    -> ReadSized(ReadFixed(bs, 4, bo), "RuntimeException")
      [] t.kind = "varblock" -> ReadSized(ReadVarint(bs), "RuntimeException")

-----------------------------------------------------------------------------
(* Serializer: a window on the buffer from offset_ on.                     *)

Position(buf) == Len(buf) - offset

(* replace(pos, ...) indexes the buffer, not the window.                   *)
Replaced(buf, pos, bs) ==
    [i \in DOMAIN buf |->
       IF i \in pos + 1 .. pos + Len(bs) THEN bs[i - pos] ELSE buf[i]]

(* write_object as BLOCK: a place holder, the object, then its length put  *)
(* where position() was.                                                   *)
WriteBlock(buf, t, v, bo) ==
    LET pos  == Position(buf)
        full == buf \o WriteFixed(0, 4, bo) \o Marshal(t, v, bo)
    IN  Replaced(full, pos, WriteFixed(Position(full) - 4 - pos, 4, bo))

Init ==
    /\ order \in Orders /\ offset \in Offsets
    /\ buffer = [i \in 1..offset |-> 0]
    /\ sent = <<>> /\ phase = "write"
    /\ rest = <<>> /\ got = <<>> /\ lost = 0

(* The protocol buffer layouts are little endian.                          *)
LittleOnly(t) == t.kind \in {"block", "varblock", "tag"}

PushedOnto(buf, f) ==
    IF f.type.kind = "block" THEN WriteBlock(buf, f.type.of, f.val, order)
    ELSE buf \o Marshal(f.type, f.val, order)

(* A field that is too big throws PackError, and the packet is given up.   *)
Push(f) ==
    /\ phase = "write" /\ Len(sent) < MaxFields
    /\ LittleOnly(f.type) => order = "LE"
    /\ IF TooBig(f.type, f.val)
       THEN phase' = "PackError" /\ UNCHANGED <<buffer, sent>>
       ELSE /\ buffer' = PushedOnto(buffer, f)
            /\ sent' = Append(sent, f)
            /\ phase' = phase
    /\ UNCHANGED <<order, offset, rest, got, lost>>

(* PacketToString, and the way to the reader: data() is the window.        *)
Deliver(k) ==
    /\ phase = "write" /\ k <= Position(buffer)
    /\ lost' = k
    /\ rest' = SubSeq(buffer, offset + 1, Len(buffer) - k)
    /\ phase' = "read"
    /\ UNCHANGED <<order, offset, buffer, sent, got>>

Expected == sent[Len(got) + 1]

(* got holds <<value>> for a field that was read, <<>> for a skipped one.  *)
Took(r, value) ==
    /\ rest' = r.left
    /\ IF r.how = "ok" THEN got' = Append(got, value) /\ phase' = phase
       ELSE got' = got /\ phase' = r.how
    /\ UNCHANGED <<order, offset, buffer, sent, lost>>

Pop ==
    /\ phase = "read" /\ Len(got) < Len(sent)
    /\ LET r == Unmarshal(Expected.type, rest, order) IN Took(r, <<r.val>>)

Skip ==
    /\ phase = "read" /\ Len(got) < Len(sent)
    /\ Skippable(Expected.type)
    /\ Took(SkipField(Expected.type, rest, order), <<>>)

(* Unpack::finish.                                                         *)
Finish ==
    /\ phase = "read" /\ Len(got) = Len(sent)
    /\ phase' = IF rest = <<>> THEN "done" ELSE "UnpackError"
    /\ UNCHANGED <<order, offset, buffer, sent, rest, got, lost>>

Next ==
    \/ \E f \in Fields : Push(f)
    \/ \E k \in 0..Position(buffer) : Deliver(k)
    \/ Pop \/ Skip \/ Finish

Spec == Init /\ [][Next]_vars

-----------------------------------------------------------------------------
(* Properties.                                                             *)

(* A packet keeps its meaning unless a string16 was longer than its length *)
(* field can say, or a block was written on a buffer that was not empty.   *)
Sound ==
    \A i \in DOMAIN sent :
       /\ sent[i].type.kind = "string16" => Len(sent[i].val) < Base^2
       /\ sent[i].type.kind = "block" => offset = 0

(* Whatever was cut off, every value that a read returns is the value that *)
(* was written at that place: containers inside pairs inside blocks, both  *)
(* byte orders, fields that were skipped by their wire type.               *)
ReadsWhatWasWritten ==
    Sound => \A i \in DOMAIN got : got[i] = <<>> \/ got[i] = <<sent[i].val>>

(* A packet that lost its tail is never taken for a whole one, and one     *)
(* that lost nothing is never refused.                                     *)
CutIffRefused ==
    Sound => /\ phase = "done" => lost = 0
             /\ phase \in {"UnpackError", "RuntimeException"} => lost > 0

(* The comment on replace (all positions are those of the ByteBuffer) and  *)
(* the use of position() as its argument: the bytes that were in the       *)
(* buffer before the Serializer was put on it stay as they were.           *)
EarlierBytesKept == SubSeq(buffer, 1, offset) = [i \in 1..offset |-> 0]
=============================================================================
