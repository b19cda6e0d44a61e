------------------------------- MODULE Thrift -------------------------------
(***************************************************************************)
(* The thrift part of utils/serializer.h: messages that a peer builds      *)
(* arrive byte by byte on a stream, and after every byte the receiver asks *)
(* read_message_begin whether a whole message is there.                    *)
(***************************************************************************)
EXTENDS Integers, Sequences, SequencesExt

CONSTANTS Messages   \* messages the peer may build, see Build

VARIABLES
    message,   \* the bytes the peer sends
    arrived,   \* how many of them are here
    verdict,   \* what read_message_begin said: "no", "whole", "throws"
    lengths    \* headerLength and bodyLength of the last "whole"

vars == <<message, arrived, verdict, lengths>>

T_STOP == 0
T_VOID == 1
T_BOOL == 2
T_BYTE == 3
T_DOUBLE == 4
T_I16 == 6
T_I32 == 8
T_U64 == 9
T_I64 == 10
T_STRING == 11
T_STRUCT == 12
T_MAP == 13
T_SET == 14
T_LIST == 15
T_UTF8 == 16
T_UTF16 == 17

Flatten(ss) == FoldLeft(LAMBDA acc, s : acc \o s, <<>>, ss)

(* Big endian integers.  A word of 2^30 or more is the version or exceeds  *)
(* whatever has arrived; WordMax stands for it.                            *)
WordMax == 2^30 - 1
U16(n) == <<n \div 256, n % 256>>
U32(n) == <<0, 0>> \o U16(n)
Word(bs) == IF bs[1] >= 64 THEN WordMax
            ELSE ((bs[1] * 256 + bs[2]) * 256 + bs[3]) * 256 + bs[4]

Str(s) == U32(Len(s)) \o s

-----------------------------------------------------------------------------
(* Writing.  A value is a record with its type; build_message puts the     *)
(* header in front of the marshalled object.                               *)

RECURSIVE Value(_)

FieldBegin(ftype, id) == <<ftype>> \o U16(id)

StructFields(fs) == [i \in DOMAIN fs |-> FieldBegin(fs[i].type, i) \o Value(fs[i])]

Value(v) ==
    CASE v.type \in {T_BOOL, T_BYTE, T_I16, T_I32, T_I64, T_U64, T_DOUBLE} -> v.bytes
      [] v.type \in {T_STRING, T_UTF8, T_UTF16} -> Str(v.bytes)
      [] v.type = T_STRUCT -> Flatten(StructFields(v.items)) \o <<T_STOP>>
      [] v.type \in {T_LIST, T_SET} ->
           <<v.of>> \o U32(Len(v.items)) \o Flatten([i \in DOMAIN v.items |-> Value(v.items[i])])
      [] v.type = T_MAP ->
           <<v.key, v.of>> \o U32(Len(v.items))
             \o Flatten([i \in DOMAIN v.items |-> Value(v.items[i][1]) \o Value(v.items[i][2])])

(* The strict header carries the version.  The old one is what the second  *)
(* branch of read_message_begin reads; nothing here writes it.             *)
Header(m) ==
    IF m.strict THEN <<128, 1, 0, m.mtype>> \o Str(m.name) \o U32(m.sn)
    ELSE U32(Len(m.name)) \o Str(m.name) \o <<m.mtype>> \o U32(m.sn)

(* The body of build_exception_message.                                    *)
ExceptionFields(reason, code) ==
    <<[type |-> T_STRING, bytes |-> reason], [type |-> T_I32, bytes |-> U32(code)]>>

Build(m) == Header(m) \o Value([type |-> T_STRUCT, items |-> m.fields])

-----------------------------------------------------------------------------
(* skip.  The result is what the function returned, -1 standing for too    *)
(* little data, and where it left the Deserializer; throwing is a result   *)
(* of its own.                                                             *)

Short(bs) == [ret |-> -1, left |-> bs, throws |-> FALSE]
Throw(bs) == [ret |-> 0, left |-> bs, throws |-> TRUE]
Skipped(from, bs) == [ret |-> Len(from) - Len(bs), left |-> bs, throws |-> FALSE]

After(bs, k) == SubSeq(bs, k + 1, Len(bs))

SkipFixed(bs, k) == IF Len(bs) < k THEN Short(bs) ELSE Skipped(bs, After(bs, k))

SkipString(bs) ==
    IF Len(bs) < 4 THEN Short(bs)
    ELSE IF Len(bs) - 4 < Word(bs) THEN Short(After(bs, 4))
    ELSE Skipped(bs, After(bs, 4 + Word(bs)))

RECURSIVE SkipValue(_, _)

(* The test on a nested skip, if (!skip(...)) return -1: only a result of  *)
(* zero ends the loop; too little data, -1, passes.                        *)
NestedFails(r) == r.ret = 0

(* n nested values whose types take turns.  Once every type in turn has    *)
(* taken nothing, the remaining rounds of the loop take nothing either.    *)
RECURSIVE SkipRounds(_, _, _, _, _)

SkipRounds(from, bs, types, n, idle) ==
    IF n = 0 \/ idle = Len(types) THEN Skipped(from, bs)
    ELSE LET r == SkipValue(bs, Head(types))
             turn == Tail(types) \o <<Head(types)>>
         IN  IF r.throws THEN r
             ELSE IF NestedFails(r) THEN Short(r.left)
             ELSE SkipRounds(from, r.left, turn, n - 1,
                             IF r.left = bs THEN idle + 1 ELSE 0)

SkipMap(bs) ==
    IF Len(bs) < 4 THEN Short(bs)
    ELSE IF Len(bs) < 6 THEN Throw(After(bs, 2))
    ELSE SkipRounds(bs, After(bs, 6), <<bs[1], bs[2]>>, 2 * Word(After(bs, 2)), 0)

SkipList(bs) ==
    IF Len(bs) < 5 THEN Short(bs)
    ELSE SkipRounds(bs, After(bs, 5), <<bs[1]>>, Word(After(bs, 1)), 0)

RECURSIVE SkipStruct(_, _)

SkipStruct(from, bs) ==
    IF Len(bs) < 1 THEN Short(bs)
    ELSE IF bs[1] = T_STOP THEN Skipped(from, After(bs, 1))
    ELSE IF Len(bs) < 3 THEN Short(After(bs, 1))
    ELSE LET r == SkipValue(After(bs, 3), bs[1])
         IN  IF r.throws THEN r
             ELSE IF NestedFails(r) THEN Short(r.left)
             ELSE SkipStruct(from, r.left)

SkipValue(bs, ftype) ==
    CASE ftype \in {T_STOP, T_VOID}           -> Skipped(bs, bs)
      [] ftype \in {T_BOOL, T_BYTE}           -> SkipFixed(bs, 1)
      [] ftype = T_I16                        -> SkipFixed(bs, 2)
      [] ftype = T_I32                        -> SkipFixed(bs, 4)
      [] ftype \in {T_I64, T_U64, T_DOUBLE}   -> SkipFixed(bs, 8)
      [] ftype \in {T_STRING, T_UTF8, T_UTF16} -> SkipString(bs)
      [] ftype = T_MAP                        -> SkipMap(bs)
      [] ftype \in {T_SET, T_LIST}            -> SkipList(bs)
      [] ftype = T_STRUCT                     -> SkipStruct(bs, bs)
      [] OTHER                                -> Throw(bs)

(* The header: its length, -1 for too little data, -2 for a throw.         *)
HeaderLength(bs) ==
    IF Len(bs) < 8 THEN -1
    ELSE LET name == Word(After(bs, 4))
             need == IF bs[1] >= 128 THEN 12 + name ELSE 13 + name
         IN  IF bs[1] < 128 /\ Len(bs) < 8 + name THEN -2
             ELSE IF Len(bs) < need THEN -1 ELSE need

(* read_message_begin.                                                     *)
ReadMessageBegin(bs) ==
    LET h == HeaderLength(bs)
        r == SkipStruct(After(bs, h), After(bs, h))
    IN  IF h < 0 THEN [how |-> IF h = -1 THEN "no" ELSE "throws", lengths |-> <<>>]
        ELSE IF r.throws THEN [how |-> "throws", lengths |-> <<>>]
        ELSE IF r.ret < 0 THEN [how |-> "no", lengths |-> <<>>]
        ELSE [how |-> "whole", lengths |-> <<h, r.ret>>]

-----------------------------------------------------------------------------
Init ==
    /\ \E m \in Messages : message = Build(m)
    /\ arrived = 0 /\ verdict = "no" /\ lengths = <<>>

Arrive ==
    /\ arrived < Len(message)
    /\ arrived' = arrived + 1
    /\ LET r == ReadMessageBegin(SubSeq(message, 1, arrived'))
       IN  verdict' = r.how /\ lengths' = r.lengths
    /\ UNCHANGED message

Next == Arrive

Spec == Init /\ [][Next]_vars

-----------------------------------------------------------------------------
(* The comment on read_message_begin: true means there has a whole message *)
(* in (data,size), false means data not enough.                            *)
WholeOnlyWhenWhole == verdict = "whole" => arrived = Len(message)
=============================================================================
