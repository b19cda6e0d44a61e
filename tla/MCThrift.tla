------------------------------ MODULE MCThrift ------------------------------
EXTENDS Thrift

V(t, b) == [type |-> t, bytes |-> b]
I32V(n) == V(T_I32, <<0, 0, 0, n>>)
StructV(fs) == [type |-> T_STRUCT, items |-> fs]
ListV(t, vs) == [type |-> T_LIST, of |-> t, items |-> vs]
MapV(k, t, ps) == [type |-> T_MAP, key |-> k, of |-> t, items |-> ps]

M(strict, fs) == [strict |-> strict, mtype |-> 1, name |-> <<97>>, sn |-> 7, fields |-> fs]

Bodies ==
    { <<>>,
      <<I32V(5)>>,
      ExceptionFields(<<101, 114>>, 3),
      <<V(T_STRING, <<98, 0, 99>>), V(T_BOOL, <<1>>)>>,
      <<V(T_I16, <<0, 9>>), V(T_I64, <<0, 0, 0, 0, 0, 0, 1, 2>>)>>,
      <<StructV(<<I32V(6), V(T_BYTE, <<0>>)>>), V(T_UTF8, <<>>)>>,
      <<ListV(T_I32, <<I32V(1), I32V(2)>>), V(T_DOUBLE, [i \in 1..8 |-> 63])>>,
      <<MapV(T_BYTE, T_STRING, << <<V(T_BYTE, <<4>>), V(T_STRING, <<65>>)>> >>)>>,
      <<ListV(T_STRUCT, <<StructV(<<>>), StructV(<<V(T_STRING, <<65, 66>>)>>)>>)>> }

MCMessages == {M(s, b) : s \in BOOLEAN, b \in Bodies}
=============================================================================
