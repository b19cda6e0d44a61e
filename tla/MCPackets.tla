------------------------------ MODULE MCPackets -----------------------------
EXTENDS Packets

U(w) == [kind |-> "fixed", width |-> w]
K(k) == [kind |-> k]
Of(k, t) == [kind |-> k, of |-> t]
Pair(a, b) == [kind |-> "pair", first |-> a, second |-> b]
F(t, v) == [type |-> t, val |-> v]

(* The longest string a 16-bit length can name, and one more.              *)
Longest == [i \in 1..15 |-> 1]
TooLong == [i \in 1..16 |-> 1]

MCFields ==
    { F(U(1), 3), F(U(2), 9), F(U(4), 18), F(U(8), 257),
      F(K("bool"), TRUE), F(K("varstr"), <<>>), F(K("varstr"), TooLong),
      F(K("varstr"), Longest), F(K("string16"), TooLong),
      F(K("string16"), <<2, 0>>), F(K("varstr32"), <<1, 2>>),
      F(K("varint"), 21), F(K("bytes"), <<3>>),
      F(K("tag"), [key |-> 2, type |-> 5]),
      F(Of("list", K("varstr")), << <<1>>, <<>> >>),
      F(Of("list", K("varstr")), << <<1>>, TooLong >>),
      F(Of("set", Pair(U(1), K("varstr"))), {<<1, <<2>>>>, <<3, <<>>>>}),
      F(Of("list", Of("set", U(2))), <<{1, 2}, {}>>),
      F(Of("varblock", Of("list", U(2))), <<7, 8>>),
      F(Of("block", Pair(U(2), K("varstr"))), <<6, <<3, 3>>>>) }
=============================================================================
