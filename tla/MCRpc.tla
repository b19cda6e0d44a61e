-------------------------------- MODULE MCRpc --------------------------------
EXTENDS Rpc, TLC

CONSTANTS a, b, h, g, k

MCRequests == {a, b, h, g, k}
MCKind == a :> "async_call" @@ b :> "async_call" @@ h :> "call" @@ g :> "get" @@ k :> "close"
MCWaiter == [r \in MCRequests |-> IF r = h THEN "coroutine" ELSE "thread"]
(* a and h share a number.                                                 *)
MCSn == a :> 1 @@ b :> 2 @@ h :> 1 @@ g :> 0 @@ k :> 0
=============================================================================
