-------------------------------- MODULE MCLog --------------------------------
EXTENDS Log, TLC

CONSTANTS s, l

(* One thread logs lines that need a second block, one does not.           *)
MCThreads == {s, l}
MCParts   == s :> 1 @@ l :> 2
MCLines   == s :> 2 @@ l :> 1

(* What a raced block does to the file is the other run's.                 *)
Unraced == ~raced /\ ~short
=============================================================================
