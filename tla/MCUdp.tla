-------------------------------- MODULE MCUdp --------------------------------
EXTENDS Udp, TLC

Total == MapThenSumSet(LAMBDA a : sent[a], Addresses)

(* Nothing is promised after a stale task or a kept connection, so little  *)
(* of what follows is explored: the release of what was kept.  What follows*)
(* an onConnected that throws or an empty datagram differs in the histories*)
(* alone from what follows without.  And a queue that an empty datagram    *)
(* holds up is no one else's business: it is explored with one datagram.   *)
Promising ==
    /\ mishaps \cap {"stale", "thrown", "empty"} = {}
    /\ "kept" \in mishaps => Total < 2
    /\ (\E c \in Ids : conns[c].empty) => Total < 2
=============================================================================
