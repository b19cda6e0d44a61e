------------------------------ MODULE MCCountdown ------------------------------
(* Small instances of Countdown for TLC. *)
EXTENDS Countdown

\* The ladder of the code, cut after its fourth step and with a click of 2:
\* 0, TIME_CLICK, TIME_CLICK * 2, TIME_CLICK * 4.
Ladder == [i \in 0..3 |-> CASE i = 0 -> 0 [] i = 1 -> 2 [] i = 2 -> 4 [] i = 3 -> 8]
================================================================================
