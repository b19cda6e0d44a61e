-------------------------------- MODULE Timers --------------------------------
(***************************************************************************)
(* What a timer service promises its handlers: a timer set to `timeout'    *)
(* expires at the first click of the clock at which that much time has     *)
(* been counted, neither at an earlier click nor at a later one.  Time is  *)
(* counted in clicks of at least TimeClick.  Countdown.tla, the ladder of  *)
(* falls, implements this module.                                          *)
(***************************************************************************)
EXTENDS Integers

CONSTANTS
  Handlers,
  TimeClick,   \* least time counted by a click
  MaxClick,    \* bound: most time counted by a click
  MaxTimeout   \* bound: longest timeout

VARIABLES
  armed,      \* handlers whose timer is running
  remaining,  \* time left of each running timer, 0 for the others
  due         \* handlers whose timer expired and that are not notified yet

timerVars == <<armed, remaining, due>>

Init ==
  /\ armed = {}
  /\ remaining = [h \in Handlers |-> 0]
  /\ due = {}

Set(h, timeout) ==
  /\ armed' = armed \cup {h}
  /\ remaining' = [remaining EXCEPT ![h] = timeout]
  /\ UNCHANGED due

Cancel(h) ==
  /\ armed' = armed \ {h}
  /\ remaining' = [remaining EXCEPT ![h] = 0]
  /\ UNCHANGED due

\* Exactly the timers that have run out expire.
Click(e) ==
  LET out == {h \in armed : remaining[h] <= e}
  IN  /\ due = {}
      /\ due' = out
      /\ armed' = armed \ out
      /\ remaining' = [h \in Handlers |->
                         IF h \in armed \ out THEN remaining[h] - e ELSE 0]

Notify(h) ==
  /\ h \in due
  /\ due' = due \ {h}
  /\ UNCHANGED <<armed, remaining>>

Next ==
  \/ \E h \in Handlers :
       \/ \E timeout \in 0..MaxTimeout : Set(h, timeout)
       \/ Cancel(h)
       \/ Notify(h)
  \/ \E e \in TimeClick..MaxClick : Click(e)

Spec == Init /\ [][Next]_timerVars
===============================================================================
