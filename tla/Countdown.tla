------------------------------- MODULE Countdown -------------------------------
(***************************************************************************)
(* The timers of one event loop: Countdown (core/countdown.h,              *)
(* core/countdown.cpp) driven by Selector::timout_run (core/selector.h).   *)
(*                                                                         *)
(* A timer sits in one of a ladder of falls.  Fall 0 is emptied at every   *)
(* click; a higher fall is looked at only when the time it accumulated     *)
(* reaches its width, and its timers then expire or fall to a lower one.   *)
(* Counts are relative to the time accumulated by the fall they sit in, so *)
(* every move between falls has to be re-based.  The order of the lists    *)
(* inside a fall is not modelled.                                          *)
(***************************************************************************)
EXTENDS Integers, FiniteSets

CONSTANTS
  Handlers,    \* objects with a timer
  LastFall,    \* m_falls_last_idx
  Fall,        \* m_fall of each fall
  TimeClick,   \* Countdown::TIME_CLICK
  MaxTimeout,  \* bound: longest timeout a handler asks for
  MaxStep      \* bound: most time that passes between two loops

Falls == 0..LastFall

ASSUME CountdownAssumption ==
  /\ LastFall \in Nat \ {0}
  /\ TimeClick \in Nat \ {0}
  /\ Fall \in [Falls -> Nat]
  /\ \A i \in 1..LastFall : Fall[i] > 0
  /\ Fall[1] <= TimeClick
  /\ MaxTimeout \in Nat
  /\ MaxStep \in Nat

VARIABLES
  armed,    \* handlers whose m_iter is registered
  fallidx,  \* Timeout::fallidx of an armed handler, 0 otherwise
  count,    \* Timeout::count of an armed handler, 0 otherwise
  elapsed,  \* m_elasped of each fall
  acc,      \* Selector::_elapsed
  result    \* expired timers that timout_run has still to notify

vars == <<armed, fallidx, count, elapsed, acc, result>>

TypeOK ==
  /\ armed \subseteq Handlers
  /\ fallidx \in [Handlers -> Falls]
  /\ count \in [Handlers -> Nat]
  /\ elapsed \in [Falls -> Nat]
  /\ acc \in 0..(TimeClick - 1)
  /\ result \subseteq Handlers

--------------------------------------------------------------------------------

Init ==
  /\ armed = {}
  /\ fallidx = [h \in Handlers |-> 0]
  /\ count = [h \in Handlers |-> 0]
  /\ elapsed = [i \in Falls |-> 0]
  /\ acc = 0
  /\ result = {}

FindFallIdxStrict(timeout, rbegin) ==
  CHOOSE i \in 0..rbegin :
    /\ i = 0 \/ timeout > Fall[i]
    /\ \A j \in (i + 1)..rbegin : timeout <= Fall[j]

\* find_fall_idx: the highest fall, from rbegin down, that is not wider than
\* the timeout; fall 0 when there is none.
FindFallIdx(timeout, rbegin) ==
  CHOOSE i \in 0..rbegin :
    /\ i = 0 \/ timeout >= Fall[i]
    /\ \A j \in (i + 1)..rbegin : timeout < Fall[j]

\* select_timeout with a timeout that is not negative, for a handler that is
\* registered or not.
SelectTimeout(h, timeout) ==
  LET newidx == FindFallIdx(timeout, LastFall)
  IN  /\ armed' = armed \cup {h}
      /\ fallidx' = [fallidx EXCEPT ![h] = newidx]
      /\ count' = [count EXCEPT ![h] = timeout + elapsed[newidx]]
      /\ UNCHANGED <<elapsed, acc, result>>

\* select_timeout with a negative timeout.
RemoveTimeout(h) ==
  /\ armed' = armed \ {h}
  /\ fallidx' = [fallidx EXCEPT ![h] = 0]
  /\ count' = [count EXCEPT ![h] = 0]
  /\ UNCHANGED <<elapsed, acc, result>>

\* click_elapse looks at the timers of fall i when it has accumulated its width.
Scanned(i, e) == i > 0 /\ elapsed[i] + e >= Fall[i]

\* What is left of a scanned timer.
Left(h, e) == count[h] - (elapsed[fallidx[h]] + e)

ExpiresIfScanned(h, e) == Scanned(fallidx[h], e) /\ Left(h, e) <= 0

\* Every timer of fall 0 expires; a scanned one does when its time is over.
Expires(h, e) ==
  \/ fallidx[h] = 0
  \/ Scanned(fallidx[h], e) /\ Left(h, e) <= 0

\* A scanned timer that does not expire sinks to the fall its remainder fits.
FallsTo(h, e) ==
  IF Scanned(fallidx[h], e) THEN FindFallIdx(Left(h, e), fallidx[h]) ELSE fallidx[h]

RebasedOnOldFall(h, e) ==
  IF Scanned(fallidx[h], e) THEN Left(h, e) + elapsed[FallsTo(h, e)] ELSE count[h]

\* The falls are scanned upwards, so a timer that sinks meets a fall that has
\* already been advanced; a timer that stays meets one that is reset.
Rebased(h, e) ==
  IF Scanned(fallidx[h], e) THEN Left(h, e) + elapsed'[FallsTo(h, e)] ELSE count[h]

\* click_elapse
ClickElapse(e) ==
  LET out  == {h \in armed : Expires(h, e)}
      kept == armed \ out
  IN  /\ elapsed' = [i \in Falls |->
                       IF i = 0 \/ Scanned(i, e) THEN 0 ELSE elapsed[i] + e]
      /\ result' = out
      /\ armed' = kept
      /\ fallidx' = [h \in Handlers |-> IF h \in kept THEN FallsTo(h, e) ELSE 0]
      /\ count' = [h \in Handlers |-> IF h \in kept THEN Rebased(h, e) ELSE 0]

\* timout_run, `d' after the previous loop: the time is counted only once a
\* click is complete.  The loop does not come back here before every expired
\* handler of the previous click has been notified.
TimoutRun(d) ==
  /\ result = {}
  /\ IF acc + d < TimeClick
     THEN acc' = acc + d /\ UNCHANGED <<armed, fallidx, count, elapsed, result>>
     ELSE acc' = 0 /\ ClickElapse(acc + d)

\* notify_event of one expired handler.
NotifyTimeout(h) ==
  /\ h \in result
  /\ result' = result \ {h}
  /\ UNCHANGED <<armed, fallidx, count, elapsed, acc>>

--------------------------------------------------------------------------------

Next ==
  \/ \E h \in Handlers :
       \/ \E timeout \in 0..MaxTimeout : SelectTimeout(h, timeout)
       \/ RemoveTimeout(h)
       \/ NotifyTimeout(h)
  \/ \E d \in 0..MaxStep : TimoutRun(d)

Spec == Init /\ [][Next]_vars

\* mainloop: the loop comes round again, after some time, and notifies every
\* expired handler on its way.
FairSpec ==
  /\ Spec
  /\ WF_vars(\E d \in 1..MaxStep : TimoutRun(d))
  /\ \A h \in Handlers : WF_vars(NotifyTimeout(h))

--------------------------------------------------------------------------------
(* Properties *)

Remaining(h) == IF h \in armed THEN count[h] - elapsed[fallidx[h]] ELSE 0

\* A timer in fall i > 0 is never closer than the time its fall still has to
\* accumulate before it is scanned, and one in fall 0 ends with the next click:
\* so a fall that click_elapse skips never hides a timer that is due, and
\* next_timeout never meets a negative remainder.
NoTimerOverdue ==
  \A h \in armed :
    IF fallidx[h] = 0
    THEN Remaining(h) \in 0..(TimeClick - 1)
    ELSE Remaining(h) >= Fall[fallidx[h]] - elapsed[fallidx[h]]

\* The ladder of falls implements exact timers: each timer expires at the first
\* click that completes its timeout, through any number of moves between falls,
\* re-arms and cancellations.
Exact == INSTANCE Timers WITH remaining <- [h \in Handlers |-> Remaining(h)],
                              due <- result,
                              MaxClick <- MaxStep + TimeClick

ImplementsTimers == Exact!Spec

\* A timer that its handler leaves alone from some point on does not stay armed
\* for ever.
ArmedTimerExpires ==
  \A h \in Handlers :
    <>[][\A timeout \in 0..MaxTimeout : ~SelectTimeout(h, timeout)]_vars
      => <>[](h \notin armed)
================================================================================
