---------------------------- MODULE CountdownProofs ----------------------------
(***************************************************************************)
(* Proofs about Countdown for every set of handlers, every bound on the    *)
(* timeouts and on the time between two loops, and every ladder of falls   *)
(* whose first step is not wider than a click.                             *)
(***************************************************************************)
EXTENDS Countdown, WellFoundedInduction, TLAPS

--------------------------------------------------------------------------------
(* Natural numbers.                                                        *)

\* Every nonempty set of natural numbers has a least element.
LEMMA LeastNatural ==
  ASSUME NEW T, T \subseteq Nat, T # {}
  PROVE  \E x \in T : \A y \in T : x <= y
<1>1. PICK x \in T : \A y \in T : ~(<<y, x>> \in OpToRel(<, Nat))
  BY NatLessThanWellFounded, WFMin, Zenon
<1>2. \A y \in Nat : <<y, x>> \in OpToRel(<, Nat) <=> y < x
  BY DEF OpToRel
<1>3. \A y \in T : ~(y < x)
  BY <1>1, <1>2, Zenon
<1> QED
  BY <1>3

\* Every nonempty bounded set of natural numbers has a greatest element.
LEMMA GreatestNatural ==
  ASSUME NEW r \in Nat, NEW T, T \subseteq 0..r, T # {}
  PROVE  \E x \in T : \A y \in T : y <= x
<1> DEFINE U == {v \in 0..r : (r - v) \in T}
<1>1. \A y \in T : y \in 0..r /\ r - y \in 0..r /\ r - (r - y) = y
  OBVIOUS
<1>2. \A y \in T : r - y \in U
  BY <1>1
<1>3. U \subseteq Nat
  OBVIOUS
<1>4. U # {}
  <2>1. PICK y \in T : TRUE
    OBVIOUS
  <2> HIDE DEF U
  <2> QED
    BY <1>2, <2>1
<1>5. PICK u \in U : \A v \in U : u <= v
  BY <1>3, <1>4, LeastNatural
<1>6. r - u \in T /\ u \in 0..r
  BY <1>5
<1>7. ASSUME NEW y \in T PROVE y <= r - u
  <2>1. u <= r - y
    BY <1>2, <1>5
  <2> QED
    BY <1>1, <1>6, <2>1
<1> QED
  BY <1>6, <1>7

-----------------------------------------------------------------------------
(* The fall a timer is put in.                                            *)

\* What find_fall_idx returns: a fall that is not wider than the timeout, or
\* fall 0 when the first step is already too wide.
LEMMA FindFallIdxSpec ==
  ASSUME NEW timeout \in Nat, NEW rbegin \in 1..LastFall
  PROVE  LET i == FindFallIdx(timeout, rbegin)
         IN  /\ i \in 0..rbegin
             /\ i > 0 => timeout >= Fall[i]
             /\ i = 0 => timeout < Fall[1]
<1> USE CountdownAssumption DEF Falls
<1> DEFINE T == {i \in 0..rbegin : i = 0 \/ timeout >= Fall[i]}
           Best(i) == /\ i = 0 \/ timeout >= Fall[i]
                      /\ \A j \in (i + 1)..rbegin : timeout < Fall[j]
<1>1. T \subseteq 0..rbegin /\ 0 \in T /\ rbegin \in Nat
  OBVIOUS
<1>2. PICK m \in T : \A y \in T : y <= m
  <2> HIDE DEF T
  <2>1. T # {}
    BY <1>1
  <2> QED
    BY <1>1, <2>1, GreatestNatural
<1>3. ASSUME NEW j \in (m + 1)..rbegin PROVE timeout < Fall[j]
  <2>1. j \notin T /\ j \in 1..LastFall /\ j \in 0..rbegin
    BY <1>2
  <2> QED
    BY <2>1
<1>4. m \in 0..rbegin /\ Best(m)
  BY <1>2, <1>3
<1>5. FindFallIdx(timeout, rbegin) \in 0..rbegin /\ Best(FindFallIdx(timeout, rbegin))
  <2>1. FindFallIdx(timeout, rbegin) = CHOOSE i \in 0..rbegin : Best(i)
    BY DEF FindFallIdx
  <2> HIDE DEF Best
  <2> QED
    BY <1>4, <2>1
<1> QED
  BY <1>5

-----------------------------------------------------------------------------
(* The inductive invariant *)

\* No fall has accumulated its width, a timer never sits in a fall wider than
\* its count, and a timer of fall 0 ends within the first step of the ladder.
Wheel == 
  /\ elapsed[0] = 0
  /\ \A i \in 1..LastFall : elapsed[i] < Fall[i]
  /\ \A h \in armed : IF fallidx[h] = 0 THEN count[h] < Fall[1]
                      ELSE count[h] >= Fall[fallidx[h]]
  /\ \A h \in Handlers \ armed : fallidx[h] = 0 /\ count[h] = 0

IInv == TypeOK /\ Wheel

\* The empty countdown satisfies the inductive invariant.
LEMMA InitIInv == Init => IInv
  BY CountdownAssumption DEF Init, IInv, TypeOK, Wheel, Falls

\* select_timeout keeps the invariant: find_fall_idx puts the timer in a fall
\* that is scanned no later than the timer is due.
LEMMA SelectKeepsIInv ==
  ASSUME IInv, NEW h \in Handlers, NEW timeout \in 0..MaxTimeout,
         SelectTimeout(h, timeout)
  PROVE  IInv'
<1> DEFINE i == FindFallIdx(timeout, LastFall)
<1>1. /\ i \in Falls
      /\ i > 0 => timeout >= Fall[i]
      /\ i = 0 => timeout < Fall[1]
  BY CountdownAssumption, FindFallIdxSpec DEF Falls
<1>2. /\ armed' = armed \cup {h}
      /\ fallidx' = [fallidx EXCEPT ![h] = i]
      /\ count' = [count EXCEPT ![h] = timeout + elapsed[i]]
      /\ UNCHANGED <<elapsed, acc, result>>
  BY DEF SelectTimeout
<1> HIDE DEF i
<1>3. timeout + elapsed[i] \in Nat /\ elapsed[i] \in Nat
  BY <1>1, CountdownAssumption DEF IInv, TypeOK
<1>4. TypeOK'
  BY <1>1, <1>2, <1>3 DEF IInv, TypeOK
<1>5. Wheel'
  <2>1. ASSUME NEW k \in armed'
        PROVE  IF fallidx'[k] = 0 THEN count'[k] < Fall[1] ELSE count'[k] >= Fall[fallidx'[k]]
    <3>1. CASE k = h
      <4>1. fallidx'[k] = i /\ count'[k] = timeout + elapsed[i]
        BY <1>2, <3>1 DEF IInv, TypeOK
      <4>2. Fall[1] \in Nat /\ Fall[i] \in Nat /\ i \in Nat /\ timeout \in Nat
        BY <1>1, CountdownAssumption DEF Falls
      <4>3. CASE i = 0
        BY <1>1, <4>1, <4>3 DEF IInv, Wheel
      <4>4. CASE i > 0
        BY <1>1, <1>3, <4>1, <4>2, <4>4
      <4> QED
        BY <4>2, <4>3, <4>4
    <3>2. CASE k # h
      BY <1>2, <3>2 DEF IInv, TypeOK, Wheel
    <3> QED
      BY <3>1, <3>2
  <2>2. \A k \in Handlers \ armed' : fallidx'[k] = 0 /\ count'[k] = 0
    BY <1>2 DEF IInv, TypeOK, Wheel
  <2> QED
    BY <1>2, <2>1, <2>2 DEF IInv, Wheel
<1> QED
  BY <1>4, <1>5 DEF IInv

\* One click, seen from a timer that survives it.
LEMMA ClickKeepsTimer ==
  ASSUME IInv, NEW e \in Nat, e >= TimeClick, ClickElapse(e),
         NEW h \in armed, ~Expires(h, e)
  PROVE  /\ FallsTo(h, e) \in Falls
         /\ Rebased(h, e) \in Nat
         /\ IF FallsTo(h, e) = 0 THEN Rebased(h, e) < Fall[1]
            ELSE Rebased(h, e) >= Fall[FallsTo(h, e)]
         /\ Rebased(h, e) - elapsed'[FallsTo(h, e)] = count[h] - elapsed[fallidx[h]] - e
         /\ count[h] - elapsed[fallidx[h]] > e
<1> DEFINE i == fallidx[h]
           L == Left(h, e)
<1>1. /\ i \in 1..LastFall /\ i \in Falls /\ h \in Handlers
      /\ count[h] \in Nat /\ elapsed[i] \in Nat /\ Fall[i] \in Nat
      /\ count[h] >= Fall[i]
  BY CountdownAssumption DEF IInv, TypeOK, Wheel, Falls, Expires
<1>2. /\ elapsed' = [k \in Falls |-> IF k = 0 \/ Scanned(k, e) THEN 0 ELSE elapsed[k] + e]
      /\ elapsed \in [Falls -> Nat]
  BY DEF ClickElapse, IInv, TypeOK
<1>3. CASE Scanned(i, e)
  <2>1. L \in Nat /\ L > 0 /\ L = count[h] - elapsed[i] - e
    BY <1>1, <1>3 DEF Expires, Left
  <2> DEFINE n == FindFallIdx(L, i)
             x == elapsed'[n]
  <2>2. n \in 0..i /\ (n > 0 => L >= Fall[n]) /\ (n = 0 => L < Fall[1])
    BY <1>1, <2>1, FindFallIdxSpec
  <2>3. FallsTo(h, e) = n /\ Rebased(h, e) = L + x
    BY <1>3 DEF FallsTo, Rebased
  <2>4. n \in Falls /\ n \in Nat /\ x \in Nat /\ (n = 0 => x = 0)
    <3> HIDE DEF n
    <3> QED
      BY <1>1, <1>2, <2>2, CountdownAssumption, SMTT(30) DEF Falls
  <2>5. Fall[1] \in Nat /\ Fall[n] \in Nat
    BY <2>4, CountdownAssumption DEF Falls
  <2> HIDE DEF L, n, x
  <2>6. /\ L + x \in Nat
        /\ (L + x) - x = L
        /\ n = 0 => L + x < Fall[1]
        /\ n # 0 => L + x >= Fall[n]
    BY <2>1, <2>2, <2>4, <2>5
  <2>7. count[h] - elapsed[i] > e
    BY <1>1, <2>1
  <2>8. elapsed'[n] = x
    BY DEF x
  <2> QED
    BY <2>1, <2>3, <2>4, <2>6, <2>7, <2>8
<1>4. CASE ~Scanned(i, e)
  <2>1. FallsTo(h, e) = i /\ Rebased(h, e) = count[h]
    BY <1>4 DEF FallsTo, Rebased
  <2>2. elapsed'[i] = elapsed[i] + e /\ elapsed[i] + e < Fall[i]
    BY <1>1, <1>2, <1>4, CountdownAssumption DEF Scanned
  <2> QED
    BY <1>1, <2>1, <2>2
<1> QED
  BY <1>3, <1>4

\* click_elapse keeps the invariant for every timer that survives the click.
LEMMA ClickKeepsIInv ==
  ASSUME IInv, NEW e \in Nat, e >= TimeClick, ClickElapse(e), acc' \in 0..(TimeClick - 1)
  PROVE  IInv'
<1> DEFINE out == {h \in armed : Expires(h, e)}
           kept == armed \ out
<1>1. /\ elapsed' = [i \in Falls |-> IF i = 0 \/ Scanned(i, e) THEN 0 ELSE elapsed[i] + e]
      /\ result' = out
      /\ armed' = kept
      /\ fallidx' = [h \in Handlers |-> IF h \in kept THEN FallsTo(h, e) ELSE 0]
      /\ count' = [h \in Handlers |-> IF h \in kept THEN Rebased(h, e) ELSE 0]
  BY DEF ClickElapse
<1>2. out \subseteq Handlers /\ kept \subseteq Handlers
  BY DEF IInv, TypeOK
<1>3. \A h \in kept : h \in armed /\ ~Expires(h, e)
  OBVIOUS
<1>4. \A h \in kept :
        /\ FallsTo(h, e) \in Falls
        /\ Rebased(h, e) \in Nat
        /\ IF FallsTo(h, e) = 0 THEN Rebased(h, e) < Fall[1]
           ELSE Rebased(h, e) >= Fall[FallsTo(h, e)]
  BY <1>3, ClickKeepsTimer
<1> HIDE DEF out, kept
<1>5. elapsed' \in [Falls -> Nat] /\ elapsed'[0] = 0
  BY <1>1, CountdownAssumption DEF IInv, TypeOK, Falls
<1>6. \A i \in 1..LastFall : elapsed'[i] < Fall[i]
  BY <1>1, CountdownAssumption DEF IInv, TypeOK, Falls, Scanned
<1>7. TypeOK'
  BY <1>1, <1>2, <1>4, <1>5, CountdownAssumption DEF TypeOK, Falls
<1>8. Wheel'
  BY <1>1, <1>2, <1>4, <1>5, <1>6 DEF Wheel
<1> QED
  BY <1>7, <1>8 DEF IInv

\* The invariant holds in every reachable state.
LEMMA InductiveIInv == Spec => []IInv
<1>1. IInv /\ [Next]_vars => IInv'
  <2> SUFFICES ASSUME IInv, [Next]_vars PROVE IInv'
    OBVIOUS
  <2>1. ASSUME NEW h \in Handlers, RemoveTimeout(h) PROVE IInv'
    BY <2>1, CountdownAssumption, SMTT(30) DEF RemoveTimeout, IInv, TypeOK, Wheel, Falls
  <2>2. ASSUME NEW h \in Handlers, NotifyTimeout(h) PROVE IInv'
    BY <2>2 DEF NotifyTimeout, IInv, TypeOK, Wheel
  <2>3. ASSUME NEW d \in 0..MaxStep, TimoutRun(d) PROVE IInv'
    <3>1. CASE acc + d < TimeClick
      BY <2>3, <3>1, CountdownAssumption DEF TimoutRun, IInv, TypeOK, Wheel
    <3>2. CASE ~(acc + d < TimeClick)
      <4>1. acc + d \in Nat /\ acc + d >= TimeClick
        BY <3>2, CountdownAssumption DEF IInv, TypeOK
      <4>2. ClickElapse(acc + d) /\ acc' \in 0..(TimeClick - 1)
        BY <2>3, <3>2, CountdownAssumption DEF TimoutRun
      <4> QED
        BY <4>1, <4>2, ClickKeepsIInv
    <3> QED
      BY <3>1, <3>2
  <2>4. CASE UNCHANGED vars
    BY <2>4 DEF vars, IInv, TypeOK, Wheel
  <2> QED
    BY <2>1, <2>2, <2>3, <2>4, SelectKeepsIInv DEF Next
<1> QED
  BY <1>1, InitIInv, PTL DEF Spec
\* Type correctness of the countdown.
THEOREM TypeCorrect == Spec => []TypeOK
  BY InductiveIInv, PTL DEF IInv

\* A fall that click_elapse skips never holds a timer that is due.
THEOREM NothingOverdue == Spec => []NoTimerOverdue
<1>1. IInv => NoTimerOverdue
  <2> SUFFICES ASSUME IInv, NEW h \in armed
               PROVE  IF fallidx[h] = 0
                      THEN Remaining(h) \in 0..(TimeClick - 1)
                      ELSE Remaining(h) >= Fall[fallidx[h]] - elapsed[fallidx[h]]
    BY DEF NoTimerOverdue
  <2>1. /\ Remaining(h) = count[h] - elapsed[fallidx[h]]
        /\ count[h] \in Nat /\ fallidx[h] \in Falls /\ elapsed[fallidx[h]] \in Nat
        /\ Fall[fallidx[h]] \in Nat
    BY CountdownAssumption DEF Remaining, IInv, TypeOK
  <2>2. Fall[1] \in Nat /\ Fall[1] <= TimeClick /\ TimeClick \in Nat
    BY CountdownAssumption DEF Falls
  <2>3. CASE fallidx[h] = 0
    BY <2>1, <2>2, <2>3 DEF IInv, Wheel
  <2>4. CASE fallidx[h] # 0
    BY <2>1, <2>4 DEF IInv, Wheel
  <2> QED
    BY <2>3, <2>4
<1> QED
  BY <1>1, InductiveIInv, PTL

--------------------------------------------------------------------------------
(* The ladder implements exact timers *)

Rest == [h \in Handlers |-> Remaining(h)]

\* A click ends exactly the timers whose remaining time it covers.
LEMMA ExpiresIffOver ==
  ASSUME IInv, NEW e \in Nat, e >= TimeClick, ClickElapse(e), NEW h \in armed
  PROVE  Expires(h, e) <=> Rest[h] <= e
<1>1. /\ h \in Handlers
      /\ Rest[h] = count[h] - elapsed[fallidx[h]]
      /\ count[h] \in Nat /\ fallidx[h] \in Falls /\ elapsed[fallidx[h]] \in Nat
      /\ TimeClick \in Nat /\ Fall[1] \in Nat /\ Fall[1] <= TimeClick
  BY CountdownAssumption DEF Rest, Remaining, IInv, TypeOK, Falls
<1>2. ASSUME Expires(h, e) PROVE Rest[h] <= e
  <2>1. CASE fallidx[h] = 0
    BY <1>1, <2>1 DEF IInv, Wheel
  <2>2. CASE Left(h, e) <= 0
    BY <1>1, <2>2 DEF Left
  <2> QED
    BY <1>2, <2>1, <2>2 DEF Expires
<1>3. ASSUME ~Expires(h, e) PROVE ~(Rest[h] <= e)
  <2>1. count[h] - elapsed[fallidx[h]] > e
    BY <1>3, ClickKeepsTimer
  <2> QED
    BY <1>1, <2>1
<1> QED
  BY <1>2, <1>3

\* One click_elapse is one Click of the abstract timers.
LEMMA ClickIsExact ==
  ASSUME IInv, NEW e \in Nat, e >= TimeClick, ClickElapse(e), result = {}
  PROVE  Exact!Click(e)
<1> DEFINE out == {h \in armed : Expires(h, e)}
<1>1. out = {h \in armed : Rest[h] <= e}
  BY ExpiresIffOver
<1>2. result' = out /\ armed' = armed \ out
  BY DEF ClickElapse
<1>3. ASSUME NEW h \in Handlers
      PROVE  Rest'[h] = IF h \in armed \ out THEN Rest[h] - e ELSE 0
  <2>1. CASE h \in armed \ out
    <3>1. h \in armed /\ ~Expires(h, e)
      BY <2>1
    <3>2. Rebased(h, e) - elapsed'[FallsTo(h, e)] = count[h] - elapsed[fallidx[h]] - e
      BY <3>1, ClickKeepsTimer
    <3>3. fallidx'[h] = FallsTo(h, e) /\ count'[h] = Rebased(h, e)
      BY <2>1 DEF ClickElapse
    <3>4. Rest'[h] = count'[h] - elapsed'[fallidx'[h]] /\ Rest[h] = count[h] - elapsed[fallidx[h]]
      BY <1>2, <2>1 DEF Rest, Remaining
    <3> QED
      BY <2>1, <3>2, <3>3, <3>4
  <2>2. CASE h \notin armed \ out
    BY <1>2, <2>2 DEF Rest, Remaining
  <2> QED
    BY <2>1, <2>2
<1> HIDE DEF out
<1>4. Rest' = [h \in Handlers |-> IF h \in armed \ out THEN Rest[h] - e ELSE 0]
  <2>1. Rest' = [h \in Handlers |-> Rest'[h]]
    BY DEF Rest
  <2> QED
    BY <1>3, <2>1
<1> QED
  BY <1>1, <1>2, <1>4 DEF Exact!Click, Rest

\* Falling from fall to fall, re-arming and cancelling never changes when a
\* timer expires.
THEOREM CountdownIsExact == Spec => ImplementsTimers
<1>1. Init => Exact!Init
  BY DEF Init, Exact!Init, Remaining
<1>2. IInv /\ [Next]_vars => [Exact!Next]_(Exact!timerVars)
  <2> SUFFICES ASSUME IInv, [Next]_vars PROVE [Exact!Next]_(Exact!timerVars)
    OBVIOUS
  <2>1. ASSUME NEW h \in Handlers, NEW timeout \in 0..MaxTimeout, SelectTimeout(h, timeout)
        PROVE  Exact!Set(h, timeout)
    <3> DEFINE i == FindFallIdx(timeout, LastFall)
    <3>0. timeout \in Nat /\ LastFall \in 1..LastFall
      BY CountdownAssumption
    <3>1. i \in Falls
      BY <3>0, FindFallIdxSpec DEF Falls
    <3>2. /\ armed' = armed \cup {h}
          /\ fallidx' = [fallidx EXCEPT ![h] = i]
          /\ count' = [count EXCEPT ![h] = timeout + elapsed[i]]
          /\ UNCHANGED <<elapsed, acc, result>>
      BY <2>1 DEF SelectTimeout
    <3> HIDE DEF i
    <3>3. timeout \in Nat /\ elapsed[i] \in Nat
      BY <3>1, CountdownAssumption DEF IInv, TypeOK
    <3>4. Rest' = [Rest EXCEPT ![h] = timeout]
      <4>1. /\ fallidx'[h] = i /\ count'[h] = timeout + elapsed[i]
            /\ h \in armed' /\ UNCHANGED elapsed
        BY <3>2 DEF IInv, TypeOK
      <4>2. Rest'[h] = timeout
        BY <3>3, <4>1 DEF Rest, Remaining
      <4>3. ASSUME NEW k \in Handlers, k # h PROVE Rest'[k] = Rest[k]
        BY <3>2, <4>3 DEF Rest, Remaining, IInv, TypeOK
      <4>4. Rest' = [k \in Handlers |-> Rest'[k]] /\ Rest = [k \in Handlers |-> Rest[k]]
        BY DEF Rest
      <4> HIDE DEF Rest
      <4> QED
        BY <4>2, <4>3, <4>4
    <3> QED
      BY <3>2, <3>4 DEF Exact!Set, Rest
  <2>2. ASSUME NEW h \in Handlers, RemoveTimeout(h) PROVE Exact!Cancel(h)
    <3>1. Rest' = [Rest EXCEPT ![h] = 0]
      BY <2>2 DEF RemoveTimeout, Rest, Remaining, IInv, TypeOK
    <3> QED
      BY <2>2, <3>1 DEF RemoveTimeout, Exact!Cancel, Rest
  <2>3. ASSUME NEW h \in Handlers, NotifyTimeout(h) PROVE Exact!Notify(h)
    BY <2>3 DEF NotifyTimeout, Exact!Notify, Remaining
  <2>4. ASSUME NEW d \in 0..MaxStep, TimoutRun(d), acc + d < TimeClick
        PROVE  UNCHANGED Exact!timerVars
    BY <2>4 DEF TimoutRun, Exact!timerVars, Remaining
  <2>5. ASSUME NEW d \in 0..MaxStep, TimoutRun(d), ~(acc + d < TimeClick)
        PROVE  Exact!Next
    <3>1. /\ acc + d \in Nat /\ acc + d >= TimeClick
          /\ acc + d \in TimeClick..(MaxStep + TimeClick)
      BY <2>5, CountdownAssumption DEF IInv, TypeOK
    <3>2. Exact!Click(acc + d)
      BY <2>5, <3>1, ClickIsExact DEF TimoutRun
    <3> QED
      BY <3>1, <3>2 DEF Exact!Next
  <2>6. CASE UNCHANGED vars
    BY <2>6 DEF vars, Exact!timerVars, Remaining
  <2> QED
    BY <2>1, <2>2, <2>3, <2>4, <2>5, <2>6 DEF Next, Exact!Next
<1> QED
  BY <1>1, <1>2, InductiveIInv, PTL DEF Spec, ImplementsTimers, Exact!Spec
================================================================================
