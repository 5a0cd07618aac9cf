-------------------------- MODULE TimerQueue_proof -------------------------
(***************************************************************************)
(* Proofs about TimerQueue, for any timers, timeouts, clock and lateness.  *)
(***************************************************************************)
EXTENDS TimerQueue, TLAPS

\* Rounding down to whole microseconds never lengthens a duration by more than
\* the one microsecond that resetTimerfd asks for at least.
LEMMA DurationBounds ==
    ASSUME NEW left \in Int
    PROVE  /\ Duration(left) \in Nat
           /\ Duration(left) <= left + Grain \/ Duration(left) = Grain
<1> USE TimeAssumption
<1>1. CASE left < Grain
  BY <1>1 DEF Duration
<1>2. CASE left >= Grain
  <2> DEFINE q == left \div Grain
  <2>1. /\ q \in Int /\ q >= 0
        /\ q * Grain <= left
    BY <1>2, SMTT(30)
  <2>2. Duration(left) = q * Grain
    BY <1>2 DEF Duration
  <2> HIDE DEF q
  <2>3. q * Grain \in Nat
    BY <2>1
  <2> QED BY <2>1, <2>2, <2>3
<1> QED BY <1>1, <1>2

\* timerfd is never set to a time that is later than asked for by more than a
\* microsecond and the lateness of the call, and never disarmed.
LEMMA SetTimerfdBounds ==
    ASSUME TypeOK, NEW exp \in 0..MaxTime, SetTimerfd(exp)
    PROVE  /\ alarm' \in Int
           /\ alarm' # None
           /\ alarm' <= exp + Grain + MaxLate \/ alarm' <= now + Grain + MaxLate
<1>1. PICK late \in 0..MaxLate : alarm' = now + Duration(exp - now) + late
  BY DEF SetTimerfd
<1>2. now \in Nat /\ exp \in Nat /\ late \in Nat /\ late <= MaxLate
      /\ MaxLate \in Nat /\ Grain \in Nat
  BY TimeAssumption DEF TypeOK
<1>3. /\ Duration(exp - now) \in Nat
      /\ Duration(exp - now) <= (exp - now) + Grain \/ Duration(exp - now) = Grain
  BY <1>2, DurationBounds
<1> QED BY <1>1, <1>2, <1>3 DEF None

----------------------------------------------------------------------------
\* Every step keeps the types.
LEMMA TypeStep == TypeOK /\ [Next]_vars => TypeOK'
<1> SUFFICES ASSUME TypeOK, [Next]_vars PROVE TypeOK'
  OBVIOUS
<1> USE TimeAssumption DEF Pcs
<1>1. CASE Tick
  BY <1>1 DEF Tick, TypeOK
<1>2. CASE Expire
  BY <1>2 DEF Expire, TypeOK, None
<1>3. CASE Add
  <2>1. PICK t \in Timers, d \in Timeouts : now + d <= MaxTime /\ AddTimer(t, now + d)
    BY <1>3 DEF Add
  <2>2. now + d \in 0..MaxTime
    BY <2>1 DEF TypeOK
  <2>3. alarm' \in Int /\ readable' \in BOOLEAN
    <3>1. CASE SetTimerfd(now + d)
      BY <3>1, <2>2, SetTimerfdBounds DEF SetTimerfd
    <3>2. CASE UNCHANGED <<alarm, readable>>
      BY <3>2 DEF TypeOK
    <3> QED BY <2>1, <3>1, <3>2 DEF AddTimer
  <2> QED BY <1>3, <2>1, <2>2, <2>3 DEF Add, AddTimer, TypeOK
<1>4. CASE SetDeleted
  BY <1>4 DEF SetDeleted, TypeOK
<1>5. CASE Harvest
  BY <1>5 DEF Harvest, TypeOK
<1>6. CASE HandleRead
  <2>1. now \in 0..MaxTime /\ now # None
    BY DEF TypeOK, None
  <2> QED BY <1>6, <2>1 DEF HandleRead, TypeOK
<1>7. CASE HandleReadFails
  BY <1>7 DEF HandleReadFails, TypeOK
<1>8. CASE PopDue
  BY <1>8 DEF PopDue, Pop, IsTop, TypeOK
<1>9. CASE CallbackReturns
  BY <1>9 DEF CallbackReturns, TypeOK
<1>10. CASE HandleReadReturns
  <2>1. alarm' \in Int /\ readable' \in BOOLEAN
    <3>1. CASE UNCHANGED <<alarm, readable>>
      BY <3>1 DEF TypeOK
    <3>2. ASSUME NEW t \in timers, SetTimerfd(expiration[t])
          PROVE  alarm' \in Int /\ readable' \in BOOLEAN
      <4>1. expiration[t] \in 0..MaxTime
        BY <3>2 DEF TypeOK
      <4> QED BY <4>1, <3>2, SetTimerfdBounds DEF SetTimerfd
    <3> QED BY <1>10, <3>1, <3>2 DEF HandleReadReturns
  <2> QED BY <1>10, <2>1 DEF HandleReadReturns, TypeOK
<1>11. CASE UNCHANGED vars
  BY <1>11 DEF vars, TypeOK
<1> QED
  BY <1>1, <1>2, <1>3, <1>4, <1>5, <1>6, <1>7, <1>8, <1>9, <1>10, <1>11
  DEF Next, LoopStep

\* The types of the model hold in every state.
THEOREM TypeCorrect == Spec => []TypeOK
<1>1. ASSUME Init PROVE TypeOK
  <2>1. 0 \in 0..MaxTime /\ None \in Int
    BY TimeAssumption DEF None
  <2> QED BY <1>1, <2>1 DEF Init, TypeOK, Pcs
<1> QED BY <1>1, TypeStep, PTL DEF Spec

----------------------------------------------------------------------------
\* Whatever wakes the loop in time for one expiration does so for a later one.
LEMMA WakesForLater ==
    ASSUME TypeOK, NEW e \in 0..MaxTime, NEW f \in 0..MaxTime, e <= f, WakesFor(e)
    PROVE  WakesFor(f)
<1> USE TimeAssumption
<1>1. /\ e \in Nat /\ f \in Nat /\ Grain \in Nat /\ MaxLate \in Nat
      /\ alarm \in Int
  BY DEF TypeOK
<1>2. alarm <= e + Grain + MaxLate => alarm <= f + Grain + MaxLate
  BY <1>1
<1> QED BY <1>2 DEF WakesFor

\* After timerfd_settime for exp, the loop wakes in time for exp and all later.
LEMMA WakesWhenSet ==
    ASSUME TypeOK, NEW exp \in 0..MaxTime, SetTimerfd(exp), now' = now,
           NEW f \in 0..MaxTime, exp <= f
    PROVE  WakesFor(f)'
<1>1. /\ alarm' \in Int /\ alarm' # None
      /\ alarm' <= exp + Grain + MaxLate \/ alarm' <= now + Grain + MaxLate
  BY SetTimerfdBounds
<1>2. exp \in Nat /\ f \in Nat /\ Grain \in Nat /\ MaxLate \in Nat /\ now \in Nat
  BY TimeAssumption DEF TypeOK
<1>3. alarm' <= f + Grain + MaxLate \/ alarm' <= now' + Grain + MaxLate
  BY <1>1, <1>2
<1> QED BY <1>1, <1>3 DEF WakesFor

\* NeverOversleeps is inductive once the types are known: the loop never sleeps
\* longer than the earliest timer of the heap allows, for any clock, timeouts,
\* granularity and lateness (addTimer, handleRead, resetTimerfd).
THEOREM LoopNeverOversleeps == Spec => []NeverOversleeps
<1>1. Init => NeverOversleeps
  BY DEF Init, NeverOversleeps
<1>2. TypeOK /\ NeverOversleeps /\ [Next]_vars => NeverOversleeps'
  <2> SUFFICES ASSUME TypeOK, NeverOversleeps, [Next]_vars,
                      NEW u \in Timers, u \in timers'
               PROVE  WakesFor(expiration[u])'
    <3>1. TypeOK /\ NeverOversleeps /\ [Next]_vars =>
            timers' \subseteq Timers
      BY TypeStep DEF TypeOK
    <3> QED BY <3>1 DEF NeverOversleeps
  <2> USE TimeAssumption
  <2>0. ASSUME NEW t \in timers PROVE expiration[t] \in 0..MaxTime /\ WakesFor(expiration[t])
    BY <2>0 DEF TypeOK, NeverOversleeps
  <2>1. CASE Tick
    <3>1. u \in timers /\ expiration' = expiration
      BY <2>1 DEF Tick
    <3>2. WakesFor(expiration[u])
      BY <3>1, <2>0
    <3>3. alarm <= now + Grain + MaxLate => alarm <= now' + Grain + MaxLate
      BY <2>1 DEF Tick, TypeOK
    <3> QED BY <2>1, <3>1, <3>2, <3>3 DEF Tick, WakesFor
  <2>2. CASE Expire
    BY <2>2 DEF Expire, WakesFor
  <2>3. CASE Add
    <3>1. PICK t \in Timers, d \in Timeouts : now + d <= MaxTime /\ AddTimer(t, now + d)
      BY <2>3 DEF Add
    <3> DEFINE exp == now + d
    <3>2. exp \in 0..MaxTime
      BY <3>1 DEF TypeOK
    <3>3. /\ timers' = timers \cup {t}
          /\ expiration' = [expiration EXCEPT ![t] = exp]
          /\ t \notin timers
          /\ now' = now /\ pc' = pc /\ ready' = ready
      BY <2>3, <3>1 DEF Add, AddTimer
    <3>4. /\ expiration'[t] = exp
          /\ \A v \in timers : expiration'[v] = expiration[v]
      BY <3>3 DEF TypeOK
    <3> HIDE DEF exp
    <3>5. CASE SetTimerfd(exp) /\ \A v \in timers : exp < expiration[v]
      <4>1. expiration'[u] \in 0..MaxTime /\ exp <= expiration'[u]
        BY <3>2, <3>3, <3>4, <3>5, <2>0
      <4>2. PICK f \in 0..MaxTime : f = expiration'[u]
        BY <4>1
      <4>3. WakesFor(f)'
        BY <4>1, <4>2, <3>2, <3>3, <3>5, WakesWhenSet
      <4> QED BY <4>2, <4>3 DEF WakesFor
    <3>6. CASE UNCHANGED <<alarm, readable>> /\ \E v \in timers : ~(exp < expiration[v])
      <4>1. ASSUME NEW f, WakesFor(f), f = expiration'[u] PROVE WakesFor(expiration[u])'
        BY <4>1, <3>3, <3>6 DEF WakesFor
      <4>2. CASE u = t
        <5>1. PICK v \in timers : ~(exp < expiration[v])
          BY <3>6
        <5>2. expiration[v] <= exp
          BY <5>1, <3>2, <2>0
        <5>3. WakesFor(exp)
          BY <5>2, <3>2, <2>0, WakesForLater
        <5> QED BY <5>3, <4>1, <4>2, <3>4
      <4>3. CASE u # t
        BY <4>1, <4>3, <3>3, <3>4, <2>0
      <4> QED BY <4>2, <4>3
    <3> QED BY <3>1, <3>5, <3>6 DEF AddTimer, exp
  <2>4. CASE SetDeleted
    BY <2>4, <2>0 DEF SetDeleted, WakesFor
  <2>5. CASE Harvest
    BY <2>5, <2>0 DEF Harvest, WakesFor
  <2>6. CASE HandleRead
    BY <2>6 DEF HandleRead, WakesFor
  <2>7. CASE HandleReadFails
    BY <2>7, <2>0 DEF HandleReadFails, WakesFor
  <2>8. CASE PopDue
    BY <2>8 DEF PopDue, Pop, WakesFor
  <2>9. CASE CallbackReturns
    BY <2>9 DEF CallbackReturns, WakesFor
  <2>10. CASE HandleReadReturns
    <3>1. /\ timers' = timers /\ expiration' = expiration /\ now' = now
          /\ u \in timers
      BY <2>10 DEF HandleReadReturns
    <3>2. PICK t \in timers : IsTop(t, timers) /\ SetTimerfd(expiration[t])
      BY <2>10, <3>1 DEF HandleReadReturns
    <3>3. expiration[t] <= expiration[u]
      BY <3>1, <3>2 DEF IsTop
    <3>4. PICK f \in 0..MaxTime : f = expiration[u]
      BY <3>1, <2>0
    <3>5. WakesFor(f)'
      BY <3>1, <3>2, <3>3, <3>4, <2>0, WakesWhenSet
    <3> QED BY <3>1, <3>4, <3>5 DEF WakesFor
  <2>11. CASE UNCHANGED vars
    BY <2>11, <2>0 DEF vars, WakesFor
  <2> QED
    BY <2>1, <2>2, <2>3, <2>4, <2>5, <2>6, <2>7, <2>8, <2>9, <2>10, <2>11
    DEF Next, LoopStep
<1> QED BY <1>1, <1>2, TypeCorrect, PTL DEF Spec

----------------------------------------------------------------------------
\* The time handleRead works with is not in the future.
ClockInv == clock # None => clock <= now

\* handleRead never runs ahead of the clock.
LEMMA ClockStep == TypeOK /\ ClockInv /\ [Next]_vars => ClockInv'
<1> SUFFICES ASSUME TypeOK, ClockInv, [Next]_vars PROVE ClockInv'
  OBVIOUS
<1>1. CASE Tick
  BY <1>1 DEF Tick, ClockInv, TypeOK, None
<1>2. CASE HandleRead
  BY <1>2 DEF HandleRead, ClockInv, TypeOK
<1>3. CASE HandleReadReturns
  BY <1>3 DEF HandleReadReturns, ClockInv
<1>4. CASE UNCHANGED <<clock, now>>
  BY <1>4 DEF ClockInv
<1> QED
  BY <1>1, <1>2, <1>3, <1>4
  DEF Next, LoopStep, vars, Expire, Add, SetDeleted, Harvest, HandleReadFails, PopDue,
      CallbackReturns

\* A timer runs once, when it is due, before all later ones and not after
\* setDeleted(), whatever the callbacks of the batch do to the heap (handleRead).
THEOREM TimersRunWhenDue == Spec => RunsWhenDue
<1> DEFINE A == \A t \in Timers : t \in ran' /\ t \notin ran =>
                  /\ t \in timers
                  /\ t \notin deleted
                  /\ expiration[t] <= now
                  /\ \A u \in timers : expiration[t] <= expiration[u]
<1>1. TypeOK /\ ClockInv /\ [Next]_vars => [A]_vars
  <2> SUFFICES ASSUME TypeOK, ClockInv, Next, NEW t \in Timers, t \in ran', t \notin ran
               PROVE  /\ t \in timers
                      /\ t \notin deleted
                      /\ expiration[t] <= now
                      /\ \A u \in timers : expiration[t] <= expiration[u]
    OBVIOUS
  <2>1. PopDue
    BY DEF Next, LoopStep, Tick, Expire, Add, SetDeleted, Harvest, HandleRead,
           HandleReadFails, CallbackReturns, HandleReadReturns
  <2>2. PICK v \in timers : expiration[v] <= clock /\ Pop(v)
    BY <2>1 DEF PopDue
  <2>3. v = t /\ t \notin deleted /\ IsTop(t, timers)
    BY <2>2 DEF Pop
  <2>4. expiration[t] <= now
    <3>1. clock # None /\ clock \in Int /\ now \in Int /\ expiration[t] \in Int
      BY <2>1, <2>3 DEF PopDue, TypeOK, None
    <3> QED BY <3>1, <2>2, <2>3 DEF ClockInv
  <2> QED BY <2>2, <2>3, <2>4 DEF IsTop
<1>2. Init => ClockInv
  BY DEF Init, ClockInv
<1> HIDE DEF A
<1>3. Spec => [][A]_vars
  BY <1>1, <1>2, ClockStep, TypeCorrect, PTL DEF Spec
<1> QED BY <1>3 DEF A, RunsWhenDue
============================================================================
