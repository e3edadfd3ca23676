------------------------- MODULE RefreshCycleProofs -------------------------
(***************************************************************************)
(* The refresh schedule is right for every set of rates, every length of   *)
(* a minute and every bound on the queue.                                  *)
(*                                                                         *)
(* TypeOK carries the one fact the timer needs, that timerLeft never goes  *)
(* negative.  RefreshArmed and SkippedIsRequeued are inductive over it     *)
(* alone; TimerOnSchedule needs Horizon to lie beyond every period, so     *)
(* that the clock's saturation is never seen by a running timer.           *)
(***************************************************************************)
EXTENDS RefreshCycle, TLAPS

LEMMA Constants ==
  /\ Minute \in Nat /\ Minute > 0
  /\ Horizon \in Nat
  /\ MaxQueued \in Nat /\ MaxQueued > 0
  BY RefreshAssumption DEF RefreshAssumption

LEMMA PeriodNat == \A r \in Rates : Period(r) \in Nat /\ Period(r) + 2 <= Horizon
<1> SUFFICES ASSUME NEW r \in Rates
             PROVE  Period(r) \in Nat /\ Period(r) + 2 <= Horizon
  OBVIOUS
<1>1. r \in Nat /\ Minute \in Nat
  BY RefreshAssumption DEF RefreshAssumption
<1>2. TicksPerSecond * Minute \in Nat
  BY <1>1 DEF TicksPerSecond
<1>3. Period(r) \in Nat
  BY <1>1, <1>2 DEF Period
<1> QED
  BY <1>3, RefreshAssumption DEF RefreshAssumption, TicksPerSecond

\* What addTimer leaves in timerLeft when the period is not over.
LEMMA AddedTimer ==
  ASSUME NEW p \in Nat, NEW s \in Nat, s <= p
  PROVE  /\ p - TicksPerSecond * WholeSeconds(s) \in Nat
         /\ s + (p - TicksPerSecond * WholeSeconds(s)) - p \in 0..1
  BY DEF TicksPerSecond, WholeSeconds
-----------------------------------------------------------------------------
\* The state keeps its types: in particular a timer is never set into the past.
THEOREM TypeCorrect == Spec => []TypeOK
<1>1. Init => FlagsTyped
  BY Zenon DEF Init, FlagsTyped
<1>2. Init => CountersTyped
  BY Constants DEF Init, CountersTyped
<1>3. FlagsTyped /\ [Next]_vars => FlagsTyped'
  <2> SUFFICES ASSUME FlagsTyped, [Next]_vars PROVE FlagsTyped'
    OBVIOUS
  <2> USE DEF FlagsTyped
  <2>1. CASE RunRefresh
    BY <2>1, Zenon DEF RunRefresh, AddTimer, RefreshAllowed, env, display
  <2>2. ASSUME NEW rate \in Rates, ChangeRefreshRate(rate) PROVE FlagsTyped'
    BY <2>2, Zenon DEF ChangeRefreshRate, AddTimer, env, display
  <2>3. CASE TimerFires \/ ForceRefresh
    BY <2>3, Zenon DEF TimerFires, ForceRefresh, env, display
  <2>4. CASE MenuWillOpen \/ UpdateTimerFires \/ MenuDidClose
    BY <2>4, Zenon DEF MenuWillOpen, UpdateTimerFires, MenuDidClose, env, schedule
  <2>5. CASE Notified
    BY <2>5, Zenon DEF Notified, ReachabilityChanged, DidWake, DidSleep,
         DidUserActive, DidUserDeactive, BlinkPlugged, env, schedule, display
  <2>6. CASE Tick \/ UNCHANGED vars
    BY <2>6, Zenon DEF Tick, vars, env, schedule, display
  <2> QED
    BY <2>1, <2>2, <2>3, <2>4, <2>5, <2>6 DEF Next, UserInput
<1>4. CountersTyped /\ [Next]_vars => CountersTyped'
  <2> SUFFICES ASSUME CountersTyped, [Next]_vars PROVE CountersTyped'
    OBVIOUS
  <2> USE Constants DEF CountersTyped
  <2>1. CASE RunRefresh
    <3>1. /\ AddTimer(FALSE, 0, refreshRate, queued - 1) /\ queued > 0
          /\ sinceRefresh' = 0 /\ refreshRate' = refreshRate /\ shown' = shown
      BY <2>1 DEF RunRefresh, display
    <3>2. Period(refreshRate) \in Nat /\ 0 <= Period(refreshRate)
      BY PeriodNat
    <3>3. /\ queued' = queued - 1
          /\ timerLeft' = Period(refreshRate) - TicksPerSecond * WholeSeconds(0)
      BY <3>1, <3>2 DEF AddTimer
    <3>4. timerLeft' \in Nat
      BY <3>2, <3>3, AddedTimer
    <3> QED
      BY <3>1, <3>3, <3>4
  <2>2. ASSUME NEW rate \in Rates, ChangeRefreshRate(rate) PROVE CountersTyped'
    <3>1. /\ AddTimer(timerLive, sinceRefresh, rate, queued) /\ queued < MaxQueued
          /\ refreshRate' = rate /\ sinceRefresh' = sinceRefresh /\ shown' = shown
      BY <2>2 DEF ChangeRefreshRate, display
    <3>2. queued' \in 0..MaxQueued
      BY <3>1 DEF AddTimer
    <3>3. timerLeft' \in Nat
      <4>1. Period(rate) \in Nat
        BY PeriodNat
      <4>2. CASE sinceRefresh > Period(rate)
        BY <4>1, <4>2, <3>1 DEF AddTimer
      <4>3. CASE sinceRefresh <= Period(rate)
        BY <4>1, <4>3, <3>1, AddedTimer DEF AddTimer
      <4> QED
        BY <4>1, <4>2, <4>3
    <3> QED
      BY <3>1, <3>2, <3>3
  <2>3. CASE TimerFires \/ ForceRefresh
    BY <2>3 DEF TimerFires, ForceRefresh, Enqueue, display
  <2>4. CASE MenuWillOpen \/ UpdateTimerFires
    <3>1. shown' \in Int
      BY <2>4, RefreshAssumption
         DEF RefreshAssumption, MenuWillOpen, UpdateTimerFires, SecondsShown,
             WholeSeconds, TicksPerSecond
    <3> QED
      BY <2>4, <3>1 DEF MenuWillOpen, UpdateTimerFires, schedule
  <2>5. CASE MenuDidClose \/ UNCHANGED vars
    BY <2>5 DEF MenuDidClose, vars, schedule, display
  <2>6. CASE Notified
    BY <2>6 DEF Notified, ReachabilityChanged, DidWake, DidSleep, DidUserActive,
                DidUserDeactive, BlinkPlugged, Enqueue, schedule, display
  <2>7. CASE Tick
    BY <2>7 DEF Tick, display
  <2> QED
    BY <2>1, <2>2, <2>3, <2>4, <2>5, <2>6, <2>7 DEF Next, UserInput
<1> QED
  BY <1>1, <1>2, <1>3, <1>4, PTL DEF Spec, TypeOK
-----------------------------------------------------------------------------
\* The schedule never dies, whatever the user and the notifications do.
THEOREM NeverDies == Spec => []RefreshArmed
<1>1. Init => RefreshArmed
  BY DEF Init, RefreshArmed
<1>2. CountersTyped /\ RefreshArmed /\ [Next]_vars => RefreshArmed'
  <2> SUFFICES ASSUME CountersTyped, RefreshArmed, [Next]_vars PROVE RefreshArmed'
    OBVIOUS
  <2> USE Constants, PeriodNat DEF CountersTyped, RefreshArmed
  <2>1. CASE RunRefresh
    BY <2>1 DEF RunRefresh, AddTimer
  <2>2. CASE TimerFires \/ ForceRefresh
    BY <2>2 DEF TimerFires, ForceRefresh, Enqueue
  <2>3. ASSUME NEW rate \in Rates, ChangeRefreshRate(rate) PROVE RefreshArmed'
    BY <2>3 DEF ChangeRefreshRate, AddTimer
  <2>4. CASE MenuWillOpen \/ UpdateTimerFires \/ MenuDidClose
    BY <2>4 DEF MenuWillOpen, UpdateTimerFires, MenuDidClose, schedule
  <2>5. CASE Notified
    BY <2>5 DEF Notified, ReachabilityChanged, DidWake, DidSleep, DidUserActive,
                DidUserDeactive, BlinkPlugged, Enqueue, schedule
  <2>6. CASE Tick \/ UNCHANGED vars
    BY <2>6 DEF Tick, vars, schedule
  <2> QED
    BY <2>1, <2>2, <2>3, <2>4, <2>5, <2>6 DEF Next, UserInput
<1> QED
  BY <1>1, <1>2, TypeCorrect, PTL DEF Spec, TypeOK
-----------------------------------------------------------------------------
\* A refresh skipped in the dark is queued again by the time the light is back.
THEOREM SkippedComesBack == Spec => []SkippedIsRequeued
<1>1. Init => SkippedIsRequeued
  BY DEF Init, SkippedIsRequeued
<1>2. CountersTyped /\ SkippedIsRequeued /\ [Next]_vars => SkippedIsRequeued'
  <2> SUFFICES ASSUME CountersTyped, SkippedIsRequeued, [Next]_vars
               PROVE  SkippedIsRequeued'
    OBVIOUS
  <2> USE DEF CountersTyped, SkippedIsRequeued
  <2>1. CASE RunRefresh
    BY <2>1 DEF RunRefresh, RefreshAllowed, env
  <2>2. CASE TimerFires \/ ForceRefresh
    BY <2>2, Constants DEF TimerFires, ForceRefresh, Enqueue
  <2>3. ASSUME NEW rate \in Rates, ChangeRefreshRate(rate)
        PROVE  SkippedIsRequeued'
    BY <2>3, Constants DEF ChangeRefreshRate, AddTimer, env
  <2>4. CASE MenuWillOpen \/ UpdateTimerFires \/ MenuDidClose
    BY <2>4 DEF MenuWillOpen, UpdateTimerFires, MenuDidClose, env, schedule
  <2>5. CASE Notified
    BY <2>5, Constants
       DEF Notified, ReachabilityChanged, DidWake, DidSleep, DidUserActive,
           DidUserDeactive, BlinkPlugged, Enqueue, env, schedule
  <2>6. CASE Tick \/ UNCHANGED vars
    BY <2>6 DEF Tick, vars, env, schedule
  <2> QED
    BY <2>1, <2>2, <2>3, <2>4, <2>5, <2>6 DEF Next, UserInput
<1> QED
  BY <1>1, <1>2, TypeCorrect, PTL DEF Spec, TypeOK
-----------------------------------------------------------------------------
\* A running timer stands where the rate and lastRefresh put it, less than a
\* second late, after any sequence of rate changes.
THEOREM OnSchedule == Spec => []TimerOnSchedule
<1>1. Init => TimerOnSchedule
  BY DEF Init, TimerOnSchedule
<1>2. CountersTyped /\ TimerOnSchedule /\ [Next]_vars => TimerOnSchedule'
  <2> SUFFICES ASSUME CountersTyped, TimerOnSchedule, [Next]_vars
               PROVE  TimerOnSchedule'
    OBVIOUS
  <2>p. /\ Period(refreshRate) \in Nat
        /\ Period(refreshRate) + 2 <= Horizon
    BY PeriodNat DEF CountersTyped
  <2>h. Horizon \in Nat /\ MaxQueued \in Nat
    BY Constants
  <2>1. CASE RunRefresh
    <3>1. /\ AddTimer(FALSE, 0, refreshRate, queued - 1)
          /\ sinceRefresh' = 0 /\ refreshRate' = refreshRate
      BY <2>1 DEF RunRefresh
    <3>2. timerLeft' = Period(refreshRate)
      BY <3>1, <2>p DEF AddTimer, TicksPerSecond, WholeSeconds
    <3> QED
      BY <3>1, <3>2, <2>p DEF TimerOnSchedule, Period
  <2>2. CASE TimerFires \/ ForceRefresh
    BY <2>2 DEF TimerFires, ForceRefresh, Enqueue, TimerOnSchedule, CountersTyped
  <2>3. ASSUME NEW rate \in Rates, ChangeRefreshRate(rate)
        PROVE  TimerOnSchedule'
    <3>1. /\ AddTimer(timerLive, sinceRefresh, rate, queued)
          /\ sinceRefresh' = sinceRefresh /\ Period(refreshRate)' = Period(rate)
      BY <2>3 DEF ChangeRefreshRate, Period
    <3>2. Period(rate) \in Nat
      BY PeriodNat
    <3>3. CASE sinceRefresh > Period(rate)
      <4>1. queued' = queued + 1 /\ queued \in Nat /\ sinceRefresh \in Nat
        BY <3>1, <3>2, <3>3, <2>h DEF AddTimer, CountersTyped
      <4> QED
        BY <4>1 DEF TimerOnSchedule
    <3>4. CASE sinceRefresh <= Period(rate)
      <4>1. /\ timerLeft' \in Nat
            /\ sinceRefresh + timerLeft' - Period(rate) \in 0..1
        BY <3>1, <3>2, <3>4, <2>h, AddedTimer DEF AddTimer, CountersTyped
      <4> QED
        BY <4>1, <3>1, <3>2, <2>h DEF TimerOnSchedule, CountersTyped
    <3> QED
      BY <3>3, <3>4, <3>2, <2>h DEF CountersTyped
  <2>4. CASE MenuWillOpen \/ UpdateTimerFires \/ MenuDidClose
    BY <2>4 DEF MenuWillOpen, UpdateTimerFires, MenuDidClose, schedule,
                TimerOnSchedule, Period
  <2>5. CASE Notified
    <3>1. Enqueue \/ UNCHANGED schedule
      BY <2>5, Zenon DEF Notified, ReachabilityChanged, DidWake, DidSleep,
                         DidUserActive, DidUserDeactive, BlinkPlugged
    <3>2. CASE Enqueue
      BY <3>2 DEF Enqueue, TimerOnSchedule, CountersTyped
    <3>3. CASE UNCHANGED schedule
      BY <3>3 DEF schedule, TimerOnSchedule, Period
    <3> QED
      BY <3>1, <3>2, <3>3
  <2>6. CASE Tick
    <3>1. /\ Period(refreshRate)' = Period(refreshRate)
          /\ timerLive' = timerLive /\ queued' = queued
      BY <2>6 DEF Tick, Period
    <3> QED
      BY <2>6, <3>1, <2>p, <2>h DEF Tick, CountersTyped, TimerOnSchedule
  <2>7. CASE UNCHANGED vars
    BY <2>7 DEF vars, schedule, TimerOnSchedule, Period
  <2> QED
    BY <2>1, <2>2, <2>3, <2>4, <2>5, <2>6, <2>7 DEF Next, UserInput
<1> QED
  BY <1>1, <1>2, TypeCorrect, PTL DEF Spec, TypeOK
-----------------------------------------------------------------------------
\* The countdown the user reads is never more than half a second off.
THEOREM CountdownIsHonest == Spec => CountdownHonest
<1> DEFINE Honest == shown' # shown /\ queued = 0 /\ timerLeft > 0
                       => TicksPerSecond * shown' - timerLeft \in -1..1
<1>1. CountersTyped /\ RefreshArmed /\ TimerOnSchedule /\ [Next]_vars => [Honest]_vars
  <2> SUFFICES ASSUME CountersTyped, RefreshArmed, TimerOnSchedule, Next,
                      shown' # shown, queued = 0, timerLeft > 0
               PROVE  TicksPerSecond * shown' - timerLeft \in -1..1
    OBVIOUS
  <2>1. shown' = SecondsShown
    BY DEF Next, UserInput, Notified, RunRefresh, TimerFires, ChangeRefreshRate,
           ForceRefresh, MenuWillOpen, UpdateTimerFires, MenuDidClose, Tick,
           ReachabilityChanged, DidWake, DidSleep, DidUserActive,
           DidUserDeactive, BlinkPlugged, display
  <2>2. sinceRefresh + timerLeft - Period(refreshRate) \in 0..1
    BY DEF RefreshArmed, TimerOnSchedule
  <2>3. Minute * refreshRate \in Nat /\ sinceRefresh \in Nat /\ timerLeft \in Nat
    BY RefreshAssumption DEF RefreshAssumption, CountersTyped
  <2>4. Period(refreshRate) = 2 * (Minute * refreshRate)
    BY RefreshAssumption DEF RefreshAssumption, Period, TicksPerSecond, CountersTyped
  <2> QED
    BY <2>1, <2>2, <2>3, <2>4 DEF SecondsShown, WholeSeconds, TicksPerSecond
<1> QED
  BY <1>1, TypeCorrect, NeverDies, OnSchedule, PTL DEF Spec, TypeOK, CountdownHonest
=============================================================================
