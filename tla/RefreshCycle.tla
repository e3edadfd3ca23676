---------------------------- MODULE RefreshCycle ----------------------------
(***************************************************************************)
(* The refresh schedule of SvrMnuAppDelegate: the one-shot refreshTimer,   *)
(* the `_refresh` selectors queued on the main run loop, and the flags     *)
(* that sleep, wake and user-switch notifications set.  Everything here    *)
(* runs on the main thread, so every handler is one action; what           *)
(* interleaves is the order in which the run loop gets to them and the     *)
(* time that passes in between.                                            *)
(*                                                                         *)
(* Time is relative and counted in half seconds, so that the fraction that *)
(* floor(timeSince) drops in addTimer is visible: sinceRefresh is now -    *)
(* lastRefresh, timerLeft what refreshTimer has still to wait.             *)
(***************************************************************************)
EXTENDS Integers

CONSTANTS Rates,      \* what the Refresh submenu offers, in minutes
          Minute,     \* seconds in a minute: 60 in the code
          Horizon,    \* sinceRefresh stops counting here: all later times act alike
          MaxQueued   \* bound on the `_refresh` selectors queued at once

VARIABLES screenAsleep,   \* set by sleep and screen sleep, cleared by wake
          userDeactive,   \* the login session is switched out
          blinkHere,      \* [blink isHere]: some blink(1) is plugged in
          refreshRate,    \* the "refreshRate" default
          sinceRefresh,   \* half seconds since lastRefresh
          timerLive,      \* refreshTimer is scheduled and valid
          timerLeft,      \* half seconds until it fires (0: overdue)
          queued,         \* `_refresh` selectors pending on the main run loop
          menusAsked,     \* did the last _refresh reach [mnu refresh]?
          menuOpen,       \* the status menu is open, updateTimer repeating
          shown           \* seconds in the title "Refresh(next in %ds)"

env == <<screenAsleep, userDeactive, blinkHere>>
schedule == <<refreshRate, sinceRefresh, timerLive, timerLeft, queued, menusAsked>>
display == <<menuOpen, shown>>
vars == <<env, schedule, display>>

TicksPerSecond == 2
WholeSeconds(ticks) == ticks \div TicksPerSecond     \* floor(timeSince)
Period(rate) == TicksPerSecond * Minute * rate       \* rate*60, in ticks

ASSUME RefreshAssumption ==
  /\ Rates # {} /\ Rates \subseteq Nat \ {0}
  /\ Minute \in Nat \ {0}
  /\ Horizon \in Nat
  /\ \A r \in Rates : Period(r) + TicksPerSecond <= Horizon
  /\ MaxQueued \in Nat \ {0}

FlagsTyped ==
  /\ screenAsleep \in BOOLEAN /\ userDeactive \in BOOLEAN /\ blinkHere \in BOOLEAN
  /\ timerLive \in BOOLEAN /\ menusAsked \in BOOLEAN /\ menuOpen \in BOOLEAN

CountersTyped ==
  /\ refreshRate \in Rates
  /\ sinceRefresh \in 0..Horizon
  /\ timerLeft \in Nat
  /\ queued \in 0..MaxQueued
  /\ shown \in Int

TypeOK == FlagsTyped /\ CountersTyped
-----------------------------------------------------------------------------
\* Slips that addTimer and its callers could plausibly contain.
AddTimerUnguarded(live, since, rate, pending) ==
  /\ queued' = pending /\ timerLive' = TRUE
  /\ timerLeft' = Period(rate) - TicksPerSecond * WholeSeconds(since)
AddTimerFromNow(live, since, rate, pending) ==
  /\ queued' = pending /\ timerLive' = TRUE /\ timerLeft' = Period(rate)
AddTimerRoundsUp(live, since, rate, pending) ==
  \/ /\ since > Period(rate)
     /\ queued' = pending + 1 /\ timerLive' = live /\ UNCHANGED timerLeft
  \/ /\ since <= Period(rate)
     /\ queued' = pending /\ timerLive' = TRUE
     /\ timerLeft' = Period(rate) - TicksPerSecond * WholeSeconds(since + 1)

(***************************************************************************)
(* addTimer.  `live` is refreshTimer's validity and `pending` the queue    *)
(* when it is called, `since` the time since lastRefresh.                  *)
(***************************************************************************)
AddTimer(live, since, rate, pending) ==
  \/ /\ since > Period(rate)                  \* overdue: [self refresh]
     /\ queued' = pending + 1
     /\ timerLive' = live
     /\ UNCHANGED timerLeft
  \/ /\ since <= Period(rate)
     /\ queued' = pending
     /\ timerLive' = TRUE
     /\ timerLeft' = Period(rate) - TicksPerSecond * WholeSeconds(since)

RefreshAllowed == ~(userDeactive \/ (screenAsleep /\ ~blinkHere))
RefreshReturnsEarly ==
  /\ queued > 0 /\ ~RefreshAllowed
  /\ queued' = queued - 1 /\ timerLive' = FALSE
  /\ sinceRefresh' = 0 /\ menusAsked' = FALSE
  /\ UNCHANGED <<env, refreshRate, timerLeft, display>>
RefreshBeforeTimer ==
  \/ RefreshReturnsEarly
  \/ /\ queued > 0 /\ RefreshAllowed
     /\ sinceRefresh' = 0
     /\ AddTimer(FALSE, 0, refreshRate, queued - 1)
     /\ menusAsked' = TRUE
     /\ UNCHANGED <<env, refreshRate, display>>

\* _refresh, run by the main run loop for one queued selector: cancel the
\* timer, restart the period, and ask the menus unless nobody is looking.
RunRefresh ==
  /\ queued > 0
  /\ sinceRefresh' = 0
  /\ AddTimer(FALSE, 0, refreshRate, queued - 1)
  /\ menusAsked' = RefreshAllowed
  /\ UNCHANGED <<env, refreshRate, display>>

\* [self refresh]: queue one more `_refresh` selector.
Enqueue == queued < MaxQueued /\ queued' = queued + 1

\* refreshTimer fires once, which invalidates it, and calls refresh.
TimerFires ==
  /\ timerLive /\ timerLeft = 0
  /\ Enqueue
  /\ timerLive' = FALSE
  /\ UNCHANGED <<env, refreshRate, sinceRefresh, timerLeft, menusAsked, display>>

\* The user clicks a rate in the submenu.
ChangeRefreshRate(rate) ==
  /\ queued < MaxQueued
  /\ refreshRate' = rate
  /\ AddTimer(timerLive, sinceRefresh, rate, queued)
  /\ UNCHANGED <<env, sinceRefresh, menusAsked, display>>

\* The Refresh item: overrides whatever the notifications said.
ForceRefresh ==
  /\ Enqueue
  /\ screenAsleep' = FALSE /\ userDeactive' = FALSE
  /\ UNCHANGED <<blinkHere, refreshRate, sinceRefresh, timerLive, timerLeft,
                 menusAsked, display>>

\* kReachabilityChangedNotification calls refresh.
ReachabilityChanged ==
  /\ Enqueue
  /\ UNCHANGED <<env, refreshRate, sinceRefresh, timerLive, timerLeft,
                 menusAsked, display>>
-----------------------------------------------------------------------------
\* Workspace notifications.
DidWake ==
  /\ Enqueue
  /\ screenAsleep' = FALSE
  /\ UNCHANGED <<userDeactive, blinkHere, refreshRate, sinceRefresh, timerLive,
                 timerLeft, menusAsked, display>>

DidSleep ==          \* didScreenSleep and didSleep
  /\ screenAsleep' = TRUE
  /\ UNCHANGED <<userDeactive, blinkHere, schedule, display>>

UserActiveNoRefresh ==
  /\ userDeactive' = FALSE /\ screenAsleep' = FALSE
  /\ UNCHANGED <<blinkHere, schedule, display>>

DidUserActive ==     \* falls through to didWake
  /\ Enqueue
  /\ userDeactive' = FALSE /\ screenAsleep' = FALSE
  /\ UNCHANGED <<blinkHere, refreshRate, sinceRefresh, timerLive, timerLeft,
                 menusAsked, display>>

DidUserDeactive ==
  /\ userDeactive' = TRUE
  /\ UNCHANGED <<screenAsleep, blinkHere, schedule, display>>

\* enumerate after a USB notification.
BlinkPlugged(here) ==
  /\ blinkHere' = here
  /\ UNCHANGED <<screenAsleep, userDeactive, schedule, display>>
-----------------------------------------------------------------------------
SecondsShownFromTimer == WholeSeconds(timerLeft) + 1
\* updateRefresher: what the menu says until the next refresh.
SecondsShown == Minute * refreshRate - WholeSeconds(sinceRefresh)

MenuWillOpen ==
  /\ ~menuOpen
  /\ menuOpen' = TRUE /\ shown' = SecondsShown
  /\ UNCHANGED <<env, schedule>>

UpdateTimerFires ==
  /\ menuOpen
  /\ shown' = SecondsShown
  /\ UNCHANGED <<env, schedule, menuOpen>>

MenuDidClose ==
  /\ menuOpen
  /\ menuOpen' = FALSE
  /\ UNCHANGED <<env, schedule, shown>>

\* Half a second passes; a run loop that is busy or asleep fires timers late.
Tick ==
  /\ sinceRefresh' = IF sinceRefresh < Horizon THEN sinceRefresh + 1 ELSE Horizon
  /\ timerLeft' = IF timerLive /\ timerLeft > 0 THEN timerLeft - 1 ELSE timerLeft
  /\ UNCHANGED <<env, refreshRate, timerLive, queued, menusAsked, display>>
-----------------------------------------------------------------------------
\* State left by applicationWillFinishLaunching: lastRefresh is 0, which lies
\* years back, and the first refresh is queued.
Init ==
  /\ screenAsleep = FALSE /\ userDeactive = FALSE
  /\ blinkHere \in BOOLEAN
  /\ refreshRate \in Rates
  /\ sinceRefresh = Horizon
  /\ timerLive = FALSE /\ timerLeft = 0
  /\ queued = 1
  /\ menusAsked = FALSE
  /\ menuOpen = FALSE
  /\ shown = 0

UserInput ==
  \/ \E rate \in Rates : ChangeRefreshRate(rate)
  \/ ForceRefresh
  \/ MenuWillOpen
  \/ MenuDidClose

Notified ==
  \/ ReachabilityChanged
  \/ DidWake
  \/ DidSleep
  \/ DidUserActive
  \/ DidUserDeactive
  \/ \E here \in BOOLEAN : BlinkPlugged(here)

Next ==
  \/ RunRefresh
  \/ TimerFires
  \/ UpdateTimerFires
  \/ UserInput
  \/ Notified
  \/ Tick

Spec == Init /\ [][Next]_vars

\* The clock runs, and the main run loop gets to a due timer and to a queued
\* selector; users and notifications owe nothing.
FairSpec == Spec /\ WF_vars(Tick) /\ WF_vars(TimerFires) /\ WF_vars(RunRefresh)
-----------------------------------------------------------------------------
\* The schedule never dies: at every moment a live timer or a queued selector
\* will bring the next _refresh, also after one that returned early because
\* nobody was looking (addTimer comes before that return).
RefreshArmed == timerLive \/ queued > 0

\* While nothing is queued the timer stands where rate and lastRefresh put it,
\* less than a second late, whatever the user did to the rate in between.
TimerOnSchedule ==
  timerLive /\ queued = 0 =>
    \/ timerLeft > 0 /\ sinceRefresh + timerLeft - Period(refreshRate) \in 0..1
    \/ timerLeft = 0 /\ sinceRefresh >= Period(refreshRate)

\* A refresh that was skipped because the screen slept or the session was
\* switched out is queued again by the time both are back: no wake path may
\* clear a flag without calling refresh.
SkippedIsRequeued ==
  ~menusAsked /\ ~screenAsleep /\ ~userDeactive => queued > 0

\* Whenever the menu updates its countdown while the timer is running, the
\* seconds it shows are within half a second of what the timer has left: the
\* countdown and the timer round the same lastRefresh at different times.
CountdownHonest ==
  [][shown' # shown /\ queued = 0 /\ timerLeft > 0
       => TicksPerSecond * shown' - timerLeft \in -1..1]_vars

\* Refreshing goes on for ever: no sequence of rate changes, sleeps and
\* notifications postpones the next _refresh indefinitely.
KeepsRefreshing == []<><<RunRefresh>>_vars
=============================================================================
