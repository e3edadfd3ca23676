------------------------------ MODULE SvrMnuApp ------------------------------
(***************************************************************************)
(* The main thread of the program: the refresh schedule (RefreshCycle) and *)
(* the server menus (ServerMenus), which meet in _refresh and on the one   *)
(* run loop.  A rebuild that waits for the port mapper runs that loop too, *)
(* so timers, selectors and notifications of the schedule are served in    *)
(* there; clicks are not.  Between the rebuilds of setPrimaryMnu, and when *)
(* the innermost wait has its answer, nothing is served but the clock.     *)
(* The countdown in the open menu only reads the schedule and is left to   *)
(* RefreshCycle: here the menu stays shut.                                 *)
(***************************************************************************)
EXTENDS Integers, Sequences

CONSTANTS Rates, Minute, Horizon, MaxQueued,                    \* RefreshCycle
          Order, Replies, Ips, Installed, Nil, Waiting, MaxRequests  \* ServerMenus

VARIABLES screenAsleep, userDeactive, blinkHere, refreshRate, sinceRefresh,
          timerLive, timerLeft, queued, menusAsked, menuOpen, shown

VARIABLES primaryMnu, savedPrimary, statusTitle, gameInfo, requests, performs,
          stack, choosing, toMake, numPlayers, value, title, rows, overlapped

Cycle == INSTANCE RefreshCycle
Menus == INSTANCE ServerMenus

cycleVars == <<screenAsleep, userDeactive, blinkHere, refreshRate, sinceRefresh,
               timerLive, timerLeft, queued, menusAsked, menuOpen, shown>>
menuVars == <<primaryMnu, savedPrimary, statusTitle, gameInfo, requests, performs,
              stack, choosing, toMake, numPlayers, value, title, rows, overlapped>>
vars == <<cycleVars, menuVars>>

\* Clicks need the base of the run loop.
AtBase == stack = <<>> /\ ~choosing
-----------------------------------------------------------------------------
\* A selector served inside a wait is dropped, to be asked for by nobody.
RunRefreshAtBase ==
  /\ Menus!Dispatching
  /\ IF stack = <<>> THEN Cycle!RunRefresh
     ELSE /\ queued > 0 /\ queued' = queued - 1
          /\ UNCHANGED <<screenAsleep, userDeactive, blinkHere, refreshRate, sinceRefresh,
                         timerLive, timerLeft, menusAsked, menuOpen, shown>>
  /\ IF stack = <<>> /\ Cycle!RefreshAllowed THEN Menus!RefreshAll ELSE UNCHANGED menuVars
RunRefreshAlways ==
  Menus!Dispatching /\ Cycle!RunRefresh /\ Menus!RefreshAll

\* _refresh: the schedule, and unless nobody is looking a request of each menu.
RunRefresh ==
  /\ Menus!Dispatching
  /\ Cycle!RunRefresh
  /\ IF Cycle!RefreshAllowed THEN Menus!RefreshAll ELSE UNCHANGED menuVars

TimerFires == Menus!Dispatching /\ Cycle!TimerFires /\ UNCHANGED menuVars

Notified == Menus!Dispatching /\ Cycle!Notified /\ UNCHANGED menuVars

UserInput ==
  /\ AtBase
  /\ Cycle!ForceRefresh \/ \E rate \in Rates : Cycle!ChangeRefreshRate(rate)
  /\ UNCHANGED menuVars

Tick == Cycle!Tick /\ UNCHANGED menuVars

Response(m) == Menus!Response(m) /\ UNCHANGED cycleVars
RunPerform == Menus!RunPerform /\ UNCHANGED cycleVars
Answer(i) == Menus!Answer(i) /\ UNCHANGED cycleVars
Withdraw(i) == Menus!Withdraw(i) /\ UNCHANGED cycleVars
Resume == Menus!Resume /\ UNCHANGED cycleVars

\* setPrimaryMnu, then its rebuilds and the save at its end.
SetPrimary(m) == Menus!SetPrimary(m) /\ UNCHANGED cycleVars
GoOnSetting == (Menus!MakeNext \/ Menus!SavePrimary) /\ UNCHANGED cycleVars
-----------------------------------------------------------------------------
Init == Cycle!Init /\ Menus!Init

Next ==
  \/ RunRefresh
  \/ TimerFires
  \/ Notified
  \/ UserInput
  \/ Tick
  \/ \E m \in Menus!Mnus : Response(m) \/ SetPrimary(m)
  \/ RunPerform
  \/ \E i \in DOMAIN stack : Answer(i) \/ Withdraw(i)
  \/ Resume
  \/ GoOnSetting

Spec == Init /\ [][Next]_vars

\* The clock runs, and the run loop serves what is ready again and again,
\* wherever it runs; the network and mDNSResponder answer (ServerMenus).  A timer
\* that fires is not replaced before the next _refresh, so that to be fair to
\* one of the two is to be fair to both.
FairSpec ==
  /\ Spec
  /\ WF_vars(Tick) /\ SF_vars(TimerFires \/ RunRefresh)
  /\ \A m \in Menus!Mnus : SF_vars(Response(m))
  /\ SF_vars(RunPerform)
  /\ SF_vars(stack # <<>> /\ Answer(Len(stack)))
  /\ WF_vars(Resume \/ GoOnSetting)
-----------------------------------------------------------------------------
\* The schedule is kept although the main thread waits inside rebuilds, serves
\* nothing while a wait is over or menus are rebuilt for a new primary, and
\* handles _refresh in the middle of another handler.
ScheduleKept == Cycle!FairSpec

\* While nobody looks, the network falls silent: from some point on no request
\* is under way, whatever was queued or waiting when the screen went dark.
QuietWhenNobodyLooks ==
  <>[]~Cycle!RefreshAllowed => <>[](\A m \in Menus!Mnus : requests[m] = 0)

\* A menu does not say "Refreshing..." for ever, even if its request fails and
\* even if its rebuild waits below others.
RefreshingEnds == Menus!RefreshingEnds
=============================================================================
