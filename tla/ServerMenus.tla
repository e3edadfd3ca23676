----------------------------- MODULE ServerMenus -----------------------------
(***************************************************************************)
(* The two server menus (SvrMnuWFHMenu, SvrMnuANUMenu), the status title   *)
(* that the primary one drives, and the choice of the primary.             *)
(*                                                                         *)
(* Everything runs on the main thread, but not one handler after another:  *)
(* makeMenus calls findPublicAddress, which runs the run loop until the    *)
(* port mapper answers.  In there the main thread dispatches responses,    *)
(* refreshes and other makeMenus, which may wait in turn.  `stack` holds   *)
(* the calls of makeMenus that wait, the innermost last; only the          *)
(* innermost can go on, and only it makes the run loop return.  Clicks are *)
(* not dispatched in there: runMode:beforeDate: takes no events.           *)
(***************************************************************************)
EXTENDS Integers, SequencesExt, Functions

CONSTANTS Order,        \* the array mnus: a sequence of menus
          Replies,      \* replies of the game server: [motd, games, servers]
          Ips,          \* public addresses the port mapper may report
          Installed,    \* the menus whose game is installed
          Nil,          \* nil: no gameInfo, no address
          Waiting,      \* the address of a call that still waits for it
          MaxRequests   \* bound on the refreshes of one menu under way

Mnus == Range(Order)

\* The players of all servers in a reply.
Players(info) == FoldSeq(LAMBDA s, n : s.players + n, 0, info.servers)

\* The game servers count games and players with natural numbers.
ASSUME MenusAssumption ==
  /\ Order \in Seq(Mnus) /\ Order # <<>>
  /\ Installed \subseteq Mnus
  /\ \A info \in Replies :
       /\ info.servers \in Seq(Range(info.servers))
       /\ info.games \in Nat /\ Players(info) \in Nat
  /\ Nil \notin Replies \cup Ips /\ Waiting \notin Ips \cup {Nil}
  /\ MaxRequests \in Nat \ {0}

VARIABLES primaryMnu,   \* the delegate's primaryMnu
          savedPrimary, \* the "primaryMnu" default
          statusTitle,  \* the status item: a number, or Dots
          gameInfo,     \* per menu: the last reply, or Nil
          requests,     \* per menu: asynchronous requests under way
          performs,     \* makeMenus selectors queued for the main thread
          stack,        \* makeMenus calls waiting in findPublicAddress
          choosing,     \* setPrimaryMnu is on the stack, below all of them
          toMake,       \* menus its loop has still to rebuild
          numPlayers,   \* per menu, as is `value`
          value,        \* players besides this one; -1: unreachable
          title,        \* per menu: active games, Unable or Refreshing
          rows,         \* per menu: how many items of each kind are in it
          overlapped    \* history: a rebuild began inside another of its menu

chosen == <<primaryMnu, savedPrimary, choosing, toMake>>
shown == <<statusTitle, numPlayers, value, title, rows>>
vars == <<chosen, shown, gameInfo, requests, performs, stack, overlapped>>

Dots == -1
Unable == -1
Refreshing == -2
NoRows == [motd |-> 0, servers |-> 0, launcher |-> 0, setter |-> 0, checked |-> 0]
Frame == [mnu : Mnus, ip : Ips \cup {Nil, Waiting}]

TypeOK ==
  /\ primaryMnu \in Mnus /\ savedPrimary \in Mnus
  /\ choosing \in BOOLEAN /\ toMake \in Seq(Mnus)
  /\ statusTitle \in Nat \cup {Dots}
  /\ gameInfo \in [Mnus -> Replies \cup {Nil}]
  /\ requests \in [Mnus -> 0..MaxRequests]
  /\ performs \in Seq(Mnus)
  /\ stack \in Seq(Frame)
  /\ numPlayers \in [Mnus -> Nat]
  /\ value \in [Mnus -> Nat \cup {-1}]
  /\ title \in [Mnus -> Nat \cup {Unable, Refreshing}]
  \* one NSMenuItem: adding it to a menu while it is in one raises
  /\ \A m \in Mnus : rows[m].launcher \in 0..1
  /\ overlapped \in [Mnus -> BOOLEAN]
-----------------------------------------------------------------------------
Rebuilding(m) == \E i \in DOMAIN stack : stack[i].mnu = m
Outstanding(m) ==
  requests[m] + Cardinality({i \in DOMAIN performs : performs[i] = m})
              + Cardinality({i \in DOMAIN stack : stack[i].mnu = m})

\* The main run loop looks for work: at its base, or inside the innermost
\* wait, which ends as soon as that call has its answer.
Dispatching ==
  IF stack = <<>> THEN ~choosing ELSE Last(stack).ip = Waiting

\* What a reply says.
Listed(ip, info) == \E i \in DOMAIN info.servers : info.servers[i].ip = ip
Games(info) == IF info = Nil THEN 0 ELSE info.games
Counted(info) == Games(info) > 0         \* makeMenus looks at its servers

\* setTitle:sender:, for a menu with `players` counted in numPlayers.
SetTitleAnySender(m, players) ==
  IF gameInfo[m] = Nil THEN Dots ELSE players
SetTitle(m, players) ==
  IF m # primaryMnu THEN statusTitle
  ELSE IF gameInfo[m] = Nil THEN Dots ELSE players

\* Take the launcher out of its menu, put it back if the game is installed.
AddLauncherAgain(m, row) ==
  [row EXCEPT !.launcher = IF m \in Installed THEN @ + 1 ELSE @]
AddLauncher(m, row) ==
  [row EXCEPT !.launcher = IF m \in Installed THEN 1 ELSE 0]

AddSetter(m, row) ==
  [row EXCEPT !.setter = @ + 1, !.checked = IF m = primaryMnu THEN @ + 1 ELSE @]

(***************************************************************************)
(* makeMenus from the address on.  `row` and `players` are what the menu   *)
(* and numPlayers hold by then: a nested rebuild has changed them, and may *)
(* have changed gameInfo too, which is read again here.  `known` tells     *)
(* whether gameInfo was there when the call began.                         *)
(***************************************************************************)
Finish(m, known, ip, row, players) ==
  LET info    == gameInfo[m]
      counted == known /\ Counted(info)
      servers == IF counted THEN Len(info.servers) ELSE 0
      total   == players + IF counted THEN Players(info) ELSE 0
      selfie  == counted /\ Listed(ip, info)
  IN  /\ numPlayers' = [numPlayers EXCEPT ![m] = total]
      /\ title' = [title EXCEPT ![m] = IF known THEN Games(info) ELSE Unable]
      /\ value' = [value EXCEPT ![m] =
                     IF info = Nil THEN -1 ELSE IF selfie THEN total - 1 ELSE total]
      /\ statusTitle' = SetTitle(m, total)
      /\ rows' = [rows EXCEPT ![m] =
           AddSetter(m, AddLauncher(m, [row EXCEPT !.servers = @ + servers]))]

\* makeMenus up to the address: empty the menu and the counts.  The call is
\* done at once if there is no reply or no port mapper, else it waits.
Begin(m, players) ==
  LET known == gameInfo[m] # Nil
      row   == [NoRows EXCEPT !.motd = IF known /\ gameInfo[m].motd THEN 1 ELSE 0]
  IN  /\ overlapped' = [overlapped EXCEPT ![m] = Rebuilding(m)]
      /\ \/ /\ Finish(m, known, Nil, row, players)
            /\ UNCHANGED stack
         \/ /\ known
            /\ stack' = Append(stack, [mnu |-> m, ip |-> Waiting])
            /\ rows' = [rows EXCEPT ![m] = row]
            /\ numPlayers' = [numPlayers EXCEPT ![m] = players]
            /\ UNCHANGED <<statusTitle, value, title>>

MakeMenusKeepsCount(m) == Begin(m, numPlayers[m])
MakeMenus(m) == Begin(m, 0)
-----------------------------------------------------------------------------
\* _refresh asks every menu: a request each, and the title says so.
RefreshAll ==
  /\ Dispatching
  /\ \A m \in Mnus : Outstanding(m) < MaxRequests
  /\ title' = [m \in Mnus |-> Refreshing]
  /\ requests' = [m \in Mnus |-> requests[m] + 1]
  /\ UNCHANGED <<chosen, statusTitle, numPlayers, value, rows, gameInfo,
                 performs, stack, overlapped>>

\* Slips: a reply is left to the rebuild under way, or a failure to nobody.
ResponseTrustsRebuild(m) ==
  /\ Dispatching
  /\ requests[m] > 0
  /\ requests' = [requests EXCEPT ![m] = @ - 1]
  /\ \E info \in Replies \cup {Nil} : gameInfo' = [gameInfo EXCEPT ![m] = info]
  /\ performs' = IF Rebuilding(m) THEN performs ELSE Append(performs, m)
  /\ UNCHANGED <<chosen, shown, stack, overlapped>>
ResponseOnlyIfReply(m) ==
  /\ Dispatching
  /\ requests[m] > 0
  /\ requests' = [requests EXCEPT ![m] = @ - 1]
  /\ \E info \in Replies \cup {Nil} :
       /\ gameInfo' = [gameInfo EXCEPT ![m] = info]
       /\ performs' = IF info = Nil THEN performs ELSE Append(performs, m)
  /\ UNCHANGED <<chosen, shown, stack, overlapped>>

\* The completion handler: a reply, or an error of the connection or of the
\* JSON parser; either way makeMenus is queued.
Response(m) ==
  /\ Dispatching
  /\ requests[m] > 0
  /\ requests' = [requests EXCEPT ![m] = @ - 1]
  /\ \E info \in Replies \cup {Nil} : gameInfo' = [gameInfo EXCEPT ![m] = info]
  /\ performs' = Append(performs, m)
  /\ UNCHANGED <<chosen, shown, stack, overlapped>>

\* The main thread takes the next queued makeMenus.
RunPerform ==
  /\ Dispatching
  /\ performs # <<>>
  /\ performs' = Tail(performs)
  /\ MakeMenus(Head(performs))
  /\ UNCHANGED <<chosen, gameInfo, requests>>

\* The port mapper of any waiting call answers with an address or an error.
Answer(i) ==
  /\ Dispatching
  /\ \E ip \in Ips \cup {Nil} : stack' = [stack EXCEPT ![i].ip = ip]
  /\ UNCHANGED <<chosen, shown, gameInfo, requests, performs, overlapped>>

\* The network changes: an outer call's address is gone before it was read.
Withdraw(i) ==
  /\ Dispatching
  /\ stack' = [stack EXCEPT ![i].ip = Waiting]
  /\ UNCHANGED <<chosen, shown, gameInfo, requests, performs, overlapped>>

\* The innermost call has its answer and goes on.
GoOn(f) ==
  /\ f.ip # Waiting
  /\ Finish(f.mnu, TRUE, f.ip, rows[f.mnu], numPlayers[f.mnu])
  /\ UNCHANGED <<chosen, gameInfo, requests, performs, overlapped>>

Resume == stack # <<>> /\ GoOn(Last(stack)) /\ stack' = Front(stack)
-----------------------------------------------------------------------------
\* setPrimaryMnu, on a click: setupMenu resets the status title, then every
\* menu is rebuilt in turn, then the choice is saved.
SetPrimaryRebuildsIt(m) ==
  /\ stack = <<>> /\ ~choosing
  /\ primaryMnu' = m /\ statusTitle' = Dots
  /\ choosing' = TRUE /\ toMake' = <<m>>
  /\ UNCHANGED <<savedPrimary, numPlayers, value, title, rows, gameInfo,
                 requests, performs, stack, overlapped>>
SetPrimary(m) ==
  /\ stack = <<>> /\ ~choosing
  /\ primaryMnu' = m /\ statusTitle' = Dots
  /\ choosing' = TRUE /\ toMake' = Order
  /\ UNCHANGED <<savedPrimary, numPlayers, value, title, rows, gameInfo,
                 requests, performs, stack, overlapped>>

MakeNext ==
  /\ choosing /\ stack = <<>> /\ toMake # <<>>
  /\ toMake' = Tail(toMake)
  /\ MakeMenus(Head(toMake))
  /\ UNCHANGED <<primaryMnu, savedPrimary, choosing, gameInfo, requests, performs>>

SavePrimary ==
  /\ choosing /\ stack = <<>> /\ toMake = <<>>
  /\ choosing' = FALSE
  /\ savedPrimary' = primaryMnu
  /\ UNCHANGED <<primaryMnu, toMake, shown, gameInfo, requests, performs,
                 stack, overlapped>>
-----------------------------------------------------------------------------
\* After launch: each init built its menu without a reply and without a
\* delegate, and the saved primary was read, or the first menu taken.
Init ==
  /\ primaryMnu \in Mnus /\ savedPrimary = primaryMnu
  /\ choosing = FALSE /\ toMake = <<>>
  /\ statusTitle = Dots
  /\ gameInfo = [m \in Mnus |-> Nil]
  /\ requests = [m \in Mnus |-> 0]
  /\ performs = <<>> /\ stack = <<>>
  /\ numPlayers = [m \in Mnus |-> 0]
  /\ value = [m \in Mnus |-> -1]
  /\ title = [m \in Mnus |-> Unable]
  /\ rows = [m \in Mnus |-> AddLauncher(m, [NoRows EXCEPT !.setter = 1])]
  /\ overlapped = [m \in Mnus |-> FALSE]

Next ==
  \/ RefreshAll
  \/ \E m \in Mnus : Response(m) \/ SetPrimary(m)
  \/ RunPerform
  \/ \E i \in DOMAIN stack : Answer(i) \/ Withdraw(i)
  \/ Resume
  \/ MakeNext
  \/ SavePrimary

Spec == Init /\ [][Next]_vars

\* A request ends (NSURLConnection has a timeout), mDNSResponder answers every
\* query, and a pass of the run loop serves every source that is signalled, so
\* what is ready again and again is not passed over for ever.
FairSpec ==
  /\ Spec
  /\ \A m \in Mnus : SF_vars(Response(m))
  /\ SF_vars(RunPerform)
  /\ SF_vars(stack # <<>> /\ Answer(Len(stack)))
  /\ WF_vars(Resume \/ MakeNext \/ SavePrimary)
-----------------------------------------------------------------------------
\* No makeMenus of m runs or is queued, and setPrimaryMnu is not about to.
Settled(m) ==
  ~Rebuilding(m) /\ ~Contains(performs, m) /\ ~Contains(toMake, m)

\* Once the primary menu has settled, the status title is its: the dots if the
\* last request failed, else the number it counted, although the other menu's
\* rebuilds end with a setTitle too and either may end inside the other.
StatusTitleCurrent ==
  Settled(primaryMnu) =>
    statusTitle = IF gameInfo[primaryMnu] = Nil THEN Dots ELSE numPlayers[primaryMnu]

\* What menu m shows is what its last reply says.
ShowsReply(m) ==
  LET info == gameInfo[m] IN
    /\ numPlayers[m] = IF info # Nil /\ Counted(info) THEN Players(info) ELSE 0
    /\ value[m] \in IF info = Nil THEN {-1} ELSE {numPlayers[m], numPlayers[m] - 1}
    /\ rows[m].servers = IF info # Nil /\ Counted(info) THEN Len(info.servers) ELSE 0
    /\ rows[m].motd = IF info # Nil /\ info.motd THEN 1 ELSE 0
    /\ rows[m].setter = 1

\* A menu whose last rebuild was not inside another one of its own shows its
\* last reply: one row per server, players and value right, one message, one
\* setter, although the reply may have been replaced while the rebuild waited.
RebuildExact ==
  \A m \in Mnus : Settled(m) /\ ~overlapped[m] => ShowsReply(m)

\* A settled menu whose refreshes have all been answered has left "Refreshing..."
\* behind, whether they failed and however rebuilds nested; and unless its last
\* rebuild was inside another one of its own, its title says what its last reply
\* says, although _refresh overwrites the title at any time, during waits too.
TitleSettles ==
  \A m \in Mnus : Settled(m) /\ requests[m] = 0 =>
    /\ title[m] # Refreshing
    /\ ~overlapped[m] =>
         title[m] = IF gameInfo[m] = Nil THEN Unable ELSE Games(gameInfo[m])

\* Outside setPrimaryMnu at most the primary menu is checked as the primary,
\* also when rebuilds queued for the old primary are still to come.
OnlyPrimaryChecked ==
  ~choosing => \A m \in Mnus \ {primaryMnu} : rows[m].checked = 0

\* A menu does not say "Refreshing..." for ever, even if its request fails and
\* even if its rebuild waits below others.
RefreshingEnds ==
  \A m \in Mnus : []<>(title[m] # Refreshing)
=============================================================================
