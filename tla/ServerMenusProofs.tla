-------------------------- MODULE ServerMenusProofs --------------------------
(***************************************************************************)
(* What interleaved rebuilds of the server menus threaten, for any menus,  *)
(* replies, addresses and depth of nesting: which menu is checked as the   *)
(* primary, what the status title says, what a menu shows and its title.   *)
(*                                                                         *)
(* The first two hold because of who is still to come: a menu that is      *)
(* checked and not the primary is one setPrimaryMnu has still to rebuild,  *)
(* and a title that is not the primary menu's is one of its rebuilds will  *)
(* set.  How players are counted does not matter for them.  The third      *)
(* holds because a rebuild that nobody rebuilds inside of finds its menu   *)
(* as bare as it left it, and a reply that came meanwhile has queued the   *)
(* next rebuild.  The fourth is like the second: a wrong title is one that  *)
(* a request, a queued rebuild or a waiting one is still to set.           *)
(***************************************************************************)
EXTENDS ServerMenus, FiniteSetTheorems, StackLemmas

Row == [motd : Nat, servers : Nat, launcher : Nat, setter : Nat, checked : Nat]

Typed ==
  /\ primaryMnu \in Mnus
  /\ toMake \in Seq(Mnus) /\ performs \in Seq(Mnus)
  /\ stack \in Seq(Frame)
  /\ gameInfo \in [Mnus -> Replies \cup {Nil}]
  /\ rows \in [Mnus -> Row]
  /\ numPlayers = [m \in Mnus |-> numPlayers[m]]

\* Whoever is checked wrongly is rebuilt before setPrimaryMnu ends.
MarksInv ==
  /\ ~choosing => toMake = <<>>
  /\ \A m \in Mnus \ {primaryMnu} : rows[m].checked = 0 \/ Contains(toMake, m)

MenusInv == Typed /\ MarksInv /\ StatusTitleCurrent
-----------------------------------------------------------------------------
(***************************************************************************)
(* What makeMenus does.                                                    *)
(***************************************************************************)
LEMMA ServersCounted ==
  ASSUME Typed, NEW m \in Mnus, gameInfo[m] # Nil
  PROVE  Len(gameInfo[m].servers) \in Nat
<1>1. gameInfo[m] \in Replies
  BY DEF Typed
<1> QED BY <1>1, MenusAssumption, LenProperties

\* The rest of makeMenus touches its own menu only, checks it only if it is
\* the primary, and sets the status title only then.
LEMMA FinishDoes ==
  ASSUME Typed, NEW m \in Mnus, NEW known \in BOOLEAN, NEW ip, NEW row \in Row,
         NEW players, Finish(m, known, ip, row, players)
  PROVE  /\ rows' \in [Mnus -> Row]
         /\ numPlayers' = [n \in Mnus |-> numPlayers'[n]]
         /\ \A n \in Mnus \ {m} :
              rows'[n] = rows[n] /\ numPlayers'[n] = numPlayers[n]
         /\ m # primaryMnu =>
              rows'[m].checked = row.checked /\ statusTitle' = statusTitle
         /\ m = primaryMnu =>
              statusTitle' = IF gameInfo[m] = Nil THEN Dots ELSE numPlayers'[m]
<1> DEFINE counted == known /\ Counted(gameInfo[m])
           servers == IF counted THEN Len(gameInfo[m].servers) ELSE 0
           total == players + IF counted THEN Players(gameInfo[m]) ELSE 0
           full == [row EXCEPT !.servers = @ + servers]
<1>1. /\ numPlayers' = [numPlayers EXCEPT ![m] = total]
      /\ statusTitle' = SetTitle(m, total)
      /\ rows' = [rows EXCEPT ![m] = AddSetter(m, AddLauncher(m, full))]
  BY DEF Finish
<1>2. servers \in Nat
  <2>1. counted => gameInfo[m] # Nil
    BY DEF Counted, Games
  <2> QED BY <2>1, ServersCounted
<1> HIDE DEF servers, total
<1>3. full \in Row /\ full.checked = row.checked
  BY <1>2 DEF Row
<1> HIDE DEF full
<1>4. /\ AddLauncher(m, full) \in Row
      /\ AddLauncher(m, full).checked = row.checked
  BY <1>3 DEF Row, AddLauncher
<1>5. /\ AddSetter(m, AddLauncher(m, full)) \in Row
      /\ m # primaryMnu => AddSetter(m, AddLauncher(m, full)).checked = row.checked
  <2> DEFINE launched == AddLauncher(m, full)
             set == [launched EXCEPT !.setter = @ + 1]
  <2>1. launched \in Row /\ launched.checked = row.checked
    BY <1>4
  <2> HIDE DEF launched
  <2>2. set \in Row /\ set.checked = row.checked
    BY <2>1 DEF Row
  <2>3. CASE m = primaryMnu
    <3>1. AddSetter(m, launched) = [set EXCEPT !.checked = @ + 1]
      BY <2>1, <2>3 DEF AddSetter, Row
    <3> HIDE DEF set
    <3> QED BY <2>2, <2>3, <3>1 DEF Row, launched
  <2>4. CASE m # primaryMnu
    <3>1. AddSetter(m, launched) = set
      BY <2>1, <2>4 DEF AddSetter, Row
    <3> HIDE DEF set
    <3> QED BY <2>2, <2>4, <3>1 DEF launched
  <2> QED BY <2>3, <2>4
<1>6. /\ numPlayers' = [n \in Mnus |-> numPlayers'[n]] /\ numPlayers'[m] = total
      /\ \A n \in Mnus \ {m} : numPlayers'[n] = numPlayers[n]
  BY <1>1 DEF Typed
<1>7. /\ rows' \in [Mnus -> Row]
      /\ rows'[m] = AddSetter(m, AddLauncher(m, full))
      /\ \A n \in Mnus \ {m} : rows'[n] = rows[n]
  BY <1>1, <1>5 DEF Typed
<1> QED BY <1>1, <1>5, <1>6, <1>7 DEF SetTitle

\* makeMenus empties its menu; then it is done, or it waits on the stack.
LEMMA BeginDoes ==
  ASSUME Typed, NEW m \in Mnus, NEW players, Begin(m, players)
  PROVE  /\ rows' \in [Mnus -> Row]
         /\ numPlayers' = [n \in Mnus |-> numPlayers'[n]]
         /\ stack' \in Seq(Frame)
         /\ \A n \in Mnus \ {m} :
              /\ rows'[n] = rows[n] /\ numPlayers'[n] = numPlayers[n]
              /\ Rebuilding(n) => Rebuilding(n)'
         /\ m # primaryMnu => rows'[m].checked = 0 /\ statusTitle' = statusTitle
         /\ m = primaryMnu =>
              \/ Rebuilding(m)'
              \/ statusTitle' = IF gameInfo[m] = Nil THEN Dots ELSE numPlayers'[m]
<1> DEFINE known == gameInfo[m] # Nil
           row == [NoRows EXCEPT !.motd = IF known /\ gameInfo[m].motd THEN 1 ELSE 0]
<1>1. row \in Row /\ row.checked = 0 /\ known \in BOOLEAN
  BY DEF NoRows, Row
<1>2. CASE Finish(m, known, Nil, row, players) /\ UNCHANGED stack
  <2> HIDE DEF known, row
  <2>1. Rebuilding(m)' <=> Rebuilding(m)
    BY <1>2 DEF Rebuilding
  <2>2. \A n \in Mnus \ {m} : Rebuilding(n)' <=> Rebuilding(n)
    BY <1>2 DEF Rebuilding
  <2> QED BY <1>1, <1>2, <2>2, FinishDoes DEF Typed
<1>3. CASE /\ stack' = Append(stack, [mnu |-> m, ip |-> Waiting])
           /\ rows' = [rows EXCEPT ![m] = row]
           /\ numPlayers' = [numPlayers EXCEPT ![m] = players]
           /\ UNCHANGED <<statusTitle, value, title>>
  <2> HIDE DEF row
  <2> DEFINE frame == [mnu |-> m, ip |-> Waiting]
  <2>1. frame \in Frame /\ frame.mnu = m
    BY DEF Frame
  <2> HIDE DEF frame
  <2>2. /\ stack' \in Seq(Frame) /\ Len(stack') = Len(stack) + 1
        /\ Len(stack) \in Nat /\ DOMAIN stack = 1..Len(stack)
        /\ DOMAIN stack' = 1..Len(stack')
        /\ stack'[Len(stack) + 1] = frame
        /\ \A i \in 1..Len(stack) : stack'[i] = stack[i]
    BY <1>3, <2>1, AppendProperties, LenProperties DEF Typed, frame
  <2>3. Rebuilding(m)'
    BY <2>1, <2>2 DEF Rebuilding
  <2>4. \A n \in Mnus : Rebuilding(n) => Rebuilding(n)'
    BY <2>2 DEF Rebuilding
  <2> QED BY <1>1, <1>3, <2>2, <2>3, <2>4 DEF Typed
<1> QED BY <1>2, <1>3 DEF Begin
-----------------------------------------------------------------------------
(***************************************************************************)
(* The invariant.                                                          *)
(***************************************************************************)
LEMMA MenusInit == Init => MenusInv
<1> SUFFICES ASSUME Init PROVE MenusInv
  OBVIOUS
<1>1. Typed
  <2>1. \A m \in Mnus : AddLauncher(m, [NoRows EXCEPT !.setter = 1]) \in Row
    BY DEF AddLauncher, NoRows, Row
  <2> HIDE DEF Row
  <2>2. toMake = <<>> /\ performs = <<>> /\ stack = <<>>
    BY DEF Init
  <2>3. toMake \in Seq(Mnus) /\ performs \in Seq(Mnus) /\ stack \in Seq(Frame)
    BY <2>2, EmptySeq
  <2> QED BY <2>1, <2>3 DEF Init, Typed
<1>2. MarksInv
  <2>1. \A m \in Mnus : AddLauncher(m, [NoRows EXCEPT !.setter = 1]).checked = 0
    BY DEF AddLauncher, NoRows
  <2> QED BY <2>1 DEF Init, MarksInv
<1>3. StatusTitleCurrent
  BY <1>1 DEF Init, StatusTitleCurrent, Typed
<1> QED BY <1>1, <1>2, <1>3 DEF MenusInv

\* Every menu is in the array, so setPrimaryMnu rebuilds all of them.
LEMMA AllInOrder == \A m \in Mnus : Contains(Order, m)
<1>1. DOMAIN Order = 1..Len(Order)
  BY MenusAssumption, LenProperties
<1> QED BY <1>1 DEF Mnus, Range, Contains

\* A queue's head is rebuilt: what held of all that were queued holds of the
\* rest, and of the head because of the rebuild.
LEMMA RebuildHead ==
  ASSUME MenusInv, NEW q \in Seq(Mnus), q # <<>>, NEW players,
         Begin(Head(q), players),
         UNCHANGED <<primaryMnu, choosing, gameInfo>>,
         \/ q = toMake /\ toMake' = Tail(q) /\ performs' = performs /\ choosing
         \/ q = performs /\ performs' = Tail(q) /\ toMake' = toMake
  PROVE  MenusInv'
<1> DEFINE m == Head(q)
<1>1. /\ m \in Mnus /\ Tail(q) \in Seq(Mnus)
      /\ \A n : Contains(q, n) <=> n = m \/ Contains(Tail(q), n)
  BY HeadOrTail
<1>2. Typed /\ Begin(m, players)
  BY DEF MenusInv
<1> HIDE DEF m
<1>3. /\ rows' \in [Mnus -> Row]
      /\ numPlayers' = [n \in Mnus |-> numPlayers'[n]]
      /\ stack' \in Seq(Frame)
      /\ \A n \in Mnus \ {m} :
           /\ rows'[n] = rows[n] /\ numPlayers'[n] = numPlayers[n]
           /\ Rebuilding(n) => Rebuilding(n)'
      /\ m # primaryMnu => rows'[m].checked = 0 /\ statusTitle' = statusTitle
      /\ m = primaryMnu =>
           \/ Rebuilding(m)'
           \/ statusTitle' = IF gameInfo[m] = Nil THEN Dots ELSE numPlayers'[m]
  BY <1>1, <1>2, BeginDoes
<1>4. toMake' \in Seq(Mnus) /\ performs' \in Seq(Mnus)
  BY <1>1, <1>2 DEF Typed
<1>5. Typed'
  BY <1>2, <1>3, <1>4 DEF Typed
<1>6. \A n \in Mnus \ {m} : /\ Contains(toMake, n) <=> Contains(toMake', n)
                            /\ Contains(performs, n) <=> Contains(performs', n)
  BY <1>1
<1>7. MarksInv'
  <2>1. ~choosing' => toMake' = <<>>
    BY DEF MenusInv, MarksInv
  <2>2. ASSUME NEW n \in Mnus \ {primaryMnu}
        PROVE  rows'[n].checked = 0 \/ Contains(toMake', n)
    <3>1. CASE n = m
      BY <1>3, <2>2, <3>1
    <3>2. CASE n # m
      <4>1. rows[n].checked = 0 \/ Contains(toMake, n)
        BY <2>2 DEF MenusInv, MarksInv
      <4> QED BY <1>3, <1>6, <2>2, <3>2, <4>1
    <3> QED BY <3>1, <3>2
  <2> QED BY <2>1, <2>2 DEF MarksInv
<1>8. StatusTitleCurrent'
  <2>1. CASE m = primaryMnu
    BY <1>3, <2>1 DEF StatusTitleCurrent, Settled
  <2>2. CASE m # primaryMnu
    <3>1. primaryMnu \in Mnus \ {m} /\ gameInfo' = gameInfo /\ primaryMnu' = primaryMnu
      BY <1>2, <2>2 DEF Typed
    <3>2. Settled(primaryMnu)' => Settled(primaryMnu)
      BY <1>3, <1>6, <3>1 DEF Settled
    <3>3. numPlayers'[primaryMnu] = numPlayers[primaryMnu] /\ statusTitle' = statusTitle
      BY <1>3, <2>2, <3>1
    <3> QED BY <3>1, <3>2, <3>3 DEF MenusInv, StatusTitleCurrent
  <2> QED BY <2>1, <2>2
<1> QED BY <1>5, <1>7, <1>8 DEF MenusInv

\* The innermost call goes on; the calls around it stay.
LEMMA ResumeKeeps ==
  ASSUME MenusInv, Resume
  PROVE  MenusInv'
<1> DEFINE f == Last(stack)
<1>1. Typed /\ stack # <<>> /\ stack \in Seq(Frame) /\ stack' = Front(stack)
  BY DEF Resume, MenusInv, Typed
<1>2. /\ f \in Frame /\ f = stack[Len(stack)] /\ Len(stack) \in Nat \ {0}
      /\ DOMAIN stack = 1..Len(stack) /\ stack' \in Seq(Frame)
      /\ DOMAIN stack' = 1..(Len(stack) - 1)
      /\ \A i \in 1..(Len(stack) - 1) : stack'[i] = stack[i]
  BY <1>1, FrontAndLast
<1>3. /\ f.mnu \in Mnus
      /\ Finish(f.mnu, TRUE, f.ip, rows[f.mnu], numPlayers[f.mnu])
      /\ UNCHANGED <<chosen, gameInfo, performs>>
  BY <1>2 DEF Resume, GoOn, Frame
<1> DEFINE m == f.mnu
<1>4. \A n \in Mnus \ {m} : Rebuilding(n) => Rebuilding(n)'
  <2> SUFFICES ASSUME NEW n \in Mnus \ {m}, NEW i \in DOMAIN stack, stack[i].mnu = n
               PROVE  Rebuilding(n)'
    BY DEF Rebuilding
  <2>1. i # Len(stack)
    BY <1>2
  <2>2. i \in DOMAIN stack' /\ stack'[i] = stack[i]
    BY <1>2, <2>1
  <2> QED BY <2>2 DEF Rebuilding
<1>5. m \in Mnus /\ rows[m] \in Row
  BY <1>1, <1>3 DEF Typed
<1> HIDE DEF f
<1>6. /\ rows' \in [Mnus -> Row]
      /\ numPlayers' = [n \in Mnus |-> numPlayers'[n]]
      /\ \A n \in Mnus \ {m} :
           rows'[n] = rows[n] /\ numPlayers'[n] = numPlayers[n]
      /\ m # primaryMnu =>
           rows'[m].checked = rows[m].checked /\ statusTitle' = statusTitle
      /\ m = primaryMnu =>
           statusTitle' = IF gameInfo[m] = Nil THEN Dots ELSE numPlayers'[m]
  BY <1>1, <1>3, <1>5, FinishDoes
<1> HIDE DEF m
<1>7. Typed'
  BY <1>1, <1>2, <1>3, <1>6 DEF Typed, chosen
<1>8. MarksInv'
  BY <1>3, <1>5, <1>6 DEF MenusInv, MarksInv, chosen
<1>9. StatusTitleCurrent'
  <2>1. CASE m = primaryMnu
    BY <1>3, <1>6, <2>1 DEF StatusTitleCurrent, chosen
  <2>2. CASE m # primaryMnu
    <3>1. primaryMnu \in Mnus \ {m}
      BY <1>1, <2>2 DEF Typed
    <3>2. Settled(primaryMnu)' => Settled(primaryMnu)
      BY <1>3, <1>4, <3>1 DEF Settled, chosen
    <3> QED BY <1>3, <1>6, <2>2, <3>1, <3>2 DEF MenusInv, StatusTitleCurrent, chosen
  <2> QED BY <2>1, <2>2
<1> QED BY <1>7, <1>8, <1>9 DEF MenusInv

\* A word comes for a waiting call, or goes: the same calls wait.
LEMMA WordKeeps ==
  ASSUME MenusInv, NEW i \in DOMAIN stack, NEW ip \in Ips \cup {Nil, Waiting},
         stack' = [stack EXCEPT ![i].ip = ip],
         UNCHANGED <<chosen, shown, gameInfo, performs>>
  PROVE  MenusInv'
<1>1. stack \in Seq(Frame) /\ DOMAIN stack = 1..Len(stack) /\ stack[i] \in Frame
  <2>1. stack \in Seq(Frame) /\ DOMAIN stack = 1..Len(stack)
    BY LenProperties DEF MenusInv, Typed
  <2> QED BY <2>1, ElementOfSeq
<1>2. [stack[i] EXCEPT !.ip = ip] \in Frame /\ [stack[i] EXCEPT !.ip = ip].mnu = stack[i].mnu
  BY <1>1 DEF Frame
<1>3. stack' = [stack EXCEPT ![i] = [stack[i] EXCEPT !.ip = ip]]
  OBVIOUS
<1> DEFINE frame == [stack[i] EXCEPT !.ip = ip]
<1>4. frame \in Frame /\ frame.mnu = stack[i].mnu /\ stack' = [stack EXCEPT ![i] = frame]
  BY <1>2, <1>3
<1> HIDE DEF frame
<1>5. stack' \in Seq(Frame) /\ DOMAIN stack' = DOMAIN stack
  BY <1>1, <1>4, ExceptSeq
<1>6. \A j \in DOMAIN stack : stack'[j].mnu = stack[j].mnu
  BY <1>4
<1>7. \A m : Rebuilding(m)' <=> Rebuilding(m)
  BY <1>5, <1>6 DEF Rebuilding
<1> QED BY <1>5, <1>7
        DEF MenusInv, Typed, MarksInv, StatusTitleCurrent, Settled, chosen, shown

\* A request or its answer rebuilds nothing yet; the answer is in the queue.
LEMMA ResponseKeeps ==
  ASSUME MenusInv, NEW m \in Mnus, Response(m)
  PROVE  MenusInv'
<1>1. PICK info \in Replies \cup {Nil} : gameInfo' = [gameInfo EXCEPT ![m] = info]
  BY DEF Response
<1>2. /\ performs' = Append(performs, m) /\ performs \in Seq(Mnus)
      /\ UNCHANGED <<chosen, shown, stack>>
  BY DEF Response, MenusInv, Typed
<1>3. /\ performs' \in Seq(Mnus) /\ Len(performs') = Len(performs) + 1
      /\ Len(performs) \in Nat /\ performs'[Len(performs) + 1] = m
      /\ \A i \in 1..Len(performs) : performs'[i] = performs[i]
  BY <1>2, AppendProperties, LenProperties
<1>4. Contains(performs', m) /\ \A n : Contains(performs, n) => Contains(performs', n)
  BY <1>3 DEF Contains
<1>5. Typed'
  BY <1>1, <1>2, <1>3 DEF MenusInv, Typed, chosen, shown
<1>6. MarksInv'
  BY <1>2 DEF MenusInv, MarksInv, chosen, shown
<1>7. StatusTitleCurrent'
  <2>1. CASE m = primaryMnu
    BY <1>2, <1>4, <2>1 DEF StatusTitleCurrent, Settled, chosen
  <2>2. CASE m # primaryMnu
    <3>1. gameInfo'[primaryMnu] = gameInfo[primaryMnu]
      BY <1>1, <2>2 DEF MenusInv, Typed
    <3>2. Settled(primaryMnu)' => Settled(primaryMnu)
      BY <1>2, <1>4 DEF Settled, Rebuilding, chosen
    <3> QED BY <1>2, <3>1, <3>2 DEF MenusInv, StatusTitleCurrent, chosen, shown
  <2> QED BY <2>1, <2>2
<1> QED BY <1>5, <1>6, <1>7 DEF MenusInv

\* setPrimaryMnu has all the menus to make, the new and the old primary too.
LEMMA SetPrimaryKeeps ==
  ASSUME MenusInv, NEW m \in Mnus, SetPrimary(m)
  PROVE  MenusInv'
<1>1. Typed'
  BY MenusAssumption DEF SetPrimary, MenusInv, Typed
<1>2. MarksInv'
  BY AllInOrder DEF SetPrimary, MarksInv
<1>3. StatusTitleCurrent'
  BY AllInOrder DEF SetPrimary, StatusTitleCurrent, Settled
<1> QED BY <1>1, <1>2, <1>3 DEF MenusInv

LEMMA MenusStep ==
  ASSUME MenusInv, [Next]_vars
  PROVE  MenusInv'
<1>1. CASE RefreshAll
  BY <1>1 DEF RefreshAll, MenusInv, Typed, MarksInv, StatusTitleCurrent, Settled,
              Rebuilding, chosen
<1>2. ASSUME NEW m \in Mnus, Response(m) PROVE MenusInv'
  BY <1>2, ResponseKeeps
<1>3. ASSUME NEW m \in Mnus, SetPrimary(m) PROVE MenusInv'
  BY <1>3, SetPrimaryKeeps
<1>4. CASE RunPerform
  <2>1. performs \in Seq(Mnus) /\ performs # <<>>
    BY <1>4 DEF RunPerform, MenusInv, Typed
  <2>2. Begin(Head(performs), 0) /\ performs' = Tail(performs)
        /\ UNCHANGED <<primaryMnu, choosing, toMake, gameInfo>>
    BY <1>4 DEF RunPerform, MakeMenus, chosen
  <2> QED BY <2>1, <2>2, RebuildHead
<1>5. ASSUME NEW i \in DOMAIN stack, Answer(i) \/ Withdraw(i) PROVE MenusInv'
  <2>1. PICK ip \in Ips \cup {Nil, Waiting} : stack' = [stack EXCEPT ![i].ip = ip]
    BY <1>5 DEF Answer, Withdraw
  <2>2. UNCHANGED <<chosen, shown, gameInfo, performs>>
    BY <1>5 DEF Answer, Withdraw
  <2> QED BY <2>1, <2>2, WordKeeps
<1>6. CASE Resume
  BY <1>6, ResumeKeeps
<1>7. CASE MakeNext
  <2>1. toMake \in Seq(Mnus) /\ toMake # <<>>
    BY <1>7 DEF MakeNext, MenusInv, Typed
  <2>2. /\ Begin(Head(toMake), 0) /\ toMake' = Tail(toMake) /\ choosing
        /\ UNCHANGED <<primaryMnu, choosing, performs, gameInfo>>
    BY <1>7 DEF MakeNext, MakeMenus
  <2> QED BY <2>1, <2>2, RebuildHead
<1>8. CASE SavePrimary
  BY <1>8 DEF SavePrimary, MenusInv, Typed, MarksInv, StatusTitleCurrent, Settled,
              Rebuilding, shown
<1>9. CASE UNCHANGED vars
  BY <1>9 DEF vars, MenusInv, Typed, MarksInv, StatusTitleCurrent, Settled,
              Rebuilding, chosen, shown
<1> QED BY <1>1, <1>2, <1>3, <1>4, <1>5, <1>6, <1>7, <1>8, <1>9 DEF Next

LEMMA MenusInvHolds == Spec => []MenusInv
  BY MenusInit, MenusStep, PTL DEF Spec
-----------------------------------------------------------------------------
\* Whatever was queued for the old primary, and however rebuilds nest while
\* setPrimaryMnu waits, no other menu is left checked as the primary.
THEOREM OnlyPrimaryIsChecked == Spec => []OnlyPrimaryChecked
<1>1. MenusInv => OnlyPrimaryChecked
  <2> SUFFICES ASSUME MenusInv, ~choosing, NEW m \in Mnus \ {primaryMnu}
               PROVE  rows[m].checked = 0
    BY DEF OnlyPrimaryChecked
  <2>1. ~Contains(<<>>, m)
    BY EmptySeq DEF Contains
  <2> QED BY <2>1 DEF MenusInv, MarksInv
<1> QED BY <1>1, MenusInvHolds, PTL

\* Once no rebuild of the primary menu is under way, queued or still to come,
\* the status title is the primary menu's, whoever's rebuild ended last.
THEOREM StatusTitleIsCurrent == Spec => []StatusTitleCurrent
<1>1. MenusInv => StatusTitleCurrent
  BY DEF MenusInv
<1> QED BY <1>1, MenusInvHolds, PTL
-----------------------------------------------------------------------------
(***************************************************************************)
(* The types of the rest: the counts, what is shown, what is under way.    *)
(***************************************************************************)
CountTypes ==
  /\ savedPrimary \in Mnus /\ choosing \in BOOLEAN
  /\ statusTitle \in Nat \cup {Dots}
  /\ requests \in [Mnus -> 0..MaxRequests]
  /\ numPlayers \in [Mnus -> Nat]
  /\ value \in [Mnus -> Nat \cup {-1}]
  /\ title \in [Mnus -> Nat \cup {Unable, Refreshing}]
  /\ \A m \in Mnus : rows[m].launcher \in 0..1
  /\ overlapped \in [Mnus -> BOOLEAN]

LEMMA RepliesCount ==
  ASSUME Typed, NEW m \in Mnus
  PROVE  /\ Games(gameInfo[m]) \in Nat
         /\ Counted(gameInfo[m]) =>
              /\ gameInfo[m] # Nil
              /\ Players(gameInfo[m]) \in Nat /\ Len(gameInfo[m].servers) \in Nat
<1>1. gameInfo[m] \in Replies \cup {Nil} /\ Nil \notin Replies
  BY MenusAssumption DEF Typed
<1>2. CASE gameInfo[m] = Nil
  BY <1>2 DEF Games, Counted
<1>3. CASE gameInfo[m] # Nil
  BY <1>1, <1>3, ServersCounted, MenusAssumption DEF Games
<1> QED BY <1>2, <1>3

\* The counts at the end of a rebuild that went on with `players` counted.
LEMMA FinishCounts ==
  ASSUME Typed, CountTypes, NEW m \in Mnus, NEW known \in BOOLEAN, NEW ip,
         NEW row \in Row, NEW players \in Nat, Finish(m, known, ip, row, players)
  PROVE  /\ numPlayers' \in [Mnus -> Nat] /\ value' \in [Mnus -> Nat \cup {-1}]
         /\ title' \in [Mnus -> Nat \cup {Unable, Refreshing}]
         /\ statusTitle' \in Nat \cup {Dots}
         /\ \A n \in Mnus : rows'[n].launcher \in 0..1
<1> DEFINE counted == known /\ Counted(gameInfo[m])
           servers == IF counted THEN Len(gameInfo[m].servers) ELSE 0
           total == players + IF counted THEN Players(gameInfo[m]) ELSE 0
           selfie == counted /\ Listed(ip, gameInfo[m])
           full == [row EXCEPT !.servers = @ + servers]
           shows == IF known THEN Games(gameInfo[m]) ELSE Unable
           counts == IF gameInfo[m] = Nil THEN -1 ELSE IF selfie THEN total - 1 ELSE total
           last == AddSetter(m, AddLauncher(m, full))
<1>1. /\ numPlayers' = [numPlayers EXCEPT ![m] = total]
      /\ value' = [value EXCEPT ![m] = counts]
      /\ title' = [title EXCEPT ![m] = shows]
      /\ statusTitle' = SetTitle(m, total)
      /\ rows' = [rows EXCEPT ![m] = last]
  BY DEF Finish
<1>2. total \in Nat /\ shows \in Nat \cup {Unable, Refreshing} /\ servers \in Nat
  BY RepliesCount
<1>3. counts \in Nat \cup {-1}
  <2> HIDE DEF total, selfie
  <2> QED BY <1>2
<1>4. last.launcher \in 0..1
  <2>1. full \in Row
    BY <1>2 DEF Row
  <2> HIDE DEF full
  <2>2. AddLauncher(m, full) \in Row /\ AddLauncher(m, full).launcher \in 0..1
    BY <2>1 DEF AddLauncher, Row
  <2> DEFINE launched == AddLauncher(m, full)
  <2>3. launched \in Row /\ launched.launcher \in 0..1
    BY <2>2
  <2> HIDE DEF launched
  <2>4. AddSetter(m, launched).launcher = launched.launcher
    BY <2>3 DEF AddSetter, Row
  <2> QED BY <2>3, <2>4 DEF launched
<1> HIDE DEF total, counts, shows, last
<1>5. rows \in [Mnus -> Row]
  BY DEF Typed
<1>6. statusTitle' \in Nat \cup {Dots}
  BY <1>1, <1>2 DEF SetTitle, CountTypes
<1>7. \A n \in Mnus : rows'[n].launcher \in 0..1
  <2> SUFFICES ASSUME NEW n \in Mnus PROVE rows'[n].launcher \in 0..1
    OBVIOUS
  <2>1. CASE n = m
    BY <1>1, <1>4, <1>5, <2>1
  <2>2. CASE n # m
    BY <1>1, <1>5, <2>2 DEF CountTypes
  <2> QED BY <2>1, <2>2
<1> QED BY <1>1, <1>2, <1>3, <1>6, <1>7 DEF CountTypes

LEMMA BeginCounts ==
  ASSUME Typed, CountTypes, NEW m \in Mnus, Begin(m, 0),
         UNCHANGED <<savedPrimary, choosing, requests>>
  PROVE  CountTypes'
<1> DEFINE known == gameInfo[m] # Nil
           row == [NoRows EXCEPT !.motd = IF known /\ gameInfo[m].motd THEN 1 ELSE 0]
<1>1. row \in Row /\ row.launcher = 0 /\ known \in BOOLEAN
  BY DEF NoRows, Row
<1>2. overlapped' \in [Mnus -> BOOLEAN]
  BY DEF Begin, CountTypes, Rebuilding
<1>3. CASE Finish(m, known, Nil, row, 0)
  <2> HIDE DEF known, row
  <2>1. /\ numPlayers' \in [Mnus -> Nat] /\ value' \in [Mnus -> Nat \cup {-1}]
        /\ title' \in [Mnus -> Nat \cup {Unable, Refreshing}]
        /\ statusTitle' \in Nat \cup {Dots}
        /\ \A n \in Mnus : rows'[n].launcher \in 0..1
    <3>1. 0 \in Nat /\ row \in Row /\ known \in BOOLEAN
      BY <1>1
    <3> QED BY <1>3, <3>1, FinishCounts, Zenon
  <2> QED BY <1>2, <2>1 DEF CountTypes
<1>4. CASE /\ rows' = [rows EXCEPT ![m] = row]
           /\ numPlayers' = [numPlayers EXCEPT ![m] = 0]
           /\ UNCHANGED <<statusTitle, value, title>>
  <2> HIDE DEF row
  <2>1. rows \in [Mnus -> Row]
    BY DEF Typed
  <2>2. \A n \in Mnus : rows'[n].launcher \in 0..1
    BY <1>1, <1>4, <2>1 DEF CountTypes
  <2> QED BY <1>2, <1>4, <2>2 DEF CountTypes
<1> QED BY <1>3, <1>4 DEF Begin

\* A refresh is refused when too many are under way.
LEMMA RefreshCounts ==
  ASSUME Typed, CountTypes, RefreshAll
  PROVE  CountTypes'
<1>1. ASSUME NEW m \in Mnus PROVE requests[m] + 1 \in 0..MaxRequests
  <2> DEFINE queued == {i \in DOMAIN performs : performs[i] = m}
             waits == {i \in DOMAIN stack : stack[i].mnu = m}
  <2>1. DOMAIN performs = 1..Len(performs) /\ DOMAIN stack = 1..Len(stack)
        /\ Len(performs) \in Int /\ Len(stack) \in Int
    BY LenProperties DEF Typed
  <2>2. IsFiniteSet(DOMAIN performs) /\ IsFiniteSet(DOMAIN stack)
    BY <2>1, FS_Interval
  <2>3. IsFiniteSet(queued) /\ IsFiniteSet(waits)
    BY <2>2, FS_Subset
  <2>4. Cardinality(queued) \in Nat /\ Cardinality(waits) \in Nat
    BY <2>3, FS_CardinalityType
  <2>5. requests[m] + Cardinality(queued) + Cardinality(waits) < MaxRequests
    BY DEF RefreshAll, Outstanding
  <2> HIDE DEF queued, waits
  <2>6. requests[m] \in 0..MaxRequests /\ MaxRequests \in Nat
    BY MenusAssumption DEF CountTypes
  <2> QED BY <2>4, <2>5, <2>6
<1>2. requests' \in [Mnus -> 0..MaxRequests]
  BY <1>1 DEF RefreshAll
<1> QED BY <1>2 DEF RefreshAll, CountTypes, chosen

LEMMA CountStep ==
  ASSUME MenusInv, CountTypes, [Next]_vars
  PROVE  CountTypes'
<1>t. Typed
  BY DEF MenusInv
<1>1. CASE RefreshAll
  BY <1>1, <1>t, RefreshCounts
<1>2. ASSUME NEW m \in Mnus, Response(m) PROVE CountTypes'
  <2>1. requests[m] \in 0..MaxRequests /\ requests[m] > 0 /\ MaxRequests \in Nat
    BY <1>2, MenusAssumption DEF Response, CountTypes
  <2>2. requests[m] - 1 \in 0..MaxRequests
    BY <2>1
  <2>3. requests' \in [Mnus -> 0..MaxRequests]
    BY <1>2, <2>2 DEF Response, CountTypes
  <2> QED BY <1>2, <2>3 DEF Response, CountTypes, chosen, shown
<1>3. ASSUME NEW m \in Mnus, SetPrimary(m) PROVE CountTypes'
  BY <1>3 DEF SetPrimary, CountTypes
<1>4. CASE RunPerform
  <2>1. Head(performs) \in Mnus /\ Begin(Head(performs), 0)
    BY <1>4, <1>t, HeadTailProperties DEF RunPerform, MakeMenus, Typed
  <2> QED BY <1>4, <1>t, <2>1, BeginCounts DEF RunPerform, chosen
<1>5. ASSUME NEW i \in DOMAIN stack, Answer(i) \/ Withdraw(i) PROVE CountTypes'
  BY <1>5, Zenon DEF Answer, Withdraw, CountTypes, chosen, shown
<1>6. CASE Resume
  <2> DEFINE f == Last(stack)
  <2>1. f \in Frame
    BY <1>6, <1>t, FrontAndLast DEF Resume, Typed
  <2>2. f.mnu \in Mnus
    BY <2>1 DEF Frame
  <2>3. Finish(f.mnu, TRUE, f.ip, rows[f.mnu], numPlayers[f.mnu])
        /\ UNCHANGED <<chosen, requests, overlapped>>
    BY <1>6 DEF Resume, GoOn
  <2>4. rows[f.mnu] \in Row /\ numPlayers[f.mnu] \in Nat
    BY <1>t, <2>2 DEF Typed, CountTypes
  <2> HIDE DEF f
  <2> QED BY <1>t, <2>2, <2>3, <2>4, FinishCounts DEF CountTypes, chosen
<1>7. CASE MakeNext
  <2>1. Head(toMake) \in Mnus /\ Begin(Head(toMake), 0)
    BY <1>7, <1>t, HeadTailProperties DEF MakeNext, MakeMenus, Typed
  <2> QED BY <1>7, <1>t, <2>1, BeginCounts DEF MakeNext
<1>8. CASE SavePrimary
  BY <1>8, <1>t DEF SavePrimary, CountTypes, Typed, shown
<1>9. CASE UNCHANGED vars
  BY <1>9 DEF vars, CountTypes, chosen, shown
<1> QED BY <1>1, <1>2, <1>3, <1>4, <1>5, <1>6, <1>7, <1>8, <1>9 DEF Next

LEMMA CountInit == Init => CountTypes
<1> SUFFICES ASSUME Init PROVE CountTypes
  OBVIOUS
<1>1. \A m \in Mnus : rows[m].launcher \in 0..1
  <2>1. \A m \in Mnus : AddLauncher(m, [NoRows EXCEPT !.setter = 1]).launcher \in 0..1
    BY DEF AddLauncher, NoRows
  <2> QED BY <2>1 DEF Init
<1>2. MaxRequests \in Nat
  BY MenusAssumption
<1>3. /\ -1 \in Nat \cup {-1} /\ Dots \in Nat \cup {Dots}
      /\ Unable \in Nat \cup {Unable, Refreshing}
  OBVIOUS
<1>4. /\ numPlayers \in [Mnus -> Nat] /\ value \in [Mnus -> Nat \cup {-1}]
      /\ title \in [Mnus -> Nat \cup {Unable, Refreshing}]
      /\ requests \in [Mnus -> 0..MaxRequests]
  BY <1>2, <1>3 DEF Init
<1> QED BY <1>1, <1>3, <1>4 DEF Init, CountTypes

LEMMA CountTypesHold == Spec => []CountTypes
  BY CountInit, CountStep, MenusInvHolds, PTL DEF Spec

\* A menu never holds its launcher item twice (adding it again raises), and
\* what is counted and shown are numbers.
THEOREM MenuTypes == Spec => []TypeOK
<1>1. MenusInv /\ CountTypes => TypeOK
  BY DEF MenusInv, Typed, CountTypes, TypeOK
<1> QED BY <1>1, MenusInvHolds, CountTypesHold, PTL
-----------------------------------------------------------------------------
(***************************************************************************)
(* What a menu shows.  While a rebuild waits that nobody rebuilds inside   *)
(* of, its menu stays as bare as it left it; once it is over the menu      *)
(* shows the last reply, unless a newer one has queued the next rebuild.   *)
(***************************************************************************)
Alone(m) == \A i, j \in DOMAIN stack : stack[i].mnu = m /\ stack[j].mnu = m => i = j

Bare(m) ==
  /\ Alone(m)
  /\ numPlayers[m] = 0 /\ rows[m].servers = 0 /\ rows[m].setter = 0
  /\ \/ Contains(performs, m)
     \/ gameInfo[m] # Nil /\ rows[m].motd = IF gameInfo[m].motd THEN 1 ELSE 0

ExactFor(m) ==
  IF Rebuilding(m) THEN Bare(m) ELSE Contains(performs, m) \/ ShowsReply(m)

ExactInv == \A m \in Mnus : ~overlapped[m] => ExactFor(m)

\* A step that leaves a menu, its reply, its queue and its frames alone.
LEMMA MenuSame ==
  ASSUME NEW m \in Mnus, ExactFor(m),
         numPlayers'[m] = numPlayers[m], value'[m] = value[m],
         rows'[m] = rows[m], gameInfo'[m] = gameInfo[m],
         Contains(performs, m) => Contains(performs', m),
         Rebuilding(m)' <=> Rebuilding(m), Alone(m) => Alone(m)'
  PROVE  ExactFor(m)'
BY DEF ExactFor, Bare, ShowsReply

\* Frames are pushed and popped: whose rebuilds are under way.
LEMMA PushFrame ==
  ASSUME Typed, NEW m \in Mnus,
         stack' = Append(stack, [mnu |-> m, ip |-> Waiting])
  PROVE  /\ Rebuilding(m)' /\ (~Rebuilding(m) => Alone(m)')
         /\ \A n \in Mnus \ {m} :
              (Rebuilding(n)' <=> Rebuilding(n)) /\ (Alone(n) => Alone(n)')
<1> DEFINE frame == [mnu |-> m, ip |-> Waiting]
<1>1. frame \in Frame /\ frame.mnu = m
  BY DEF Frame
<1> HIDE DEF frame
<1>2. /\ Len(stack) \in Nat /\ DOMAIN stack = 1..Len(stack)
      /\ DOMAIN stack' = 1..(Len(stack) + 1)
      /\ stack'[Len(stack) + 1] = frame
      /\ \A i \in 1..Len(stack) : stack'[i] = stack[i]
  BY <1>1, AppendProperties, LenProperties DEF Typed, frame
<1> QED BY <1>1, <1>2 DEF Rebuilding, Alone

LEMMA PopFrame ==
  ASSUME Typed, stack # <<>>, stack' = Front(stack), NEW m, m = Last(stack).mnu
  PROVE  /\ Rebuilding(m) /\ (Alone(m) => ~Rebuilding(m)')
         /\ \A n \in Mnus \ {m} :
              (Rebuilding(n)' <=> Rebuilding(n)) /\ (Alone(n) => Alone(n)')
<1>1. /\ Last(stack) = stack[Len(stack)] /\ Len(stack) \in Nat \ {0}
      /\ DOMAIN stack = 1..Len(stack) /\ DOMAIN stack' = 1..(Len(stack) - 1)
      /\ \A i \in 1..(Len(stack) - 1) : stack'[i] = stack[i]
  BY FrontAndLast DEF Typed
<1> QED BY <1>1 DEF Rebuilding, Alone

\* The rest of makeMenus on a bare menu makes it show its reply.
LEMMA FinishExact ==
  ASSUME Typed, CountTypes, NEW m \in Mnus, NEW ip, NEW row \in Row,
         row.servers = 0, row.setter = 0,
         row.motd = IF gameInfo[m] # Nil /\ gameInfo[m].motd THEN 1 ELSE 0,
         NEW known \in BOOLEAN, known <=> gameInfo[m] # Nil,
         Finish(m, known, ip, row, 0), gameInfo' = gameInfo
  PROVE  ShowsReply(m)'
<1> DEFINE counted == known /\ Counted(gameInfo[m])
           servers == IF counted THEN Len(gameInfo[m].servers) ELSE 0
           players == IF counted THEN Players(gameInfo[m]) ELSE 0
           selfie == counted /\ Listed(ip, gameInfo[m])
           full == [row EXCEPT !.servers = @ + servers]
           total == 0 + players
           counts == IF gameInfo[m] = Nil THEN -1 ELSE IF selfie THEN total - 1 ELSE total
           last == AddSetter(m, AddLauncher(m, full))
<1>1. /\ numPlayers' = [numPlayers EXCEPT ![m] = total]
      /\ value' = [value EXCEPT ![m] = counts]
      /\ rows' = [rows EXCEPT ![m] = last]
  BY DEF Finish
<1>2. servers \in Nat /\ players \in Nat
  BY RepliesCount
<1>3. full \in Row /\ full.servers = servers /\ full.setter = 0 /\ full.motd = row.motd
  BY <1>2 DEF Row
<1>4. last.servers = servers /\ last.setter = 1 /\ last.motd = row.motd
  <2> DEFINE launched == AddLauncher(m, full)
  <2> HIDE DEF full
  <2>1. /\ launched \in Row /\ launched.servers = servers
        /\ launched.setter = 0 /\ launched.motd = row.motd
    BY <1>3 DEF AddLauncher, Row
  <2> HIDE DEF launched
  <2>2. /\ AddSetter(m, launched).servers = launched.servers
        /\ AddSetter(m, launched).setter = launched.setter + 1
        /\ AddSetter(m, launched).motd = launched.motd
    BY <2>1 DEF AddSetter, Row
  <2> QED BY <2>1, <2>2 DEF launched
<1>5. total = players /\ counts \in IF gameInfo[m] = Nil THEN {-1} ELSE {players, players - 1}
  <2> HIDE DEF players, selfie
  <2> QED BY <1>2
<1>6. /\ servers = IF gameInfo[m] # Nil /\ Counted(gameInfo[m])
                   THEN Len(gameInfo[m].servers) ELSE 0
      /\ players = IF gameInfo[m] # Nil /\ Counted(gameInfo[m])
                   THEN Players(gameInfo[m]) ELSE 0
  OBVIOUS
<1> HIDE DEF total, counts, last, servers, players
<1>7. numPlayers'[m] = players /\ value'[m] = counts /\ rows'[m] = last
  BY <1>1, <1>5 DEF Typed, CountTypes
<1> QED BY <1>4, <1>5, <1>6, <1>7 DEF ShowsReply

\* makeMenus, taken from the queue or called by setPrimaryMnu.
LEMMA BeginExact ==
  ASSUME Typed, CountTypes, ExactInv, NEW m \in Mnus, Begin(m, 0),
         gameInfo' = gameInfo,
         \A n \in Mnus \ {m} : Contains(performs, n) => Contains(performs', n)
  PROVE  ExactInv'
<1> DEFINE known == gameInfo[m] # Nil
           row == [NoRows EXCEPT !.motd = IF known /\ gameInfo[m].motd THEN 1 ELSE 0]
<1>1. /\ row \in Row /\ row.servers = 0 /\ row.setter = 0 /\ known \in BOOLEAN
      /\ row.motd = IF known /\ gameInfo[m].motd THEN 1 ELSE 0
  BY DEF NoRows, Row
<1>2. overlapped' = [overlapped EXCEPT ![m] = Rebuilding(m)]
  BY DEF Begin
<1>3. overlapped'[m] = Rebuilding(m)
      /\ \A n \in Mnus \ {m} : overlapped'[n] = overlapped[n]
  BY <1>2 DEF CountTypes
<1>4. ASSUME NEW n \in Mnus \ {m}
      PROVE  /\ numPlayers'[n] = numPlayers[n] /\ value'[n] = value[n] /\ rows'[n] = rows[n]
             /\ Rebuilding(n)' <=> Rebuilding(n)
             /\ Alone(n) => Alone(n)'
  <2>1. CASE Finish(m, known, Nil, row, 0) /\ UNCHANGED stack
    <3>1. /\ numPlayers'[n] = numPlayers[n] /\ value'[n] = value[n]
          /\ rows'[n] = rows[n]
      BY <1>4, <2>1 DEF Finish, Typed, CountTypes
    <3> QED BY <2>1, <3>1 DEF Rebuilding, Alone
  <2>2. CASE /\ stack' = Append(stack, [mnu |-> m, ip |-> Waiting])
             /\ rows' = [rows EXCEPT ![m] = row]
             /\ numPlayers' = [numPlayers EXCEPT ![m] = 0]
             /\ UNCHANGED <<statusTitle, value, title>>
    <3> HIDE DEF row
    <3>1. /\ numPlayers'[n] = numPlayers[n] /\ value'[n] = value[n]
          /\ rows'[n] = rows[n]
      BY <1>4, <2>2 DEF Typed, CountTypes
    <3> QED BY <1>4, <2>2, <3>1, PushFrame
  <2> QED BY <2>1, <2>2 DEF Begin
<1>5. ASSUME NEW n \in Mnus \ {m}, ~overlapped'[n]
      PROVE  ExactFor(n)'
  <2>1. ExactFor(n)
    BY <1>3, <1>5 DEF ExactInv
  <2> QED BY <1>4, <1>5, <2>1, MenuSame
<1>6. ASSUME ~Rebuilding(m)
      PROVE  ExactFor(m)'
  <2>1. CASE Finish(m, known, Nil, row, 0) /\ UNCHANGED stack
    <3>1. ~Rebuilding(m)'
      BY <1>6, <2>1 DEF Rebuilding
    <3>2. ShowsReply(m)'
      <4> HIDE DEF row
      <4> QED BY <1>1, <2>1, FinishExact
    <3> QED BY <3>1, <3>2 DEF ExactFor
  <2>2. CASE /\ known
             /\ stack' = Append(stack, [mnu |-> m, ip |-> Waiting])
             /\ rows' = [rows EXCEPT ![m] = row]
             /\ numPlayers' = [numPlayers EXCEPT ![m] = 0]
    <3> HIDE DEF row
    <3>1. Rebuilding(m)' /\ Alone(m)'
      BY <1>6, <2>2, PushFrame
    <3>2. rows'[m] = row /\ numPlayers'[m] = 0
      BY <2>2 DEF Typed, CountTypes
    <3> QED BY <1>1, <2>2, <3>1, <3>2 DEF ExactFor, Bare
  <2> QED BY <2>1, <2>2 DEF Begin
<1> QED BY <1>3, <1>5, <1>6 DEF ExactInv

\* The innermost rebuild goes on.  Bare as its menu is it shows the reply; if
\* that is not the reply the rebuild began with, another one is queued.
LEMMA ResumeExact ==
  ASSUME Typed, CountTypes, ExactInv, Resume
  PROVE  ExactInv'
<1> DEFINE f == Last(stack)
<1>1. f \in Frame /\ stack # <<>> /\ stack' = Front(stack)
  BY FrontAndLast DEF Resume, Typed
<1>m. PICK m \in Mnus : m = f.mnu
  BY <1>1 DEF Frame
<1>p. PICK ip : ip = f.ip
  OBVIOUS
<1>2. /\ Finish(m, TRUE, ip, rows[m], numPlayers[m])
      /\ UNCHANGED <<gameInfo, performs, overlapped>>
  BY <1>m, <1>p DEF Resume, GoOn
<1>3. /\ Rebuilding(m) /\ (Alone(m) => ~Rebuilding(m)')
      /\ \A n \in Mnus \ {m} :
           (Rebuilding(n)' <=> Rebuilding(n)) /\ (Alone(n) => Alone(n)')
  BY <1>1, <1>m, PopFrame
<1> HIDE DEF f
<1>4. ASSUME NEW n \in Mnus \ {m}, ~overlapped'[n]
      PROVE  ExactFor(n)'
  <2>1. ExactFor(n)
    BY <1>2, <1>4 DEF ExactInv
  <2>2. numPlayers'[n] = numPlayers[n] /\ value'[n] = value[n] /\ rows'[n] = rows[n]
    BY <1>2, <1>4 DEF Finish, Typed, CountTypes
  <2> QED BY <1>2, <1>3, <1>4, <2>1, <2>2, MenuSame
<1>5. ASSUME ~overlapped'[m]
      PROVE  ExactFor(m)'
  <2>1. Bare(m)
    BY <1>2, <1>3, <1>5 DEF ExactInv, ExactFor
  <2>2. ~Rebuilding(m)'
    BY <1>3, <2>1 DEF Bare
  <2>3. CASE Contains(performs, m)
    BY <1>2, <2>2, <2>3 DEF ExactFor
  <2>4. CASE ~Contains(performs, m)
    <3>1. /\ rows[m] \in Row /\ rows[m].servers = 0 /\ rows[m].setter = 0
          /\ gameInfo[m] # Nil /\ numPlayers[m] = 0
          /\ rows[m].motd = IF gameInfo[m] # Nil /\ gameInfo[m].motd THEN 1 ELSE 0
      BY <1>2, <2>1, <2>4 DEF Bare, Typed
    <3>2. Finish(m, TRUE, ip, rows[m], 0)
      BY <1>2, <3>1
    <3>3. ShowsReply(m)'
      BY <1>2, <3>1, <3>2, FinishExact
    <3> QED BY <2>2, <3>3 DEF ExactFor
  <2> QED BY <2>3, <2>4
<1> QED BY <1>2, <1>4, <1>5 DEF ExactInv

LEMMA ExactStep ==
  ASSUME MenusInv, CountTypes, ExactInv, [Next]_vars
  PROVE  ExactInv'
<1>t. Typed
  BY DEF MenusInv
<1>s. ASSUME UNCHANGED <<numPlayers, value, rows, gameInfo, performs, stack, overlapped>>
      PROVE  ExactInv'
  BY <1>s DEF ExactInv, ExactFor, Bare, Alone, Rebuilding, ShowsReply
<1>1. CASE RefreshAll
  BY <1>1, <1>s DEF RefreshAll
<1>2. ASSUME NEW m \in Mnus, Response(m) PROVE ExactInv'
  <2>1. PICK info \in Replies \cup {Nil} : gameInfo' = [gameInfo EXCEPT ![m] = info]
    BY <1>2 DEF Response
  <2>2. performs' = Append(performs, m) /\ UNCHANGED <<shown, stack, overlapped>>
    BY <1>2 DEF Response
  <2>3. Contains(performs', m) /\ \A n : Contains(performs, n) => Contains(performs', n)
    <3>1. /\ performs' \in Seq(Mnus) /\ Len(performs') = Len(performs) + 1
          /\ Len(performs) \in Nat /\ performs'[Len(performs) + 1] = m
          /\ \A i \in 1..Len(performs) : performs'[i] = performs[i]
      BY <1>t, <2>2, AppendProperties, LenProperties DEF Typed
    <3> QED BY <3>1 DEF Contains
  <2>4. ASSUME NEW n \in Mnus PROVE (Rebuilding(n)' <=> Rebuilding(n)) /\ (Alone(n) => Alone(n)')
    BY <2>2 DEF Rebuilding, Alone
  <2>5. ASSUME NEW n \in Mnus, ~overlapped'[n] PROVE ExactFor(n)'
    <3>1. ExactFor(n)
      BY <2>2, <2>5 DEF ExactInv
    <3>2. CASE n = m
      BY <2>2, <2>3, <2>4, <3>1, <3>2 DEF ExactFor, Bare, shown
    <3>3. CASE n # m
      <4>1. gameInfo'[n] = gameInfo[n]
        BY <1>t, <2>1, <3>3 DEF Typed
      <4> QED BY <2>2, <2>3, <2>4, <3>1, <4>1, MenuSame DEF shown
    <3> QED BY <3>2, <3>3
  <2> QED BY <2>5 DEF ExactInv
<1>3. ASSUME NEW m \in Mnus, SetPrimary(m) PROVE ExactInv'
  BY <1>3, <1>s DEF SetPrimary
<1>4. CASE RunPerform
  <2>1. performs \in Seq(Mnus) /\ performs # <<>>
    BY <1>4, <1>t DEF RunPerform, Typed
  <2>2. /\ Head(performs) \in Mnus /\ performs' = Tail(performs)
        /\ \A n : Contains(performs, n) <=> n = Head(performs) \/ Contains(Tail(performs), n)
    BY <1>4, <2>1, HeadOrTail DEF RunPerform
  <2>3. Begin(Head(performs), 0) /\ gameInfo' = gameInfo
    BY <1>4 DEF RunPerform, MakeMenus
  <2> QED BY <1>t, <2>2, <2>3, BeginExact
<1>5. ASSUME NEW i \in DOMAIN stack, Answer(i) \/ Withdraw(i) PROVE ExactInv'
  <2>1. PICK ip : stack' = [stack EXCEPT ![i].ip = ip]
    BY <1>5 DEF Answer, Withdraw
  <2>2. UNCHANGED <<shown, gameInfo, performs, overlapped>>
    BY <1>5 DEF Answer, Withdraw
  <2>3. DOMAIN stack' = DOMAIN stack /\ \A j \in DOMAIN stack : stack'[j].mnu = stack[j].mnu
    <3>1. stack \in Seq(Frame) /\ DOMAIN stack = 1..Len(stack) /\ stack[i] \in Frame
      <4>1. stack \in Seq(Frame) /\ DOMAIN stack = 1..Len(stack)
        BY <1>t, LenProperties DEF Typed
      <4> QED BY <4>1, ElementOfSeq
    <3>2. [stack[i] EXCEPT !.ip = ip].mnu = stack[i].mnu
      BY <3>1 DEF Frame
    <3>3. stack' = [stack EXCEPT ![i] = [stack[i] EXCEPT !.ip = ip]]
      BY <2>1
    <3> QED BY <3>2, <3>3
  <2>4. ASSUME NEW n \in Mnus PROVE (Rebuilding(n)' <=> Rebuilding(n)) /\ (Alone(n) => Alone(n)')
    BY <2>3 DEF Rebuilding, Alone
  <2> QED BY <2>2, <2>4, MenuSame DEF ExactInv, shown
<1>6. CASE Resume
  BY <1>6, <1>t, ResumeExact
<1>7. CASE MakeNext
  <2>1. Head(toMake) \in Mnus /\ Begin(Head(toMake), 0)
    BY <1>7, <1>t, HeadTailProperties DEF MakeNext, MakeMenus, Typed
  <2>2. gameInfo' = gameInfo /\ performs' = performs
    BY <1>7 DEF MakeNext
  <2> QED BY <1>t, <2>1, <2>2, BeginExact
<1>8. CASE SavePrimary
  BY <1>8, <1>s DEF SavePrimary, shown
<1>9. CASE UNCHANGED vars
  BY <1>9, <1>s DEF vars, shown
<1> QED BY <1>1, <1>2, <1>3, <1>4, <1>5, <1>6, <1>7, <1>8, <1>9 DEF Next

LEMMA ExactInit == Init => ExactInv
<1> SUFFICES ASSUME Init, NEW m \in Mnus PROVE ExactFor(m)
  BY DEF ExactInv
<1>1. ~Rebuilding(m)
  BY DEF Init, Rebuilding
<1>2. AddLauncher(m, [NoRows EXCEPT !.setter = 1]).servers = 0
      /\ AddLauncher(m, [NoRows EXCEPT !.setter = 1]).setter = 1
      /\ AddLauncher(m, [NoRows EXCEPT !.setter = 1]).motd = 0
  BY DEF AddLauncher, NoRows
<1>3. ShowsReply(m)
  BY <1>2 DEF Init, ShowsReply
<1> QED BY <1>1, <1>3 DEF ExactFor

\* makeMenus reads gameInfo again after its wait, when it may be another
\* reply's: still, once it has settled, a menu shows exactly one reply, the last.
THEOREM RebuildIsExact == Spec => []RebuildExact
<1>1. ExactInv => RebuildExact
  BY DEF ExactInv, ExactFor, RebuildExact, Settled
<1>2. MenusInv /\ CountTypes /\ ExactInv /\ [Next]_vars => ExactInv'
  BY ExactStep
<1> QED BY <1>1, <1>2, ExactInit, MenusInvHolds, CountTypesHold, PTL DEF Spec
-----------------------------------------------------------------------------
(***************************************************************************)
(* What the title says.  It stays wrong only while somebody is still to    *)
(* set it: a request under way, a rebuild queued or waiting.               *)
(***************************************************************************)
SaysReply(m) == title[m] = IF gameInfo[m] = Nil THEN Unable ELSE Games(gameInfo[m])

TitleFor(m) ==
  \/ Rebuilding(m) \/ Contains(performs, m) \/ requests[m] > 0
  \/ title[m] # Refreshing /\ (~overlapped[m] => SaysReply(m))

TitleInv == \A m \in Mnus : TitleFor(m)

\* A step that leaves a menu's title, its reply and who is to set it alone.
LEMMA TitleSame ==
  ASSUME NEW m \in Mnus, TitleFor(m),
         title'[m] = title[m], gameInfo'[m] = gameInfo[m],
         overlapped'[m] = overlapped[m], requests'[m] = requests[m],
         Contains(performs, m) => Contains(performs', m),
         Rebuilding(m) => Rebuilding(m)'
  PROVE  TitleFor(m)'
BY DEF TitleFor, SaysReply

\* The rest of makeMenus sets the title of its menu and of no other.
LEMMA FinishTitles ==
  ASSUME Typed, CountTypes, NEW m \in Mnus, NEW known, NEW ip, NEW row, NEW players,
         Finish(m, known, ip, row, players)
  PROVE  /\ title'[m] = IF known THEN Games(gameInfo[m]) ELSE Unable
         /\ title'[m] # Refreshing
         /\ \A n \in Mnus \ {m} : title'[n] = title[n]
<1>1. title' = [title EXCEPT ![m] = IF known THEN Games(gameInfo[m]) ELSE Unable]
  BY DEF Finish
<1>2. Games(gameInfo[m]) \in Nat
  BY RepliesCount
<1> QED BY <1>1, <1>2 DEF CountTypes, Unable, Refreshing

\* makeMenus sets the title, or waits and is to set it.
LEMMA BeginTitles ==
  ASSUME Typed, CountTypes, TitleInv, NEW m \in Mnus, Begin(m, 0),
         gameInfo' = gameInfo, requests' = requests,
         \A n \in Mnus \ {m} : Contains(performs, n) => Contains(performs', n)
  PROVE  TitleInv'
<1> DEFINE known == gameInfo[m] # Nil
           row == [NoRows EXCEPT !.motd = IF known /\ gameInfo[m].motd THEN 1 ELSE 0]
<1>1. \A n \in Mnus \ {m} : overlapped'[n] = overlapped[n]
  BY DEF Begin, CountTypes
<1>2. CASE Finish(m, known, Nil, row, 0) /\ UNCHANGED stack
  <2> HIDE DEF row
  <2>1. /\ title'[m] = IF known THEN Games(gameInfo[m]) ELSE Unable
        /\ title'[m] # Refreshing
        /\ \A n \in Mnus \ {m} : title'[n] = title[n]
    BY <1>2, FinishTitles
  <2>2. TitleFor(m)'
    BY <2>1 DEF TitleFor, SaysReply
  <2>3. ASSUME NEW n \in Mnus \ {m} PROVE TitleFor(n)'
    <3>1. Rebuilding(n) => Rebuilding(n)'
      BY <1>2 DEF Rebuilding
    <3>2. TitleFor(n)
      BY DEF TitleInv
    <3> QED BY <1>1, <2>1, <3>1, <3>2, TitleSame
  <2> QED BY <2>2, <2>3 DEF TitleInv
<1>3. CASE /\ stack' = Append(stack, [mnu |-> m, ip |-> Waiting])
           /\ UNCHANGED title
  <2>1. Rebuilding(m)' /\ \A n \in Mnus \ {m} : Rebuilding(n)' <=> Rebuilding(n)
    BY <1>3, PushFrame
  <2>2. ASSUME NEW n \in Mnus \ {m} PROVE TitleFor(n)'
    <3>1. TitleFor(n)
      BY DEF TitleInv
    <3> QED BY <1>1, <1>3, <2>1, <3>1, TitleSame
  <2> QED BY <2>1, <2>2 DEF TitleInv, TitleFor
<1> QED BY <1>2, <1>3 DEF Begin

\* The innermost rebuild sets its title from the reply it finds; if that came
\* in place of one that failed, or failed itself, the next rebuild is queued.
LEMMA ResumeTitles ==
  ASSUME Typed, CountTypes, ExactInv, TitleInv, Resume
  PROVE  TitleInv'
<1> DEFINE f == Last(stack)
<1>1. f \in Frame /\ stack # <<>> /\ stack' = Front(stack)
  BY FrontAndLast DEF Resume, Typed
<1>m. PICK m \in Mnus : m = f.mnu
  BY <1>1 DEF Frame
<1>p. PICK ip : ip = f.ip
  OBVIOUS
<1>2. /\ Finish(m, TRUE, ip, rows[m], numPlayers[m])
      /\ UNCHANGED <<gameInfo, performs, requests, overlapped>>
  BY <1>m, <1>p DEF Resume, GoOn
<1>3. Rebuilding(m) /\ \A n \in Mnus \ {m} : Rebuilding(n)' <=> Rebuilding(n)
  BY <1>1, <1>m, PopFrame
<1> HIDE DEF f
<1>4. /\ title'[m] = Games(gameInfo[m]) /\ title'[m] # Refreshing
      /\ \A n \in Mnus \ {m} : title'[n] = title[n]
  BY <1>2, FinishTitles
<1>5. ASSUME NEW n \in Mnus \ {m} PROVE TitleFor(n)'
  <2>1. TitleFor(n)
    BY DEF TitleInv
  <2> QED BY <1>2, <1>3, <1>4, <2>1, TitleSame
<1>6. TitleFor(m)'
  <2>1. CASE overlapped[m]
    BY <1>2, <1>4, <2>1 DEF TitleFor
  <2>2. CASE ~overlapped[m]
    <3>1. Contains(performs, m) \/ gameInfo[m] # Nil
      BY <1>3, <2>2 DEF ExactInv, ExactFor, Bare
    <3> QED BY <1>2, <1>4, <3>1 DEF TitleFor, SaysReply
  <2> QED BY <2>1, <2>2
<1> QED BY <1>5, <1>6 DEF TitleInv

LEMMA TitleStep ==
  ASSUME MenusInv, CountTypes, ExactInv, TitleInv, [Next]_vars
  PROVE  TitleInv'
<1>t. Typed
  BY DEF MenusInv
<1>s. ASSUME UNCHANGED <<title, gameInfo, requests, performs, stack, overlapped>>
      PROVE  TitleInv'
  BY <1>s DEF TitleInv, TitleFor, SaysReply, Rebuilding
<1>1. CASE RefreshAll
  <2>1. \A m \in Mnus : requests'[m] = requests[m] + 1 /\ requests[m] \in 0..MaxRequests
    BY <1>1 DEF RefreshAll, CountTypes
  <2>2. \A m \in Mnus : requests'[m] > 0
    BY <2>1, MenusAssumption
  <2> QED BY <2>2 DEF TitleInv, TitleFor
<1>2. ASSUME NEW m \in Mnus, Response(m) PROVE TitleInv'
  <2>1. PICK info \in Replies \cup {Nil} : gameInfo' = [gameInfo EXCEPT ![m] = info]
    BY <1>2 DEF Response
  <2>2. /\ performs' = Append(performs, m) /\ UNCHANGED <<shown, stack, overlapped>>
        /\ requests' = [requests EXCEPT ![m] = @ - 1]
    BY <1>2 DEF Response
  <2>3. Contains(performs', m) /\ \A n : Contains(performs, n) => Contains(performs', n)
    <3>1. /\ performs' \in Seq(Mnus) /\ Len(performs') = Len(performs) + 1
          /\ Len(performs) \in Nat /\ performs'[Len(performs) + 1] = m
          /\ \A i \in 1..Len(performs) : performs'[i] = performs[i]
      BY <1>t, <2>2, AppendProperties, LenProperties DEF Typed
    <3> QED BY <3>1 DEF Contains
  <2>4. ASSUME NEW n \in Mnus \ {m} PROVE TitleFor(n)'
    <3>1. gameInfo'[n] = gameInfo[n] /\ requests'[n] = requests[n]
      BY <1>t, <2>1, <2>2 DEF Typed, CountTypes
    <3>2. TitleFor(n) /\ (Rebuilding(n) => Rebuilding(n)')
      BY <2>2 DEF TitleInv, Rebuilding
    <3> QED BY <2>2, <2>3, <3>1, <3>2, TitleSame DEF shown
  <2> QED BY <2>3, <2>4 DEF TitleInv, TitleFor
<1>3. ASSUME NEW m \in Mnus, SetPrimary(m) PROVE TitleInv'
  BY <1>3, <1>s DEF SetPrimary
<1>4. CASE RunPerform
  <2>1. performs \in Seq(Mnus) /\ performs # <<>>
    BY <1>4, <1>t DEF RunPerform, Typed
  <2>2. /\ Head(performs) \in Mnus /\ performs' = Tail(performs)
        /\ \A n : Contains(performs, n) <=> n = Head(performs) \/ Contains(Tail(performs), n)
    BY <1>4, <2>1, HeadOrTail DEF RunPerform
  <2>3. Begin(Head(performs), 0) /\ gameInfo' = gameInfo /\ requests' = requests
    BY <1>4 DEF RunPerform, MakeMenus
  <2> QED BY <1>t, <2>2, <2>3, BeginTitles
<1>5. ASSUME NEW i \in DOMAIN stack, Answer(i) \/ Withdraw(i) PROVE TitleInv'
  <2>1. PICK ip : stack' = [stack EXCEPT ![i].ip = ip]
    BY <1>5 DEF Answer, Withdraw
  <2>2. UNCHANGED <<shown, gameInfo, requests, performs, overlapped>>
    BY <1>5 DEF Answer, Withdraw
  <2>3. DOMAIN stack' = DOMAIN stack /\ \A j \in DOMAIN stack : stack'[j].mnu = stack[j].mnu
    <3>1. stack \in Seq(Frame) /\ DOMAIN stack = 1..Len(stack) /\ stack[i] \in Frame
      <4>1. stack \in Seq(Frame) /\ DOMAIN stack = 1..Len(stack)
        BY <1>t, LenProperties DEF Typed
      <4> QED BY <4>1, ElementOfSeq
    <3>2. [stack[i] EXCEPT !.ip = ip].mnu = stack[i].mnu
      BY <3>1 DEF Frame
    <3>3. stack' = [stack EXCEPT ![i] = [stack[i] EXCEPT !.ip = ip]]
      BY <2>1
    <3> QED BY <3>2, <3>3
  <2>4. ASSUME NEW n \in Mnus PROVE Rebuilding(n) => Rebuilding(n)'
    BY <2>3 DEF Rebuilding
  <2> QED BY <2>2, <2>4, TitleSame DEF TitleInv, shown
<1>6. CASE Resume
  BY <1>6, <1>t, ResumeTitles
<1>7. CASE MakeNext
  <2>1. Head(toMake) \in Mnus /\ Begin(Head(toMake), 0)
    BY <1>7, <1>t, HeadTailProperties DEF MakeNext, MakeMenus, Typed
  <2>2. gameInfo' = gameInfo /\ requests' = requests /\ performs' = performs
    BY <1>7 DEF MakeNext
  <2> QED BY <1>t, <2>1, <2>2, BeginTitles
<1>8. CASE SavePrimary
  BY <1>8, <1>s DEF SavePrimary, shown
<1>9. CASE UNCHANGED vars
  BY <1>9, <1>s DEF vars, shown
<1> QED BY <1>1, <1>2, <1>3, <1>4, <1>5, <1>6, <1>7, <1>8, <1>9 DEF Next

LEMMA TitleInit == Init => TitleInv
  BY DEF Init, TitleInv, TitleFor, SaysReply, Unable, Refreshing

\* Failed requests and rebuilds in any nesting included, a settled menu whose
\* refreshes were answered does not say "Refreshing...", and if its last rebuild
\* was not inside another one of its own it says what the last reply says.
THEOREM TitlesSettle == Spec => []TitleSettles
<1>1. CountTypes /\ TitleInv => TitleSettles
  <2> SUFFICES ASSUME CountTypes, TitleInv, NEW m \in Mnus, Settled(m), requests[m] = 0
               PROVE  title[m] # Refreshing /\ (~overlapped[m] => SaysReply(m))
    BY DEF TitleSettles, SaysReply
  <2>1. TitleFor(m) /\ ~Rebuilding(m) /\ ~Contains(performs, m)
    BY DEF TitleInv, Settled
  <2> QED BY <2>1 DEF TitleFor
<1>2. MenusInv /\ CountTypes /\ ExactInv /\ TitleInv /\ [Next]_vars => TitleInv'
  BY TitleStep
<1>3. MenusInv /\ CountTypes /\ ExactInv /\ [Next]_vars => ExactInv'
  BY ExactStep
<1> QED
  BY <1>1, <1>2, <1>3, ExactInit, TitleInit, MenusInvHolds, CountTypesHold, PTL DEF Spec
=============================================================================
