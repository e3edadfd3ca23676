--------------------------- MODULE HidDeviceProofs ---------------------------
(***************************************************************************)
(* For any readers, any list limit and any number of reports: the two      *)
(* barriers of hid.c do their work, provided no pthread_cond_wait in one   *)
(* of them returns unasked (run HidSpurious shows what happens if one      *)
(* does); the list keeps the newest reports; no reader sleeps through one. *)
(*                                                                         *)
(* The first inductive invariant ties the count and the trip of each       *)
(* barrier to where its two threads stand; what the client may rely on     *)
(* follows.                                                                *)
(***************************************************************************)
EXTENDS HidDevice, FiniteSetTheorems, SequenceTheorems, TLAPS

Unmet == {"scheduling", "storing", "ready"}         \* thread, before the barrier
Parted == {"joining", "osClosing", "freeing", "closed"}   \* client, past the second

Barriers == barrier \in [{"open", "shutdown"} -> [count : Int, tripped : BOOLEAN]]

\* Where the two threads stand around dev->barrier.
OpenInv ==
  IF barrier["open"].tripped
  THEN clientPc # "spawned" /\ threadPc \notin Unmet
  ELSE \/ /\ barrier["open"].count = 0
          /\ clientPc = "spawned" /\ threadPc \in Unmet
       \/ /\ barrier["open"].count = 1
          /\ \/ clientPc = "opening" /\ threadPc \in Unmet
             \/ clientPc = "spawned" /\ threadPc = "starting"

\* Where they stand around dev->shutdown_barrier.
ShutdownInv ==
  IF barrier["shutdown"].tripped
  THEN /\ clientPc \in Parted \cup {"leaving"}
       /\ threadPc \in {"leaving", "ended"}
  ELSE /\ clientPc \notin Parted /\ threadPc # "ended"
       /\ barrier["shutdown"].count = 0 =>
            clientPc # "leaving" /\ threadPc # "leaving"
       /\ barrier["shutdown"].count = 1 =>
            (clientPc = "leaving") # (threadPc = "leaving")

StartedInv ==
  /\ threadPc # "scheduling" => source
  /\ threadPc \notin {"scheduling", "storing"} => runLoop
JoinedInv == clientPc \in {"osClosing", "freeing", "closed"} => threadPc = "ended"

HandleInv ==
  /\ clientPc \in ClientPcs /\ threadPc \in ThreadPcs /\ Barriers
  /\ OpenInv /\ ShutdownInv /\ StartedInv /\ JoinedInv

USE DEF ClientPcs, ThreadPcs, Closing, Unmet, Parted

LEMMA HandleInit == Init => HandleInv
  BY DEF Init, HandleInv, Barriers, OpenInv, ShutdownInv, StartedInv, JoinedInv

\* What arriving at a barrier does to the two of them.
Sides == {"open", "shutdown"}

LEMMA FirstArrives ==
  ASSUME NEW b \in Sides, Barriers, ArriveFirst(b)
  PROVE  /\ Barriers'
         /\ barrier[b].count = 0 /\ barrier'[b].count = 1
         /\ barrier'[b].tripped = barrier[b].tripped
         /\ \A c \in Sides \ {b} : barrier'[c] = barrier[c]
  BY DEF Sides, Barriers, ArriveFirst

LEMMA SecondArrives ==
  ASSUME NEW b \in Sides, Barriers, ArriveSecond(b)
  PROVE  /\ Barriers'
         /\ barrier[b].count = 1 /\ barrier'[b].count = 0
         /\ barrier'[b].tripped
         /\ \A c \in Sides \ {b} : barrier'[c] = barrier[c]
  BY DEF Sides, Barriers, ArriveSecond

\* Steps that leave the barriers and the thread's progress through them alone.
LEMMA Elsewhere ==
  ASSUME HandleInv, barrier' = barrier,
         clientPc' = clientPc, threadPc' = threadPc,
         source' = source, runLoop' = runLoop
  PROVE  HandleInv'
  BY DEF HandleInv, Barriers, OpenInv, ShutdownInv, StartedInv, JoinedInv

LEMMA HandleStep ==
  ASSUME ~SpuriousWakeups, HandleInv, [Next]_vars
  PROVE  HandleInv'
<1> USE DEF HandleInv, Barriers, OpenInv, ShutdownInv, StartedInv, JoinedInv,
            ClientGoes, ThreadGoes, loop
<1>1. CASE ClientOpens
  <2>1. CASE clientPc = "spawned" /\ ArriveFirst("open") /\ ClientGoes("opening")
    BY <1>1, <2>1, FirstArrives DEF ClientOpens, Sides
  <2>2. CASE clientPc = "spawned" /\ ArriveSecond("open") /\ ClientGoes("open")
    BY <1>1, <2>2, SecondArrives DEF ClientOpens, Sides
  <2>3. CASE clientPc = "opening" /\ LeaveBarrier("open") /\ ClientGoes("open")
    BY <1>1, <2>3 DEF ClientOpens, LeaveBarrier
  <2> QED
    BY <1>1, <2>1, <2>2, <2>3 DEF ClientOpens
<1>2. CASE Schedule
  BY <1>2 DEF Schedule
<1>3. CASE StoreRunLoop
  BY <1>3 DEF StoreRunLoop
<1>4. CASE ThreadStarts
  <2>1. CASE threadPc = "ready" /\ ArriveFirst("open") /\ ThreadGoes("starting")
    BY <1>4, <2>1, FirstArrives DEF ThreadStarts, Sides
  <2>2. CASE threadPc = "ready" /\ ArriveSecond("open") /\ ThreadGoes("looping")
    BY <1>4, <2>2, SecondArrives DEF ThreadStarts, Sides
  <2>3. CASE threadPc = "starting" /\ LeaveBarrier("open") /\ ThreadGoes("looping")
    BY <1>4, <2>3 DEF ThreadStarts, LeaveBarrier
  <2> QED
    BY <1>4, <2>1, <2>2, <2>3 DEF ThreadStarts
<1>5. CASE TestFlags
  BY <1>5 DEF TestFlags
<1>6. CASE RunLoopStops
  BY <1>6 DEF RunLoopStops
<1>7. CASE RunLoopTimesOut
  BY <1>7 DEF RunLoopTimesOut
<1>8. CASE Broadcast
  BY <1>8 DEF Broadcast
<1>9. CASE ThreadEnds
  <2>1. CASE threadPc = "stopping" /\ ArriveFirst("shutdown") /\ ThreadGoes("leaving")
    BY <1>9, <2>1, FirstArrives DEF ThreadEnds, Sides
  <2>2. CASE threadPc = "stopping" /\ ArriveSecond("shutdown") /\ ThreadGoes("ended")
    BY <1>9, <2>2, SecondArrives DEF ThreadEnds, Sides
  <2>3. CASE threadPc = "leaving" /\ LeaveBarrier("shutdown") /\ ThreadGoes("ended")
    BY <1>9, <2>3 DEF ThreadEnds, LeaveBarrier
  <2> QED
    BY <1>9, <2>1, <2>2, <2>3 DEF ThreadEnds
<1>10. CASE Close
  BY <1>10 DEF Close
<1>11. CASE TestDisconnected \/ Deregister \/ RaiseShutdown
  BY <1>11 DEF TestDisconnected, Deregister, RaiseShutdown
<1>12. CASE SignalSource \/ WakeRunLoop
  BY <1>12 DEF SignalSource, WakeRunLoop
<1>13. CASE MeetThread
  <2>1. CASE clientPc = "arriving" /\ ArriveFirst("shutdown") /\ ClientGoes("leaving")
    BY <1>13, <2>1, FirstArrives DEF MeetThread, Sides
  <2>2. CASE clientPc = "arriving" /\ ArriveSecond("shutdown") /\ ClientGoes("joining")
    BY <1>13, <2>2, SecondArrives DEF MeetThread, Sides
  <2>3. CASE clientPc = "leaving" /\ LeaveBarrier("shutdown") /\ ClientGoes("joining")
    BY <1>13, <2>3 DEF MeetThread, LeaveBarrier
  <2> QED
    BY <1>13, <2>1, <2>2, <2>3 DEF MeetThread
<1>14. CASE Join \/ OsClose \/ FreeDevice
  BY <1>14 DEF Join, OsClose, FreeDevice
<1>15. CASE Callbacks
  BY <1>15, Elsewhere DEF Callbacks, SourceFires, RemovalCallback, ReportCallback
<1>16. ASSUME NEW r \in Readers,
              \/ ReaderSteps(r) \/ Stirs(r) \/ TimesOut(r)
              \/ \E p \in Patience : ReadBegins(r, p)
       PROVE  HandleInv'
  <2>1. ReaderSame
    BY <1>16, Zenon DEF ReaderSteps, Stirs, TimesOut, ReadBegins, Lock, Check,
                        Sleep, Relock, GiveUp
  <2> QED
    BY <2>1, Elsewhere DEF ReaderSame
<1>17. CASE Unplug \/ UNCHANGED vars
  BY <1>17, Elsewhere DEF Unplug, vars
<1> QED
  BY <1>1, <1>2, <1>3, <1>4, <1>5, <1>6, <1>7, <1>8, <1>9, <1>10, <1>11, <1>12,
     <1>13, <1>14, <1>15, <1>16, <1>17
     DEF Next, ClientCloses, ThreadSteps
-----------------------------------------------------------------------------
\* Where hid_open_path has returned, the source and the run loop are there.
THEOREM OpenIsReady ==
  ASSUME ~SpuriousWakeups
  PROVE  Spec => []OpenMeansReady
<1>1. HandleInv => OpenMeansReady
  BY DEF HandleInv, OpenInv, StartedInv, OpenMeansReady
<1>2. HandleInv /\ [Next]_vars => HandleInv'
  BY HandleStep
<1> QED
  BY <1>1, <1>2, HandleInit, PTL DEF Spec

\* hid_close wakes the run loop of a thread that is still there.
THEOREM RunLoopStaysValid ==
  ASSUME ~SpuriousWakeups
  PROVE  Spec => []RunLoopValid
<1>1. HandleInv => RunLoopValid
  BY DEF HandleInv, ShutdownInv, RunLoopValid
<1>2. HandleInv /\ [Next]_vars => HandleInv'
  BY HandleStep
<1> QED
  BY <1>1, <1>2, HandleInit, PTL DEF Spec

\* hid_close never frees the device under its thread.
THEOREM FreedAfterThread ==
  ASSUME ~SpuriousWakeups
  PROVE  Spec => []NoUseAfterFree
<1>1. HandleInv => NoUseAfterFree
  BY DEF HandleInv, JoinedInv, NoUseAfterFree
<1>2. HandleInv /\ [Next]_vars => HandleInv'
  BY HandleStep
<1> QED
  BY <1>1, <1>2, HandleInit, PTL DEF Spec
-----------------------------------------------------------------------------
\* The list keeps the newest reports in order: the types it needs, and what
\* the three operations on it do.
ListInv == sent \in Int /\ reports \in Seq(Int) /\ ListKeepsNewest

Newest(s) == \A i \in 1..Len(s) : s[i] = sent - Len(s) + i

LEMMA TailNewest ==
  ASSUME NEW s \in Seq(Int), s # <<>>, sent \in Int, Newest(s)
  PROVE  Tail(s) \in Seq(Int) /\ Len(Tail(s)) = Len(s) - 1 /\ Newest(Tail(s))
<1>1. /\ Tail(s) \in Seq(Int) /\ Len(Tail(s)) = Len(s) - 1
      /\ \A i \in 1..Len(Tail(s)) : Tail(s)[i] = s[i + 1]
  BY HeadTailProperties
<1>2. Len(s) \in Nat
  BY LenProperties
<1> QED
  BY <1>1, <1>2 DEF Newest

LEMMA ListGrows ==
  ASSUME ListInv, sent' = sent + 1, reports' = Queued(sent')
  PROVE  ListInv'
<1> DEFINE kept == IF Len(reports) - 1 > Limit THEN Tail(reports) ELSE reports
<1>l. Limit \in Nat /\ Len(reports) \in Nat /\ DOMAIN reports = 1..Len(reports)
  BY HidAssumption, LenProperties DEF HidAssumption, ListInv
<1>n. Newest(reports) /\ Len(reports) <= Limit + 2 /\ reports \in Seq(Int) /\ sent \in Int
  BY <1>l DEF ListInv, ListKeepsNewest, Newest
<1>1. kept \in Seq(Int) /\ Len(kept) <= Limit + 1 /\ Newest(kept)
  <2>1. CASE Len(reports) - 1 > Limit
    <3>1. reports # <<>>
      BY <2>1, <1>l
    <3> QED
      BY <2>1, <3>1, <1>l, <1>n, TailNewest
  <2>2. CASE ~(Len(reports) - 1 > Limit)
    BY <2>2, <1>l, <1>n
  <2> QED
    BY <2>1, <2>2
<1>2. reports' = Append(kept, sent + 1)
  BY DEF Queued
<1> HIDE DEF kept
<1>3. /\ reports' \in Seq(Int) /\ Len(reports') = Len(kept) + 1
      /\ \A i \in 1..Len(kept) : reports'[i] = kept[i]
      /\ reports'[Len(kept) + 1] = sent + 1
  <2>1. sent + 1 \in Int
    BY <1>n
  <2> QED
    BY <1>1, <1>2, <2>1, AppendProperties
<1>4. Len(kept) \in Nat /\ DOMAIN reports' = 1..Len(reports')
  BY <1>1, <1>3, LenProperties
<1>5. ASSUME NEW i \in DOMAIN reports'
      PROVE  reports'[i] = sent' - Len(reports') + i
  <2>1. CASE i \in 1..Len(kept)
    <3>1. reports'[i] = kept[i] /\ kept[i] = sent - Len(kept) + i
      BY <1>1, <1>3, <2>1 DEF Newest
    <3>2. sent' - Len(reports') = sent - Len(kept)
      <4>1. ASSUME NEW n \in Int, NEW m \in Int PROVE (m + 1) - (n + 1) = m - n
        OBVIOUS
      <4>2. Len(kept) \in Int /\ Len(reports') = Len(kept) + 1
        BY <1>3, <1>4
      <4>3. sent \in Int
        BY <1>n
      <4>4. (sent + 1) - (Len(kept) + 1) = sent - Len(kept)
        BY <4>1, <4>2, <4>3
      <4> QED
        BY <4>2, <4>4
    <3> QED
      BY <3>1, <3>2
  <2>2. CASE i = Len(kept) + 1
    <3>1. reports'[i] = sent + 1
      BY <1>3, <2>2
    <3>2. i = Len(reports')
      BY <1>3, <2>2
    <3>3. ASSUME NEW n \in Nat, NEW m \in Int PROVE m = m - n + n
      OBVIOUS
    <3>4. sent + 1 \in Int /\ Len(reports') \in Nat
      BY <1>3, <1>4, <1>n
    <3>5. sent + 1 = (sent + 1) - Len(reports') + Len(reports')
      BY <3>3, <3>4
    <3> QED
      BY <3>1, <3>2, <3>5
  <2> QED
    BY <1>3, <1>4, <2>1, <2>2
<1> QED
  BY <1>1, <1>3, <1>4, <1>5, <1>n, <1>l DEF ListInv, ListKeepsNewest

LEMMA ListShrinks ==
  ASSUME ListInv, sent' = sent, reports # <<>>, reports' = Tail(reports)
  PROVE  ListInv'
<1>l. Limit \in Nat /\ Len(reports) \in Nat /\ DOMAIN reports = 1..Len(reports)
  BY HidAssumption, LenProperties DEF HidAssumption, ListInv
<1>n. Newest(reports) /\ Len(reports) <= Limit + 2 /\ reports \in Seq(Int) /\ sent \in Int
  BY <1>l DEF ListInv, ListKeepsNewest, Newest
<1>1. reports' \in Seq(Int) /\ Len(reports') = Len(reports) - 1 /\ Newest(reports')
  BY <1>n, TailNewest
<1>2. DOMAIN reports' = 1..Len(reports')
  BY <1>1, LenProperties
<1> QED
  BY <1>1, <1>2, <1>l, <1>n DEF ListInv, ListKeepsNewest, Newest

\* What a step does to the list: a report comes, a reader takes one, the
\* device is freed, or nothing.
ListGets == sent' = sent + 1 /\ reports' = Queued(sent')
ListGives == sent' = sent /\ reports # <<>> /\ reports' = Tail(reports)
ListFreed == sent' = sent /\ reports' = <<>> /\ clientPc = "freeing" /\ clientPc' = "closed"
ListRests == UNCHANGED list /\ (clientPc' = "closed" <=> clientPc = "closed")

LEMMA ListSteps ==
  ASSUME [Next]_vars
  PROVE  \/ ListGets /\ threadPc = "running" /\ clientPc' = clientPc
         \/ ListGives /\ clientPc' = clientPc
         \/ ListFreed
         \/ ListRests
<1> USE DEF ListGets, ListGives, ListFreed, ListRests
<1>1. CASE ReportCallback
  BY <1>1 DEF ReportCallback, Dispatching
<1>2. CASE FreeDevice
  BY <1>2 DEF FreeDevice, FreeReports
<1>3. ASSUME NEW r \in Readers, ReaderSteps(r)
      PROVE  (UNCHANGED list \/ ListGives) /\ clientPc' = clientPc
  <2>1. CASE Lock(r) \/ Sleep(r) \/ GiveUp(r)
    BY <2>1 DEF Lock, Sleep, GiveUp, ReaderSame
  <2>2. CASE Check(r)
    BY <2>2 DEF Check, Takes, ReaderSame, list
  <2>3. CASE Relock(r)
    BY <2>3 DEF Relock, Takes, ReaderSame, list
  <2> QED
    BY <1>3, <2>1, <2>2, <2>3 DEF ReaderSteps
<1>4. ASSUME NEW r \in Readers,
             Stirs(r) \/ TimesOut(r) \/ \E p \in Patience : ReadBegins(r, p)
      PROVE  ListRests
  <2>1. UNCHANGED list /\ ReaderSame
    BY <1>4, Zenon DEF Stirs, TimesOut, ReadBegins
  <2> QED BY <2>1 DEF ReaderSame
<1>5. CASE ClientOpens \/ Close \/ (ClientCloses /\ ~FreeDevice)
  <2>1. UNCHANGED list
    BY <1>5, Zenon DEF ClientOpens, Close, ClientCloses, ClientGoes,
         TestDisconnected, Deregister, RaiseShutdown, SignalSource, WakeRunLoop,
         MeetThread, Join, OsClose
  <2>2. clientPc # "closed" /\ clientPc' # "closed"
    BY <1>5 DEF ClientOpens, Close, ClientCloses, ClientGoes,
         TestDisconnected, Deregister, RaiseShutdown, SignalSource, WakeRunLoop,
         MeetThread, Join, OsClose
  <2> QED BY <2>1, <2>2
<1>6. CASE ThreadSteps \/ RunLoopTimesOut
  <2>1. UNCHANGED list /\ clientPc' = clientPc
    BY <1>6, Zenon DEF ThreadSteps, RunLoopTimesOut, ThreadGoes, Schedule,
         StoreRunLoop, ThreadStarts, TestFlags, RunLoopStops, Broadcast, ThreadEnds
  <2> QED BY <2>1
<1>7. CASE SourceFires \/ RemovalCallback \/ Unplug \/ UNCHANGED vars
  <2>1. UNCHANGED list /\ clientPc' = clientPc
    BY <1>7, Zenon DEF SourceFires, RemovalCallback, Unplug, vars
  <2> QED BY <2>1
<1> QED
  BY <1>1, <1>2, <1>3, <1>4, <1>5, <1>6, <1>7 DEF Next, Callbacks

LEMMA ListInit == Init => ListInv
BY HidAssumption DEF HidAssumption, Init, ListInv, ListKeepsNewest

LEMMA ListStep == ListInv /\ [Next]_vars => ListInv'
<1> SUFFICES ASSUME ListInv, [Next]_vars PROVE ListInv'
  OBVIOUS
<1>1. CASE ListGets
  BY <1>1, ListGrows DEF ListGets
<1>2. CASE ListGives
  BY <1>2, ListShrinks DEF ListGives
<1>3. CASE ListFreed
  BY <1>3, HidAssumption DEF HidAssumption, ListFreed, ListInv, ListKeepsNewest
<1>4. CASE ListRests
  BY <1>4 DEF ListRests, list, ListInv, ListKeepsNewest
<1> QED
  BY <1>1, <1>2, <1>3, <1>4, ListSteps

\* hid_read_timeout gets the reports in order, whatever was shed, for every
\* limit of the list.
THEOREM ListIsNewest == Spec => []ListKeepsNewest
<1>1. ListInv => ListKeepsNewest
  BY DEF ListInv
<1> QED
  BY <1>1, ListInit, ListStep, PTL DEF Spec

\* Once closed the list is empty and stays so: its thread was joined, so that
\* no report comes any more.
FreedInv == JoinedInv /\ (clientPc = "closed" => reports = <<>>)

LEMMA FreedStep == FreedInv /\ [Next]_vars => FreedInv'
<1> SUFFICES ASSUME FreedInv, [Next]_vars PROVE FreedInv'
  OBVIOUS
<1>1. JoinedInv'
  <2> USE DEF FreedInv, JoinedInv, ClientGoes, ThreadGoes
  <2>1. CASE ClientOpens \/ Close
    BY <2>1 DEF ClientOpens, Close
  <2>2. CASE ClientCloses
    BY <2>2 DEF ClientCloses, TestDisconnected, Deregister, RaiseShutdown,
         SignalSource, WakeRunLoop, MeetThread, Join, OsClose, FreeDevice
  <2>3. CASE ThreadSteps \/ RunLoopTimesOut
    BY <2>3 DEF ThreadSteps, RunLoopTimesOut, Schedule, StoreRunLoop, ThreadStarts,
         TestFlags, RunLoopStops, Broadcast, ThreadEnds
  <2>4. CASE Callbacks \/ Unplug \/ UNCHANGED vars
    BY <2>4 DEF Callbacks, SourceFires, RemovalCallback, ReportCallback, Unplug, vars
  <2>5. ASSUME NEW r \in Readers,
               \/ ReaderSteps(r) \/ Stirs(r) \/ TimesOut(r)
               \/ \E p \in Patience : ReadBegins(r, p)
        PROVE  JoinedInv'
    <3>1. ReaderSame
      BY <2>5, Zenon DEF ReaderSteps, Stirs, TimesOut, ReadBegins, Lock, Check,
                          Sleep, Relock, GiveUp
    <3> QED BY <3>1 DEF ReaderSame
  <2> QED BY <2>1, <2>2, <2>3, <2>4, <2>5 DEF Next
<1>2. clientPc' = "closed" => reports' = <<>>
  BY ListSteps DEF FreedInv, JoinedInv, ListGives, ListFreed, ListRests, list
<1> QED BY <1>1, <1>2 DEF FreedInv

\* The list as the queue it is meant to be: it holds up to Limit + 2 reports.
Queue == INSTANCE ReportQueue
           WITH Kept <- Limit + 2, oldest <- sent - Len(reports) + 1, newest <- sent,
                open <- clientPc # "closed"

LEMMA QueueStep ==
  ASSUME ListInv, FreedInv, [Next]_vars
  PROVE  [Queue!Next]_Queue!vars
<1> DEFINE n == Len(reports)
<1>l. n \in Nat /\ Limit \in Nat /\ n <= Limit + 2 /\ sent \in Int /\ reports \in Seq(Int)
  BY HidAssumption, LenProperties DEF HidAssumption, ListInv, ListKeepsNewest
<1>w. Queue!Waiting = n
  BY <1>l DEF Queue!Waiting
<1>1. CASE ListGets /\ threadPc = "running" /\ clientPc' = clientPc
  <2> USE DEF ListGets
  <2>o. clientPc # "closed" /\ clientPc' # "closed"
    BY <1>1 DEF FreedInv, JoinedInv
  <2>1. sent' \in Int
    BY <1>l, <1>1
  <2>2. CASE n - 1 > Limit
    <3>1. n = Limit + 2 /\ reports # <<>>
      BY <1>l, <2>2
    <3>2. Tail(reports) \in Seq(Int) /\ Len(Tail(reports)) = n - 1
      BY <1>l, <3>1, HeadTailProperties
    <3>3. Len(reports') = n - 1 + 1
      BY <1>1, <2>1, <2>2, <3>2, AppendProperties DEF Queued
    <3>4. sent' - Len(reports') + 1 = (sent - n + 1) + 1
      BY <1>l, <1>1, <3>3
    <3> QED
      BY <1>1, <1>w, <2>o, <3>1, <3>4 DEF Queue!Next, Queue!Arrive
  <2>3. CASE ~(n - 1 > Limit)
    <3>1. n # Limit + 2
      BY <1>l, <2>3
    <3>2. Len(reports') = n + 1
      BY <1>l, <1>1, <2>1, <2>3, AppendProperties DEF Queued
    <3>3. sent' - Len(reports') + 1 = sent - n + 1
      BY <1>l, <1>1, <3>2
    <3> QED
      BY <1>1, <1>w, <2>o, <3>1, <3>3 DEF Queue!Next, Queue!Arrive
  <2> QED
    BY <2>2, <2>3
<1>2. CASE ListGives /\ clientPc' = clientPc
  <2> USE DEF ListGives
  <2>o. clientPc # "closed" /\ clientPc' # "closed"
    BY <1>2 DEF FreedInv
  <2>1. Len(reports') = n - 1 /\ n > 0
    BY <1>l, <1>2, HeadTailProperties, EmptySeq
  <2>2. sent' - Len(reports') + 1 = (sent - n + 1) + 1
    BY <1>l, <1>2, <2>1
  <2> QED
    BY <1>2, <1>w, <2>o, <2>1, <2>2 DEF Queue!Next, Queue!Take
<1>3. CASE ListFreed
  <2> USE DEF ListFreed
  <2>1. Len(reports') = 0
    BY <1>3, EmptySeq
  <2>2. sent' - Len(reports') + 1 = sent + 1
    BY <1>l, <1>3, <2>1
  <2> QED
    BY <1>3, <2>2 DEF Queue!Next, Queue!Close
<1>4. CASE ListRests
  BY <1>4 DEF ListRests, list, Queue!vars
<1> QED
  BY <1>1, <1>2, <1>3, <1>4, ListSteps

\* The list implements ReportQueue: hid_read_timeout gets each report once and
\* in order; one is lost only when Limit + 2 newer ones wait behind it or when
\* hid_close frees the list, and after that nothing comes and nothing is read,
\* however readers, the callback and hid_close interleave.
THEOREM ImplementsQueue == Spec => Queue!Spec
<1>1. Init => Queue!Init
  <2> SUFFICES ASSUME Init PROVE Queue!Init
    OBVIOUS
  <2>1. sent = 0 /\ Len(reports) = 0 /\ clientPc # "closed"
    BY EmptySeq DEF Init
  <2> QED
    BY <2>1 DEF Queue!Init
<1>2. ListInv /\ FreedInv /\ [Next]_vars => [Queue!Next]_Queue!vars
  BY QueueStep
<1>3. Init => FreedInv
  BY DEF Init, FreedInv, JoinedInv
<1> QED
  BY <1>1, <1>2, <1>3, ListInit, ListStep, FreedStep, PTL DEF Spec, Queue!Spec
-----------------------------------------------------------------------------
\* Types of where the threads stand, of their flags and of what they share.
ControlTypes ==
  /\ clientPc \in ClientPcs /\ threadPc \in ThreadPcs
  /\ source \in BOOLEAN /\ runLoop \in BOOLEAN
  /\ signalled \in BOOLEAN /\ stopped \in BOOLEAN
  /\ registered \in BOOLEAN /\ plugged \in BOOLEAN
  /\ disconnected \in BOOLEAN /\ shutdownThread \in BOOLEAN

BarrierType == barrier \in [{"open", "shutdown"} -> [count : 0..1, tripped : BOOLEAN]]

LEMMA OnlyControl ==
  ASSUME TypeOK, ControlTypes', UNCHANGED <<barrier, list, readers>>
  PROVE  TypeOK'
<1>1. /\ barrier' = barrier /\ sent' = sent /\ reports' = reports
      /\ mutex' = mutex /\ readerPc' = readerPc /\ patience' = patience
  BY DEF list, readers
<1> QED BY <1>1 DEF TypeOK, ControlTypes

LEMMA ArrivingKeepsType ==
  ASSUME NEW b \in {"open", "shutdown"}, BarrierType,
         ArriveFirst(b) \/ ArriveSecond(b) \/ LeaveBarrier(b)
  PROVE  BarrierType'
<1>1. [count |-> 0, tripped |-> TRUE] \in [count : 0..1, tripped : BOOLEAN]
  OBVIOUS
<1>2. [barrier[b] EXCEPT !.count = 1] \in [count : 0..1, tripped : BOOLEAN]
  BY DEF BarrierType
<1> QED BY <1>1, <1>2 DEF BarrierType, ArriveFirst, ArriveSecond, LeaveBarrier

LEMMA QueuedType ==
  ASSUME NEW S, reports \in Seq(S), NEW n \in S
  PROVE  Queued(n) \in Seq(S)
<1>1. CASE Len(reports) - 1 > Limit
  <2>1. reports # <<>>
    <3>1. Limit \in Nat
      BY HidAssumption DEF HidAssumption
    <3> QED BY <1>1, <3>1
  <2>2. Tail(reports) \in Seq(S)
    BY <2>1, HeadTailProperties
  <2> QED BY <1>1, <2>2, AppendProperties DEF Queued
<1>2. CASE ~(Len(reports) - 1 > Limit)
  BY <1>2, AppendProperties DEF Queued
<1> QED BY <1>1, <1>2

LEMMA SignalType ==
  ASSUME readerPc \in [Readers -> ReaderPcs], SignalOne
  PROVE  readerPc' \in [Readers -> ReaderPcs]
BY DEF SignalOne, ReaderPcs, Waiters

LEMMA TypeStep ==
  ASSUME TypeOK, [Next]_vars
  PROVE  TypeOK'
<1> USE DEF ClientGoes, ThreadGoes, loop, flags, device, list, readers
<1>b. BarrierType
  BY DEF TypeOK, BarrierType
<1>c. ControlTypes
  BY DEF TypeOK, ControlTypes
<1>1. CASE ClientOpens
  <2>1. BarrierType'
    BY <1>1, <1>b, ArrivingKeepsType DEF ClientOpens
  <2> QED BY <1>1, <2>1 DEF TypeOK, BarrierType, ClientOpens
<1>2. CASE ThreadStarts
  <2>1. BarrierType'
    BY <1>2, <1>b, ArrivingKeepsType DEF ThreadStarts
  <2> QED BY <1>2, <2>1 DEF TypeOK, BarrierType, ThreadStarts
<1>3. CASE ThreadEnds
  <2>1. BarrierType'
    BY <1>3, <1>b, ArrivingKeepsType DEF ThreadEnds
  <2> QED BY <1>3, <2>1 DEF TypeOK, BarrierType, ThreadEnds
<1>4. CASE MeetThread
  <2>1. BarrierType'
    BY <1>4, <1>b, ArrivingKeepsType DEF MeetThread
  <2> QED BY <1>4, <2>1 DEF TypeOK, BarrierType, MeetThread
<1>5. CASE Schedule \/ StoreRunLoop \/ TestFlags \/ RunLoopStops \/ RunLoopTimesOut
  <2>1. ControlTypes'
    BY <1>5, <1>c DEF ControlTypes, Schedule, StoreRunLoop, TestFlags, RunLoopStops, RunLoopTimesOut
  <2>2. UNCHANGED <<barrier, list, readers>>
    BY <1>5, Zenon DEF Schedule, StoreRunLoop, TestFlags, RunLoopStops, RunLoopTimesOut
  <2> QED BY <2>1, <2>2, OnlyControl
<1>6. CASE Broadcast
  BY <1>6 DEF TypeOK, Broadcast, ReaderPcs
<1>7. CASE Close \/ TestDisconnected \/ Deregister \/ RaiseShutdown
  <2>1. ControlTypes'
    <3>1. CASE Close
      BY <1>c, <3>1 DEF ControlTypes, Close
    <3>2. CASE TestDisconnected
      BY <1>c, <3>2 DEF ControlTypes, TestDisconnected
    <3>3. CASE Deregister
      BY <1>c, <3>3 DEF ControlTypes, Deregister
    <3>4. CASE RaiseShutdown
      BY <1>c, <3>4 DEF ControlTypes, RaiseShutdown
    <3> QED BY <1>7, <3>1, <3>2, <3>3, <3>4
  <2>2. UNCHANGED <<barrier, list, readers>>
    BY <1>7, Zenon DEF Close, TestDisconnected, Deregister, RaiseShutdown
  <2> QED BY <2>1, <2>2, OnlyControl
<1>8. CASE SignalSource \/ WakeRunLoop \/ Join \/ OsClose
  <2>1. ControlTypes'
    BY <1>8, <1>c DEF ControlTypes, SignalSource, WakeRunLoop, Join, OsClose
  <2>2. UNCHANGED <<barrier, list, readers>>
    BY <1>8, Zenon DEF SignalSource, WakeRunLoop, Join, OsClose
  <2> QED BY <2>1, <2>2, OnlyControl
<1>9. CASE FreeDevice
  BY <1>9 DEF TypeOK, FreeDevice, FreeReports
<1>10. CASE SourceFires \/ RemovalCallback \/ Unplug
  <2>1. ControlTypes'
    <3>1. CASE SourceFires
      <4>1. /\ clientPc' = clientPc /\ threadPc' = threadPc
            /\ source' = source /\ runLoop' = runLoop
            /\ registered' = registered /\ plugged' = plugged
            /\ disconnected' = disconnected /\ shutdownThread' = shutdownThread
        BY <3>1 DEF SourceFires
      <4>2. signalled' \in BOOLEAN /\ stopped' \in BOOLEAN
        BY <3>1 DEF SourceFires
      <4> QED BY <1>c, <4>1, <4>2 DEF ControlTypes
    <3>2. CASE RemovalCallback
      <4>1. /\ clientPc' = clientPc /\ threadPc' = threadPc
            /\ source' = source /\ runLoop' = runLoop /\ signalled' = signalled
            /\ registered' = registered /\ plugged' = plugged
            /\ shutdownThread' = shutdownThread
        BY <3>2 DEF RemovalCallback
      <4>2. disconnected' \in BOOLEAN /\ stopped' \in BOOLEAN
        BY <3>2 DEF RemovalCallback
      <4> QED BY <1>c, <4>1, <4>2 DEF ControlTypes
    <3>3. CASE Unplug
      <4>1. /\ clientPc' = clientPc /\ threadPc' = threadPc
            /\ source' = source /\ runLoop' = runLoop
            /\ signalled' = signalled /\ stopped' = stopped
            /\ registered' = registered /\ plugged' \in BOOLEAN
            /\ disconnected' = disconnected /\ shutdownThread' = shutdownThread
        BY <3>3 DEF Unplug
      <4> QED BY <1>c, <4>1 DEF ControlTypes
    <3> QED BY <1>10, <3>1, <3>2, <3>3
  <2>2. UNCHANGED <<barrier, list, readers>>
    BY <1>10, Zenon DEF SourceFires, RemovalCallback, Unplug
  <2> QED BY <2>1, <2>2, OnlyControl
<1>11. CASE ReportCallback
  <2>1. sent' \in 0..MaxReports /\ sent' \in 1..MaxReports
    BY <1>11, HidAssumption DEF HidAssumption, TypeOK, ReportCallback
  <2>2. reports' \in Seq(1..MaxReports)
    BY <1>11, <2>1, QueuedType DEF TypeOK, ReportCallback
  <2>3. readerPc' \in [Readers -> ReaderPcs]
    BY <1>11, SignalType DEF TypeOK, ReportCallback, WakeForReport
  <2> QED BY <1>11, <2>1, <2>2, <2>3 DEF TypeOK, ReportCallback
<1>12. ASSUME NEW r \in Readers, NEW p \in Patience, ReadBegins(r, p) PROVE TypeOK'
  BY <1>12 DEF TypeOK, ReadBegins, ReaderSame, ReaderPcs
<1>13. ASSUME NEW r \in Readers,
              Lock(r) \/ Sleep(r) \/ GiveUp(r) \/ Stirs(r) \/ TimesOut(r)
       PROVE  TypeOK'
  BY <1>13 DEF TypeOK, Lock, Sleep, GiveUp, Stirs, TimesOut, Returns, ReaderSame,
               ReaderPcs
<1>14. ASSUME NEW r \in Readers, Check(r) \/ Relock(r) PROVE TypeOK'
  <2>1. reports' \in Seq(1..MaxReports) /\ sent' = sent
    <3>1. CASE UNCHANGED list
      BY <3>1 DEF TypeOK
    <3>2. CASE Takes(r) /\ reports # <<>>
      BY <3>2, HeadTailProperties DEF TypeOK, Takes
    <3> QED BY <1>14, <3>1, <3>2 DEF Check, Relock
  <2> QED BY <1>14, <2>1
        DEF TypeOK, Check, Relock, Takes, Returns, ReaderSame, ReaderPcs
<1>15. CASE UNCHANGED vars
  BY <1>15 DEF TypeOK, vars
<1> QED
  BY <1>1, <1>2, <1>3, <1>4, <1>5, <1>6, <1>7, <1>8, <1>9, <1>10, <1>11, <1>12,
     <1>13, <1>14, <1>15
     DEF Next, ClientCloses, ThreadSteps, Callbacks, ReaderSteps

\* Every place a thread can stand in, and a list of reports that were sent.
THEOREM DeviceTypes == Spec => []TypeOK
<1>1. Init => TypeOK
  <2> SUFFICES ASSUME Init PROVE TypeOK
    OBVIOUS
  <2>1. ControlTypes
    BY DEF Init, ControlTypes
  <2>2. sent \in 0..MaxReports /\ reports \in Seq(1..MaxReports)
    BY HidAssumption DEF HidAssumption, Init
  <2>3. barrier \in [{"open", "shutdown"} -> [count : 0..1, tripped : BOOLEAN]]
    BY DEF Init
  <2> QED BY <2>1, <2>2, <2>3 DEF Init, TypeOK, ControlTypes, ReaderPcs, Patience
<1>2. TypeOK /\ [Next]_vars => TypeOK'
  BY TypeStep
<1> QED BY <1>1, <1>2, PTL DEF Spec
-----------------------------------------------------------------------------
(***************************************************************************)
(* No reader sleeps through a report.  A reader that is about to sleep     *)
(* still holds the mutex under which it found the list empty, and while    *)
(* anyone waits, every queued report has a reader of its own that was      *)
(* woken and did not run yet: hid_report_callback signals once per report, *)
(* and a woken reader takes one report at most.                            *)
(***************************************************************************)
Woken == {r \in Readers : readerPc[r] = "woken"}
Stops == disconnected \/ shutdownThread

HolderInv == \A r \in Readers : readerPc[r] \in {"checking", "sleepy"} => mutex = r
SleepyInv == \A r \in Readers : readerPc[r] = "sleepy" => reports = <<>>
CountInv == Waiters # {} => Stops \/ Len(reports) <= Cardinality(Woken)

WakeInv == HolderInv /\ SleepyInv /\ CountInv

PcType == readerPc \in [Readers -> ReaderPcs]
ListType == reports \in Seq(1..MaxReports)

LEMMA WokenCounts ==
  /\ IsFiniteSet(Woken) /\ Cardinality(Woken) \in Nat
  /\ Cardinality(Woken) = 0 => Woken = {}
<1>1. IsFiniteSet(Woken)
  BY HidAssumption, FS_Subset DEF HidAssumption, Woken
<1> QED BY <1>1, FS_CardinalityType, FS_EmptySet

\* One reader moves: who waits, and how many are woken.
LEMMA OneMoves ==
  ASSUME PcType, NEW r \in Readers, NEW pc \in ReaderPcs,
         readerPc' = [readerPc EXCEPT ![r] = pc]
  PROVE  /\ pc # "waiting" => Waiters' = Waiters \ {r}
         /\ pc # "woken" /\ readerPc[r] # "woken" =>
              Cardinality(Woken') = Cardinality(Woken)
         /\ pc = "woken" /\ readerPc[r] # "woken" =>
              Cardinality(Woken') = Cardinality(Woken) + 1
         /\ pc # "woken" /\ readerPc[r] = "woken" =>
              Cardinality(Woken') = Cardinality(Woken) - 1
         /\ \A q \in Readers : readerPc'[q] = IF q = r THEN pc ELSE readerPc[q]
<1>1. \A q \in Readers : readerPc'[q] = IF q = r THEN pc ELSE readerPc[q]
  BY DEF PcType
<1>2. pc # "waiting" => Waiters' = Waiters \ {r}
  BY <1>1 DEF Waiters
<1>3. r \in Woken <=> readerPc[r] = "woken"
  BY DEF Woken
<1>4. pc = "woken" => Woken' = Woken \cup {r}
  BY <1>1 DEF Woken
<1>5. pc # "woken" => Woken' = Woken \ {r}
  BY <1>1 DEF Woken
<1>6. r \notin Woken => Woken \ {r} = Woken
  OBVIOUS
<1>7. IsFiniteSet(Woken)
  BY WokenCounts
<1>8. /\ Cardinality(Woken \cup {r}) =
           IF r \in Woken THEN Cardinality(Woken) ELSE Cardinality(Woken) + 1
      /\ Cardinality(Woken \ {r}) =
           IF r \in Woken THEN Cardinality(Woken) - 1 ELSE Cardinality(Woken)
  BY <1>7, FS_AddElement, FS_RemoveElement
<1> QED BY <1>1, <1>2, <1>3, <1>4, <1>5, <1>8

\* Steps of the others: they may stop the thread, never undo that.
LEMMA ReadersRest ==
  ASSUME WakeInv, UNCHANGED <<list, readers>>, Stops => Stops'
  PROVE  WakeInv'
<1>1. Waiters' = Waiters /\ Woken' = Woken
  BY DEF Waiters, Woken, readers
<1> QED BY <1>1 DEF WakeInv, HolderInv, SleepyInv, CountInv, list, readers

LEMMA ReportWakes ==
  ASSUME TypeOK, WakeInv, ReportCallback
  PROVE  WakeInv'
<1>p. PcType /\ ListType /\ mutex' = mutex /\ mutex = Free /\ Stops' = Stops
  BY DEF TypeOK, PcType, ListType, ReportCallback, Stops, flags
<1>f. \A r \in Readers : readerPc[r] \notin {"checking", "sleepy"}
  BY <1>p, HidAssumption DEF HidAssumption, WakeInv, HolderInv
<1>l. Len(reports') <= Len(reports) + 1 /\ Len(reports) \in Nat /\ Len(reports') \in Nat
  <2>1. sent' \in 1..MaxReports
    BY HidAssumption DEF HidAssumption, TypeOK, ReportCallback
  <2>2. reports' = Queued(sent') /\ reports \in Seq(1..MaxReports)
    BY <1>p DEF ReportCallback, ListType
  <2>3. Len(reports) \in Nat
    BY <2>2, LenProperties
  <2>4. CASE Len(reports) - 1 > Limit
    <3>1. reports # <<>>
      BY <2>4, HidAssumption DEF HidAssumption
    <3>2. Tail(reports) \in Seq(1..MaxReports) /\ Len(Tail(reports)) = Len(reports) - 1
      BY <2>2, <3>1, HeadTailProperties
    <3>3. Len(reports') = (Len(reports) - 1) + 1
      BY <2>1, <2>2, <2>4, <3>2, AppendProperties DEF Queued
    <3> QED BY <2>3, <3>3
  <2>5. CASE ~(Len(reports) - 1 > Limit)
    <3>1. Len(reports') = Len(reports) + 1
      BY <2>1, <2>2, <2>5, AppendProperties DEF Queued
    <3> QED BY <2>3, <3>1
  <2> QED BY <2>4, <2>5
<1>1. CASE Waiters = {}
  <2>1. readerPc' = readerPc
    BY <1>1 DEF ReportCallback, WakeForReport, SignalOne
  <2>2. Waiters' = {}
    BY <1>1, <2>1 DEF Waiters
  <2> QED BY <1>f, <2>1, <2>2 DEF WakeInv, HolderInv, SleepyInv, CountInv
<1>2. CASE Waiters # {}
  <2>1. PICK r \in Readers :
          readerPc[r] = "waiting" /\ readerPc' = [readerPc EXCEPT ![r] = "woken"]
    BY <1>2 DEF ReportCallback, WakeForReport, SignalOne, Waiters
  <2>2. /\ Cardinality(Woken') = Cardinality(Woken) + 1
        /\ \A q \in Readers : readerPc'[q] = IF q = r THEN "woken" ELSE readerPc[q]
    BY <1>p, <2>1, OneMoves DEF ReaderPcs
  <2>3. Cardinality(Woken) \in Nat
    BY WokenCounts
  <2>4. CountInv'
    BY <1>p, <1>l, <1>2, <2>2, <2>3 DEF WakeInv, CountInv
  <2> QED BY <1>f, <2>2, <2>4 DEF WakeInv, HolderInv, SleepyInv
<1> QED BY <1>1, <1>2

\* A reader whose step leaves the list alone, and one that takes a report.
LEMMA ReaderMoves ==
  ASSUME PcType, ListType, WakeInv,
         NEW r \in Readers, NEW pc \in ReaderPcs \ {"waiting"},
         readerPc' = [readerPc EXCEPT ![r] = pc],
         Stops' = Stops, reports' = reports,
         mutex' = mutex \/ mutex \in {Free, r},
         pc \in {"checking", "sleepy"} => mutex' = r,
         pc = "sleepy" => reports = <<>>,
         readerPc[r] = "woken" /\ pc # "woken" => Stops \/ reports = <<>>
  PROVE  WakeInv'
<1>1. /\ \A q \in Readers : readerPc'[q] = IF q = r THEN pc ELSE readerPc[q]
      /\ Waiters' = Waiters \ {r}
  BY OneMoves
<1>2. HolderInv'
  <2> SUFFICES ASSUME NEW q \in Readers, readerPc'[q] \in {"checking", "sleepy"}
               PROVE  mutex' = q
    BY DEF HolderInv
  <2>1. CASE q = r
    BY <1>1, <2>1
  <2>2. CASE q # r
    <3>1. mutex = q
      BY <1>1, <2>2 DEF WakeInv, HolderInv
    <3> QED BY <2>2, <3>1, HidAssumption DEF HidAssumption
  <2> QED BY <2>1, <2>2
<1>3. SleepyInv'
  BY <1>1 DEF WakeInv, SleepyInv
<1>4. CountInv'
  <2> SUFFICES ASSUME Waiters' # {}, ~Stops
               PROVE  Len(reports) <= Cardinality(Woken')
    BY DEF CountInv
  <2>1. Len(reports) <= Cardinality(Woken)
    BY <1>1 DEF WakeInv, CountInv
  <2>2. CASE readerPc[r] = "woken" /\ pc # "woken"
    <3>1. Len(reports) = 0
      BY <2>2
    <3>2. Cardinality(Woken') = Cardinality(Woken) - 1 /\ Cardinality(Woken) \in Nat
      BY <2>2, OneMoves, WokenCounts
    <3>3. Cardinality(Woken) # 0
      BY <2>2, WokenCounts DEF Woken
    <3> QED BY <3>1, <3>2, <3>3
  <2>3. CASE readerPc[r] = "woken" /\ pc = "woken"
    <3>1. Woken' = Woken
      BY <1>1, <2>3 DEF Woken
    <3> QED BY <2>1, <3>1
  <2>4. CASE readerPc[r] # "woken" /\ pc # "woken"
    BY <2>1, <2>4, OneMoves
  <2>5. CASE readerPc[r] # "woken" /\ pc = "woken"
    <3>1. Cardinality(Woken') = Cardinality(Woken) + 1 /\ Cardinality(Woken) \in Nat
      BY <2>5, OneMoves, WokenCounts
    <3>2. Len(reports) \in Nat
      BY LenProperties DEF ListType
    <3> QED BY <2>1, <3>1, <3>2
  <2> QED BY <2>2, <2>3, <2>4, <2>5
<1> QED BY <1>2, <1>3, <1>4 DEF WakeInv

LEMMA ReaderTakes ==
  ASSUME PcType, ListType, WakeInv, NEW r \in Readers, Takes(r), reports # <<>>,
         Stops' = Stops, mutex \in {Free, r}
  PROVE  WakeInv'
<1>1. /\ \A q \in Readers : readerPc'[q] = IF q = r THEN "idle" ELSE readerPc[q]
      /\ Waiters' = Waiters \ {r}
      /\ readerPc[r] = "woken" => Cardinality(Woken') = Cardinality(Woken) - 1
      /\ readerPc[r] # "woken" => Cardinality(Woken') = Cardinality(Woken)
  BY OneMoves DEF Takes, Returns, ReaderPcs
<1>2. \A q \in Readers : readerPc'[q] \notin {"checking", "sleepy"}
  BY <1>1, HidAssumption DEF HidAssumption, WakeInv, HolderInv
<1>3. Len(reports') = Len(reports) - 1 /\ Len(reports) \in Nat
  BY HeadTailProperties, LenProperties DEF ListType, Takes
<1>4. CountInv'
  <2> SUFFICES ASSUME Waiters' # {}, ~Stops
               PROVE  Len(reports') <= Cardinality(Woken')
    BY DEF CountInv
  <2>1. Len(reports) <= Cardinality(Woken) /\ Cardinality(Woken) \in Nat
    BY <1>1, WokenCounts DEF WakeInv, CountInv
  <2> QED BY <1>1, <1>3, <2>1
<1> QED BY <1>2, <1>4 DEF WakeInv, HolderInv, SleepyInv

LEMMA ReaderStepWakes ==
  ASSUME TypeOK, WakeInv, NEW r \in Readers,
         ReaderSteps(r) \/ Stirs(r) \/ TimesOut(r) \/ \E p \in Patience : ReadBegins(r, p)
  PROVE  WakeInv'
<1>p. PcType /\ ListType /\ Cardinality(Woken) \in Nat
  BY WokenCounts DEF TypeOK, PcType, ListType
<1>s. Stops' = Stops
  <2>1. ReaderSame
    BY Zenon DEF ReaderSteps, Stirs, TimesOut, ReadBegins, Lock, Check, Sleep,
                 Relock, GiveUp
  <2> QED BY <2>1 DEF ReaderSame, flags, Stops
<1> USE <1>p, <1>s DEF list
<1>1. ASSUME NEW p \in Patience, ReadBegins(r, p) PROVE WakeInv'
  <2>1. /\ readerPc[r] = "idle" /\ readerPc' = [readerPc EXCEPT ![r] = "locking"]
        /\ reports' = reports /\ mutex' = mutex
    BY <1>1 DEF ReadBegins
  <2> QED BY <2>1, ReaderMoves DEF ReaderPcs
<1>2. CASE Lock(r)
  <2>1. /\ readerPc[r] = "locking" /\ readerPc' = [readerPc EXCEPT ![r] = "checking"]
        /\ reports' = reports /\ mutex = Free /\ mutex' = r
    BY <1>2 DEF Lock
  <2> QED BY <2>1, ReaderMoves DEF ReaderPcs
<1>3. CASE Check(r)
  <2>1. readerPc[r] = "checking" /\ mutex = r
    BY <1>3 DEF Check, WakeInv, HolderInv
  <2>2. CASE reports # <<>> /\ Takes(r)
    BY <2>1, <2>2, ReaderTakes
  <2>3. CASE UNCHANGED list /\ Returns(r)
    BY <2>1, <2>3, ReaderMoves DEF Returns, ReaderPcs
  <2>4. CASE /\ reports = <<>> /\ UNCHANGED list /\ UNCHANGED mutex
             /\ readerPc' = [readerPc EXCEPT ![r] = "sleepy"]
    BY <2>1, <2>4, ReaderMoves DEF ReaderPcs
  <2> QED BY <1>3, <2>2, <2>3, <2>4 DEF Check
<1>4. CASE Sleep(r)
  <2>1. reports' = <<>> /\ mutex = r /\ readerPc[r] = "sleepy"
    BY <1>4 DEF Sleep, WakeInv, HolderInv, SleepyInv
  <2>2. Len(reports') = 0
    BY <2>1
  <2>3. /\ \A q \in Readers : readerPc'[q] = IF q = r THEN "waiting" ELSE readerPc[q]
        /\ Cardinality(Woken') = Cardinality(Woken)
    BY <1>4, <2>1, OneMoves DEF Sleep, ReaderPcs
  <2>4. CountInv'
    BY <2>2, <2>3 DEF CountInv
  <2>5. \A q \in Readers : readerPc'[q] \notin {"checking", "sleepy"}
    BY <2>1, <2>3 DEF WakeInv, HolderInv
  <2> QED BY <2>4, <2>5 DEF WakeInv, HolderInv, SleepyInv
<1>5. CASE Stirs(r)
  <2>1. /\ readerPc[r] = "waiting" /\ readerPc' = [readerPc EXCEPT ![r] = "woken"]
        /\ reports' = reports /\ mutex' = mutex
    BY <1>5 DEF Stirs
  <2> QED BY <2>1, ReaderMoves DEF ReaderPcs
<1>6. CASE TimesOut(r)
  <2>1. /\ readerPc[r] = "waiting" /\ readerPc' = [readerPc EXCEPT ![r] = "late"]
        /\ reports' = reports /\ mutex' = mutex
    BY <1>6 DEF TimesOut
  <2> QED BY <2>1, ReaderMoves DEF ReaderPcs
<1>7. CASE Relock(r)
  <2>1. readerPc[r] = "woken" /\ mutex = Free
    BY <1>7 DEF Relock
  <2>2. CASE Stops /\ Returns(r) /\ UNCHANGED list
    BY <2>1, <2>2, ReaderMoves DEF Returns, ReaderPcs
  <2>3. CASE reports # <<>> /\ Takes(r)
    BY <2>1, <2>3, ReaderTakes
  <2>4. CASE /\ reports = <<>> /\ UNCHANGED list /\ mutex' = r
             /\ readerPc' = [readerPc EXCEPT ![r] = "sleepy"]
    BY <2>1, <2>4, ReaderMoves DEF ReaderPcs
  <2> QED BY <1>7, <2>2, <2>3, <2>4 DEF Relock, Stops
<1>8. CASE GiveUp(r)
  <2>1. /\ readerPc[r] = "late" /\ Returns(r)
        /\ reports' = reports /\ mutex = Free
    BY <1>8 DEF GiveUp
  <2> QED BY <2>1, ReaderMoves DEF Returns, ReaderPcs
<1> QED BY <1>1, <1>2, <1>3, <1>4, <1>5, <1>6, <1>7, <1>8 DEF ReaderSteps

LEMMA WakeStep ==
  ASSUME TypeOK, WakeInv, [Next]_vars
  PROVE  WakeInv'
<1> USE DEF ClientGoes, ThreadGoes
<1>1. CASE ReportCallback
  BY <1>1, ReportWakes
<1>2. ASSUME NEW r \in Readers,
             ReaderSteps(r) \/ Stirs(r) \/ TimesOut(r) \/ \E p \in Patience : ReadBegins(r, p)
      PROVE  WakeInv'
  BY <1>2, ReaderStepWakes
<1>3. CASE Broadcast
  <2>1. Waiters' = {}
    BY <1>3 DEF Broadcast, Waiters
  <2>2. \A r \in Readers : readerPc[r] \notin {"checking", "sleepy"}
    BY <1>3, HidAssumption DEF HidAssumption, Broadcast, WakeInv, HolderInv
  <2> QED BY <1>3, <2>1, <2>2 DEF Broadcast, WakeInv, HolderInv, SleepyInv, CountInv
<1>4. CASE FreeDevice
  <2>1. reports' = <<>> /\ UNCHANGED readers
    BY <1>4 DEF FreeDevice, FreeReports
  <2>2. Len(reports') = 0 /\ Woken' = Woken
    BY <2>1 DEF readers, Woken
  <2>3. Cardinality(Woken) \in Nat
    BY WokenCounts
  <2> QED BY <2>1, <2>2, <2>3 DEF WakeInv, HolderInv, SleepyInv, CountInv, readers
<1>5. CASE Schedule \/ StoreRunLoop \/ TestFlags \/ RunLoopStops \/ RunLoopTimesOut
  <2>1. UNCHANGED <<list, readers>>
    BY <1>5, Zenon DEF Schedule, StoreRunLoop, TestFlags, RunLoopStops, RunLoopTimesOut
  <2>2. Stops => Stops'
    BY <1>5 DEF Stops, flags, Schedule, StoreRunLoop, TestFlags, RunLoopStops, RunLoopTimesOut
  <2> QED BY <2>1, <2>2, ReadersRest
<1>6. CASE ClientOpens \/ ThreadStarts \/ ThreadEnds \/ MeetThread
  <2>1. UNCHANGED <<list, readers>>
    BY <1>6, Zenon DEF ClientOpens, ThreadStarts, ThreadEnds, MeetThread
  <2>2. Stops => Stops'
    BY <1>6 DEF Stops, flags, ClientOpens, ThreadStarts, ThreadEnds, MeetThread
  <2> QED BY <2>1, <2>2, ReadersRest
<1>7. CASE Close \/ TestDisconnected \/ Deregister \/ RaiseShutdown
  <2>1. UNCHANGED <<list, readers>>
    BY <1>7, Zenon DEF Close, TestDisconnected, Deregister, RaiseShutdown
  <2>2. Stops => Stops'
    BY <1>7 DEF Stops, flags, Close, TestDisconnected, Deregister, RaiseShutdown
  <2> QED BY <2>1, <2>2, ReadersRest
<1>8. CASE SignalSource \/ WakeRunLoop \/ Join \/ OsClose
  <2>1. UNCHANGED <<list, readers>>
    BY <1>8, Zenon DEF SignalSource, WakeRunLoop, Join, OsClose
  <2>2. Stops => Stops'
    BY <1>8 DEF Stops, flags, SignalSource, WakeRunLoop, Join, OsClose
  <2> QED BY <2>1, <2>2, ReadersRest
<1>9. CASE SourceFires \/ RemovalCallback \/ Unplug \/ UNCHANGED vars
  <2>1. UNCHANGED <<list, readers>>
    BY <1>9, Zenon DEF SourceFires, RemovalCallback, Unplug, vars
  <2>2. Stops => Stops'
    BY <1>9 DEF Stops, flags, SourceFires, RemovalCallback, Unplug, vars
  <2> QED BY <2>1, <2>2, ReadersRest
<1> QED
  BY <1>1, <1>2, <1>3, <1>4, <1>5, <1>6, <1>7, <1>8, <1>9
     DEF Next, ClientCloses, ThreadSteps, Callbacks

\* hid_report_callback signals for every report, also for one that joins
\* others in the list: with any number of readers none sleeps through it.
THEOREM ReportsWakeReaders == Spec => []NoReaderSleepsOnReport
<1>1. Init => WakeInv
  <2> SUFFICES ASSUME Init PROVE WakeInv
    OBVIOUS
  <2>1. \A r \in Readers : readerPc[r] = "idle"
    BY DEF Init
  <2> QED BY <2>1 DEF WakeInv, HolderInv, SleepyInv, CountInv, Waiters
<1>2. TypeOK /\ WakeInv /\ [Next]_vars => WakeInv'
  BY WakeStep
<1>3. TypeOK /\ WakeInv => NoReaderSleepsOnReport
  <2> SUFFICES ASSUME TypeOK, WakeInv, reports # <<>>, Waiters # {}, ~Stops
               PROVE  \E r \in Readers : readerPc[r] = "woken"
    BY DEF NoReaderSleepsOnReport, Stops
  <2>1. Len(reports) \in Nat /\ Len(reports) # 0
    BY LenProperties, EmptySeq DEF TypeOK
  <2>2. Len(reports) <= Cardinality(Woken)
    BY DEF WakeInv, CountInv
  <2>3. Woken # {}
    BY <2>1, <2>2, FS_EmptySet
  <2> QED BY <2>3 DEF Woken
<1> QED BY <1>1, <1>2, <1>3, DeviceTypes, PTL DEF Spec
=============================================================================
