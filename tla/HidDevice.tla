------------------------------ MODULE HidDevice ------------------------------
(***************************************************************************)
(* One open hid_device of hid.c, from pthread_create in hid_open_path to   *)
(* the end of hid_close: the client that opened it, its read_thread with   *)
(* the run loop the device was moved to, and the threads that call         *)
(* hid_read_timeout.  They share the flags `disconnected` and              *)
(* `shutdown_thread`, which no lock protects (the compiler reloads them,   *)
(* every use is followed by a call), the report list under dev->mutex, and *)
(* the two barriers.                                                       *)
(*                                                                         *)
(* Inside dev->mutex only a reader does something another thread can       *)
(* interfere with: it looks at the flags and then goes to sleep.  The      *)
(* other sections are single steps that need the mutex free.               *)
(***************************************************************************)
EXTENDS Integers, Sequences, FiniteSets

CONSTANTS Readers,         \* threads that may call hid_read_timeout
          Limit,           \* reports after which the list sheds: 30 in the code
          MaxReports,      \* bound on the reports the device sends
          SpuriousWakeups, \* may pthread_cond_wait in a barrier return unasked?
          Free             \* the mutex is held by nobody

ASSUME HidAssumption ==
  /\ Limit \in Nat /\ MaxReports \in Nat
  /\ SpuriousWakeups \in BOOLEAN
  /\ IsFiniteSet(Readers) /\ Free \notin Readers

VARIABLES clientPc,    \* where hid_open_path or hid_close stands
          threadPc,    \* where read_thread stands
          barrier,     \* dev->barrier and dev->shutdown_barrier
          source,      \* dev->source was created
          runLoop,     \* dev->run_loop was stored
          signalled,   \* the source is signalled
          stopped,     \* CFRunLoopStop was called
          registered,  \* the device's callbacks are ours and on the read thread
          disconnected, shutdownThread,
          plugged,     \* the device is there
          sent,        \* reports received so far: they are numbered
          reports,     \* dev->input_reports, by number
          mutex,       \* the reader that holds dev->mutex, or Free
          readerPc,    \* per reader: where it stands
          patience     \* per reader: does it wait, and for how long?

loop == <<source, runLoop, signalled, stopped>>
flags == <<disconnected, shutdownThread>>
device == <<registered, plugged>>
list == <<sent, reports>>
readers == <<mutex, readerPc, patience>>
vars == <<clientPc, threadPc, barrier, loop, flags, device, list, readers>>

Closing == {"closing", "deregistering", "flagging", "signalling", "waking",
            "arriving", "leaving", "joining", "osClosing", "freeing"}
ClientPcs == {"spawned", "opening", "open", "closed"} \cup Closing
ThreadPcs == {"scheduling", "storing", "ready", "starting", "looping", "running",
              "waking", "stopping", "leaving", "ended"}
ReaderPcs == {"idle", "locking", "checking", "sleepy", "waiting", "woken", "late"}

Patience == {"none", "timeout", "forever"}    \* milliseconds: 0, positive, -1

TypeOK ==
  /\ clientPc \in ClientPcs /\ threadPc \in ThreadPcs
  /\ barrier \in [{"open", "shutdown"} -> [count : 0..1, tripped : BOOLEAN]]
  /\ source \in BOOLEAN /\ runLoop \in BOOLEAN
  /\ signalled \in BOOLEAN /\ stopped \in BOOLEAN
  /\ registered \in BOOLEAN /\ plugged \in BOOLEAN
  /\ disconnected \in BOOLEAN /\ shutdownThread \in BOOLEAN
  /\ sent \in 0..MaxReports /\ reports \in Seq(1..MaxReports)
  /\ mutex \in Readers \cup {Free}
  /\ readerPc \in [Readers -> ReaderPcs] /\ patience \in [Readers -> Patience]
-----------------------------------------------------------------------------
(***************************************************************************)
(* pthread_barrier_wait on a barrier of two: the first one waits, the      *)
(* second one trips the barrier.  The waiter calls pthread_cond_wait once, *)
(* not in a loop: it leaves when woken, tripped or not.                    *)
(***************************************************************************)
ArriveFirst(b) ==
  /\ barrier[b].count = 0
  /\ barrier' = [barrier EXCEPT ![b].count = 1]
ArriveSecondKeepsCount(b) ==
  /\ barrier[b].count = 1
  /\ barrier' = [barrier EXCEPT ![b] = [count |-> 2, tripped |-> TRUE]]
ArriveSecond(b) ==
  /\ barrier[b].count = 1
  /\ barrier' = [barrier EXCEPT ![b] = [count |-> 0, tripped |-> TRUE]]
LeaveBarrier(b) ==
  /\ barrier[b].tripped \/ SpuriousWakeups
  /\ UNCHANGED barrier

ClientGoes(to) ==
  /\ clientPc' = to
  /\ UNCHANGED <<threadPc, list, readers>>
ThreadGoes(to) ==
  /\ threadPc' = to
  /\ UNCHANGED <<clientPc, device, list>>
-----------------------------------------------------------------------------
\* hid_open_path after pthread_create: wait for the read thread.
ClientOpens ==
  /\ \/ clientPc = "spawned" /\ ArriveFirst("open") /\ ClientGoes("opening")
     \/ clientPc = "spawned" /\ ArriveSecond("open") /\ ClientGoes("open")
     \/ clientPc = "opening" /\ LeaveBarrier("open") /\ ClientGoes("open")
  /\ UNCHANGED <<loop, flags, device>>

\* read_thread: schedule the device and create the source; store the run
\* loop; meet the client.
Schedule ==
  /\ threadPc = "scheduling" /\ ThreadGoes("storing")
  /\ source' = TRUE
  /\ UNCHANGED <<barrier, runLoop, signalled, stopped, flags, readers>>
StoreRunLoopLate ==
  /\ threadPc = "storing" /\ ThreadGoes("ready")
  /\ UNCHANGED <<barrier, loop, flags, readers>>
StoreRunLoop ==
  /\ threadPc = "storing" /\ ThreadGoes("ready")
  /\ runLoop' = TRUE
  /\ UNCHANGED <<barrier, source, signalled, stopped, flags, readers>>
ThreadStarts ==
  /\ \/ threadPc = "ready" /\ ArriveFirst("open") /\ ThreadGoes("starting")
     \/ threadPc = "ready" /\ ArriveSecond("open") /\ ThreadGoes("looping")
     \/ threadPc = "starting" /\ LeaveBarrier("open") /\ ThreadGoes("looping")
  /\ UNCHANGED <<loop, flags, readers>>

\* The while condition of read_thread.
TestFlags ==
  /\ threadPc = "looping"
  /\ ThreadGoes(IF shutdownThread \/ disconnected THEN "waking" ELSE "running")
  /\ UNCHANGED <<barrier, loop, flags, readers>>

(***************************************************************************)
(* CFRunLoopRunInMode: it dispatches the callbacks below until one of them *)
(* stops the run loop or 1000 seconds pass.  A source signalled before the *)
(* call is still dispatched.  (kCFRunLoopRunFinished needs a mode without  *)
(* sources; dev->source is never removed from it.)                         *)
(***************************************************************************)
RunLoopStops ==
  /\ threadPc = "running" /\ stopped /\ ThreadGoes("waking")
  /\ shutdownThread' = TRUE /\ stopped' = FALSE
  /\ UNCHANGED <<barrier, source, runLoop, signalled, disconnected, readers>>
RunLoopTimesOut ==
  /\ threadPc = "running" /\ ~stopped /\ ThreadGoes("looping")
  /\ UNCHANGED <<barrier, loop, flags, readers>>

Dispatching == threadPc = "running" /\ ~stopped

\* perform_signal_callback.
SourceFires ==
  /\ Dispatching /\ signalled
  /\ signalled' = FALSE /\ stopped' = TRUE
  /\ UNCHANGED <<clientPc, threadPc, barrier, source, runLoop, flags, device,
                 list, readers>>

\* hid_device_removal_callback.
RemovalCallback ==
  /\ Dispatching /\ registered /\ ~plugged /\ ~disconnected
  /\ disconnected' = TRUE /\ stopped' = TRUE
  /\ UNCHANGED <<clientPc, threadPc, barrier, source, runLoop, signalled,
                 shutdownThread, device, list, readers>>

Waiters == {r \in Readers : readerPc[r] = "waiting"}
SignalOne ==      \* pthread_cond_signal
  IF Waiters = {} THEN UNCHANGED readerPc
  ELSE \E r \in Waiters : readerPc' = [readerPc EXCEPT ![r] = "woken"]
SignalIfEmpty == IF reports = <<>> THEN SignalOne ELSE UNCHANGED readerPc

\* The list after a report: num_queued counts the links between the n reports
\* it held, n - 1, and the oldest is dropped when that exceeds the limit, so
\* that Limit + 2 reports can wait (see ShedsAtLimit).
QueuedByCount(n) == Append(reports, n)
Queued(n) ==
  IF Len(reports) - 1 > Limit THEN Append(Tail(reports), n) ELSE Append(reports, n)

\* hid_report_callback.
WakeForReport == SignalOne
ReportCallback ==
  /\ Dispatching /\ registered /\ plugged
  /\ sent < MaxReports
  /\ mutex = Free
  /\ sent' = sent + 1
  /\ reports' = Queued(sent')
  /\ WakeForReport
  /\ UNCHANGED <<clientPc, threadPc, barrier, loop, flags, device, mutex, patience>>

\* The read thread is stopping: wake the readers, under the mutex.
BroadcastUnlocked ==
  /\ threadPc = "waking" /\ ThreadGoes("stopping")
  /\ readerPc' = [r \in Readers |-> IF r \in Waiters THEN "woken" ELSE readerPc[r]]
  /\ UNCHANGED <<barrier, loop, flags, mutex, patience>>
Broadcast ==
  /\ threadPc = "waking" /\ mutex = Free /\ ThreadGoes("stopping")
  /\ readerPc' = [r \in Readers |-> IF r \in Waiters THEN "woken" ELSE readerPc[r]]
  /\ UNCHANGED <<barrier, loop, flags, mutex, patience>>

\* It ends only after hid_close has come to the shutdown barrier.
ThreadEndsIfDisconnected ==
  /\ \/ threadPc = "stopping" /\ disconnected /\ ThreadGoes("ended") /\ UNCHANGED barrier
     \/ threadPc = "stopping" /\ ~disconnected /\ ArriveFirst("shutdown") /\ ThreadGoes("leaving")
     \/ threadPc = "stopping" /\ ~disconnected /\ ArriveSecond("shutdown") /\ ThreadGoes("ended")
     \/ threadPc = "leaving" /\ LeaveBarrier("shutdown") /\ ThreadGoes("ended")
  /\ UNCHANGED <<loop, flags, readers>>
ThreadEnds ==
  /\ \/ threadPc = "stopping" /\ ArriveFirst("shutdown") /\ ThreadGoes("leaving")
     \/ threadPc = "stopping" /\ ArriveSecond("shutdown") /\ ThreadGoes("ended")
     \/ threadPc = "leaving" /\ LeaveBarrier("shutdown") /\ ThreadGoes("ended")
  /\ UNCHANGED <<loop, flags, readers>>
-----------------------------------------------------------------------------
\* hid_close, called when no thread is inside hid_read_timeout.
Close ==
  /\ clientPc = "open" /\ \A r \in Readers : readerPc[r] = "idle"
  /\ ClientGoes("closing")
  /\ UNCHANGED <<barrier, loop, flags, device>>

\* Take the callbacks off and the device to the main run loop, unless the
\* device is known to be gone.
TestDisconnected ==
  /\ clientPc = "closing"
  /\ ClientGoes(IF disconnected THEN "flagging" ELSE "deregistering")
  /\ UNCHANGED <<barrier, loop, flags, device>>
Deregister ==
  /\ clientPc = "deregistering" /\ ClientGoes("flagging")
  /\ registered' = FALSE
  /\ UNCHANGED <<barrier, loop, flags, plugged>>

RaiseShutdown ==
  /\ clientPc = "flagging" /\ ClientGoes("signalling")
  /\ shutdownThread' = TRUE
  /\ UNCHANGED <<barrier, loop, disconnected, device>>

\* CFRunLoopSourceSignal, then CFRunLoopWakeUp on the thread's run loop.
OnlyWake ==
  /\ clientPc = "signalling" /\ ClientGoes("waking")
  /\ UNCHANGED <<barrier, loop, flags, device>>
SignalSource ==
  /\ clientPc = "signalling" /\ ClientGoes("waking")
  /\ signalled' = TRUE
  /\ UNCHANGED <<barrier, source, runLoop, stopped, flags, device>>
WakeRunLoop ==
  /\ clientPc = "waking" /\ ClientGoes("arriving")
  /\ UNCHANGED <<barrier, loop, flags, device>>

MeetThread ==
  /\ \/ clientPc = "arriving" /\ ArriveFirst("shutdown") /\ ClientGoes("leaving")
     \/ clientPc = "arriving" /\ ArriveSecond("shutdown") /\ ClientGoes("joining")
     \/ clientPc = "leaving" /\ LeaveBarrier("shutdown") /\ ClientGoes("joining")
  /\ UNCHANGED <<loop, flags, device>>
JoinDetached ==
  /\ clientPc = "joining" /\ ClientGoes("osClosing")
  /\ UNCHANGED <<barrier, loop, flags, device>>
Join ==
  /\ clientPc = "joining" /\ threadPc = "ended" /\ ClientGoes("osClosing")
  /\ UNCHANGED <<barrier, loop, flags, device>>

OsClose ==            \* IOHIDDeviceClose, unless disconnected
  /\ clientPc = "osClosing" /\ ClientGoes("freeing")
  /\ UNCHANGED <<barrier, loop, flags, device>>
FreeReports == reports' = <<>>
FreeDevice ==         \* empty the list, free_hid_device
  /\ clientPc = "freeing" /\ mutex = Free
  /\ clientPc' = "closed"
  /\ FreeReports
  /\ UNCHANGED <<threadPc, barrier, loop, flags, device, sent, readers>>
-----------------------------------------------------------------------------
ReaderSame == UNCHANGED <<clientPc, threadPc, barrier, loop, flags, device>>

\* hid_read_timeout; hid_read waits for ever or, once hid_set_nonblocking was
\* called, not at all.  First lock the list.
ReadBegins(r, p) ==
  /\ clientPc = "open" /\ readerPc[r] = "idle"
  /\ readerPc' = [readerPc EXCEPT ![r] = "locking"]
  /\ patience' = [patience EXCEPT ![r] = p]
  /\ ReaderSame /\ UNCHANGED <<list, mutex>>
Lock(r) ==
  /\ readerPc[r] = "locking" /\ mutex = Free
  /\ mutex' = r
  /\ readerPc' = [readerPc EXCEPT ![r] = "checking"]
  /\ ReaderSame /\ UNCHANGED <<list, patience>>

\* Unlock and return.
Returns(r) ==
  /\ mutex' = Free
  /\ readerPc' = [readerPc EXCEPT ![r] = "idle"]
Takes(r) == reports' = Tail(reports) /\ UNCHANGED sent /\ Returns(r)

\* A queued report, else -1 once the thread stops, else 0 or go to sleep.
Check(r) ==
  /\ readerPc[r] = "checking"
  /\ \/ reports # <<>> /\ Takes(r)
     \/ /\ reports = <<>> /\ UNCHANGED list
        /\ \/ /\ disconnected \/ shutdownThread \/ patience[r] = "none"
              /\ Returns(r)
           \/ /\ ~disconnected /\ ~shutdownThread /\ patience[r] # "none"
              /\ readerPc' = [readerPc EXCEPT ![r] = "sleepy"]
              /\ UNCHANGED mutex
  /\ ReaderSame /\ UNCHANGED patience

\* pthread_cond_wait or pthread_cond_timedwait: release the mutex and sleep.
Sleep(r) ==
  /\ readerPc[r] = "sleepy"
  /\ readerPc' = [readerPc EXCEPT ![r] = "waiting"] /\ mutex' = Free
  /\ ReaderSame /\ UNCHANGED <<list, patience>>
Stirs(r) ==           \* a spurious wakeup: the loop of cond_wait is for it
  /\ readerPc[r] = "waiting"
  /\ readerPc' = [readerPc EXCEPT ![r] = "woken"]
  /\ ReaderSame /\ UNCHANGED <<list, mutex, patience>>
TimesOut(r) ==
  /\ readerPc[r] = "waiting" /\ patience[r] = "timeout"
  /\ readerPc' = [readerPc EXCEPT ![r] = "late"]
  /\ ReaderSame /\ UNCHANGED <<list, mutex, patience>>

\* Woken with the mutex: -1 once the thread stops, whatever is queued; else
\* the report if there is one, else back to sleep.
Relock(r) ==
  /\ readerPc[r] = "woken" /\ mutex = Free
  /\ \/ /\ disconnected \/ shutdownThread
        /\ Returns(r) /\ UNCHANGED list
     \/ /\ ~disconnected /\ ~shutdownThread
        /\ \/ reports # <<>> /\ Takes(r)
           \/ /\ reports = <<>> /\ UNCHANGED list
              /\ mutex' = r /\ readerPc' = [readerPc EXCEPT ![r] = "sleepy"]
  /\ ReaderSame /\ UNCHANGED patience
GiveUp(r) ==          \* ETIMEDOUT: return 0
  /\ readerPc[r] = "late" /\ mutex = Free
  /\ Returns(r)
  /\ ReaderSame /\ UNCHANGED <<list, patience>>

Unplug ==
  /\ plugged /\ plugged' = FALSE
  /\ UNCHANGED <<clientPc, threadPc, barrier, loop, flags, registered, list, readers>>
-----------------------------------------------------------------------------
Init ==
  /\ clientPc = "spawned" /\ threadPc = "scheduling"
  /\ barrier = [b \in {"open", "shutdown"} |-> [count |-> 0, tripped |-> FALSE]]
  /\ source = FALSE /\ runLoop = FALSE /\ signalled = FALSE /\ stopped = FALSE
  /\ registered = TRUE /\ plugged = TRUE
  /\ disconnected = FALSE /\ shutdownThread = FALSE
  /\ sent = 0 /\ reports = <<>>
  /\ mutex = Free
  /\ readerPc = [r \in Readers |-> "idle"] /\ patience = [r \in Readers |-> "none"]

ClientCloses ==
  \/ TestDisconnected \/ Deregister \/ RaiseShutdown \/ SignalSource \/ WakeRunLoop
  \/ MeetThread \/ Join \/ OsClose \/ FreeDevice
ThreadSteps ==
  \/ Schedule \/ StoreRunLoop \/ ThreadStarts \/ TestFlags \/ RunLoopStops
  \/ Broadcast \/ ThreadEnds
Callbacks == SourceFires \/ RemovalCallback \/ ReportCallback
ReaderSteps(r) == Lock(r) \/ Check(r) \/ Sleep(r) \/ Relock(r) \/ GiveUp(r)

Next ==
  \/ ClientOpens \/ Close \/ ClientCloses
  \/ ThreadSteps \/ RunLoopTimesOut \/ Callbacks
  \/ \E r \in Readers :
       ReaderSteps(r) \/ Stirs(r) \/ TimesOut(r) \/ \E p \in Patience : ReadBegins(r, p)
  \/ Unplug

Spec == Init /\ [][Next]_vars

\* Threads run and get the mutex in the end, a signalled source and a pending
\* removal are dispatched.  Nobody has to close, read, unplug or send, and
\* nothing may have to wait until the run loop's 1000 seconds are over.
FairSpec ==
  /\ Spec
  /\ WF_vars(ClientOpens) /\ WF_vars(ClientCloses)
  /\ SF_vars(ThreadSteps)
  /\ SF_vars(SourceFires) /\ SF_vars(RemovalCallback)
  /\ \A r \in Readers : SF_vars(ReaderSteps(r))
-----------------------------------------------------------------------------
\* Whoever got the handle from hid_open_path may stop its run loop: the source
\* and the run loop that hid_close signals are there ("Wait here for the read
\* thread to be initialized").
OpenMeansReady == clientPc \in Closing \cup {"open"} => source /\ runLoop

\* While hid_close signals the source and wakes the run loop, the thread whose
\* run loop it is has not ended, also if the device was unplugged meanwhile.
RunLoopValid == clientPc \in {"signalling", "waking"} => threadPc # "ended"

\* hid_close frees the device after its thread has ended, never under it.
NoUseAfterFree == clientPc \in {"freeing", "closed"} => threadPc = "ended"

\* The list holds the newest reports in the order they came, without a gap, and
\* it sheds the oldest, if two later than ShedsAtLimit says: it never grows past
\* Limit + 2, however readers, timeouts and reports interleave.
ListKeepsNewest ==
  /\ Len(reports) <= Limit + 2
  /\ \A i \in DOMAIN reports : reports[i] = sent - Len(reports) + i

\* "Pop one off if we've reached 30 in the queue": the list of a device that
\* nobody reads never holds more reports than the limit.
ShedsAtLimit == Len(reports) <= Limit

\* No reader sleeps through a report: while one is queued and readers wait,
\* one of them has been woken for it and not run yet.
NoReaderSleepsOnReport ==
  reports # <<>> /\ Waiters # {} =>
    \/ \E r \in Readers : readerPc[r] = "woken"
    \/ disconnected \/ shutdownThread

\* Once begun, hid_close ends: it cannot hang on the barrier, the join or a
\* thread that sits in its run loop, whenever the device is unplugged.
CloseTerminates == clientPc = "closing" ~> clientPc = "closed"

\* A reader that waits for data gets its error when the device goes away, even
\* one that was about to sleep as it did ("a thread which is about to go to
\* sleep ... will go to sleep before the condition is signaled").
ReaderWakes ==
  \A r \in Readers :
    readerPc[r] \in {"sleepy", "waiting"} /\ disconnected ~> readerPc[r] = "idle"

\* "If it's been unplugged, then calling IOHIDDeviceClose() will crash": an
\* unplugged device is not closed.
NeverClosesUnplugged == clientPc = "osClosing" /\ ~disconnected => plugged
=============================================================================
