------------------------------ MODULE BlinkLight ------------------------------
(***************************************************************************)
(* The blink(1) light: Blink1, the background threads that enableBlink     *)
(* starts, and the HID manager they share.  Each thread is a stack of      *)
(* calls.  Only the main thread's grows: hid_enumerate and hid_open_path   *)
(* run the default-mode run loop for a millisecond (process_pending_       *)
(* events), and on the main thread it dispatches pulse timers, USB notices *)
(* and workspace notifications, which call into Blink1 again, and queued   *)
(* makeMenus, which wait for the port mapper in a run loop of their own.   *)
(*                                                                         *)
(* @synchronized(self) is a recursive lock: it keeps threads apart but not *)
(* the calls of one thread.  currentColor, timer and serialnums are read   *)
(* and written outside of it, by every thread.                             *)
(***************************************************************************)
EXTENDS Integers, SequencesExt, FiniteSets

CONSTANTS Main,      \* the main thread
          Backs,     \* background threads, reused when done
          NumTimers, \* bound on the NSTimer objects at once
          MaxCalls,  \* bound on the enableBlink calls
          MaxDepth,  \* bound on the calls nested on the main thread
          MaxRebuilds \* bound on the calls below which a makeMenus waits

Threads == {Main} \cup Backs
Timers == 1..NumTimers
None == 0            \* timer before the first pulse

ASSUME BlinkAssumption ==
  /\ Main \notin Backs
  /\ NumTimers \in Nat /\ MaxCalls \in Nat /\ MaxDepth \in Nat \ {0}
  /\ MaxRebuilds \in Nat

VARIABLES serialnums,    \* how many serials the array holds
          currentColor,
          timer,         \* the ivar: the last timer made, or None
          timers,        \* free, made or live (added to the main run loop)
          stack,         \* per thread: its calls, the innermost last
          rebuilding,    \* depths of Main's calls in whose run loop a makeMenus waits
          lock,          \* of @synchronized: its owner and how often it is held
          hidMgr,        \* hid_mgr is not NULL
          plugged,       \* a blink(1) is plugged in
          noticed,       \* USB notices wait to be dispatched
          light,         \* what the device shows
          crashed,       \* the IOHIDManager was called with NULL
          calls,         \* enableBlink calls so far
          quenched,      \* history: an undisturbed `off` began, or has written
          raced          \* history: setPulse met a pulse of another thread

ivars == <<serialnums, currentColor, timer, timers>>
usb == <<plugged, noticed, light>>
run == <<stack, lock, hidMgr, crashed>>
history == <<calls, quenched, raced>>
vars == <<ivars, usb, run, rebuilding, history>>

Colours == {"dark", "lit"}     \* black, or a colour and its dimmed half
Calls == {"enable", "enumerate", "off", "setPulse", "pulse"}
Places == {"begin", "second", "drop", "fade", "locking", "listing", "opening",
           "after", "adding"}
Frame == [call : Calls, at : Places, colour : Colours]

TypeOK ==
  /\ serialnums \in 0..MaxDepth
  /\ currentColor \in Colours /\ light \in Colours
  /\ timer \in Timers \cup {None} /\ timers \in [Timers -> {"free", "made", "live"}]
  /\ stack \in [Threads -> Seq(Frame)]
  /\ lock \in [owner : Threads, held : 0..MaxDepth]
  /\ hidMgr \in BOOLEAN /\ crashed \in BOOLEAN
  /\ plugged \in BOOLEAN /\ noticed \in BOOLEAN
  /\ rebuilding \subseteq 1..MaxDepth
  /\ calls \in 0..MaxCalls /\ quenched \in {"no", "begun", "yes"}
  /\ raced \in BOOLEAN
-----------------------------------------------------------------------------
Busy(t) == stack[t] # <<>>
Top(t) == Last(stack[t])
At(t, here, place) == Busy(t) /\ Top(t).call \in here /\ Top(t).at = place
In(call, place) == [call |-> call, at |-> place, colour |-> "dark"]
Enter(t, frame) == stack' = [stack EXCEPT ![t] = Append(@, frame)]
Becomes(t, frame) == stack' = [stack EXCEPT ![t] = Append(Front(@), frame)]
Goes(t, place) == Becomes(t, [Top(t) EXCEPT !.at = place])
Ends(t) == stack' = [stack EXCEPT ![t] = Front(@)]

\* @synchronized(self).
AcquireNothing(t) == UNCHANGED lock
AcquireOnce(t) ==
  /\ lock.held = 0
  /\ lock' = [owner |-> t, held |-> 1]
Acquire(t) ==
  /\ lock.held = 0 \/ lock.owner = t
  /\ lock' = [owner |-> t, held |-> lock.held + 1]
Release(t) == lock' = [lock EXCEPT !.held = IF @ > 0 THEN @ - 1 ELSE 0]

\* process_pending_events runs the run loop of the thread that calls it.  It
\* returns in time, but not out of a makeMenus that it has dispatched.
Pending(t) == Busy(t) /\ Top(t).at \in {"listing", "opening"}
Returns(t) == t = Main => Len(stack[Main]) \notin rebuilding
Dispatching ==
  ~Busy(Main) \/ (Pending(Main) /\ Len(stack[Main]) < MaxDepth)

Invalidate == timers' = [i \in Timers |-> IF i = timer THEN "free" ELSE timers[i]]
-----------------------------------------------------------------------------
(***************************************************************************)
(* What the main run loop dispatches.                                      *)
(***************************************************************************)
Quiet == \A t \in Threads : ~Busy(t)

\* didSleep and didUserDeactive call off.
SwitchOff ==
  /\ Dispatching
  /\ Enter(Main, In("off", "begin"))
  /\ quenched' = IF Quiet THEN "begun" ELSE quenched
  /\ UNCHANGED <<ivars, usb, lock, hidMgr, crashed, rebuilding, calls, raced>>

\* A timer fires: startPulse or endPulse.
TimerRepeats(i) ==
  /\ Dispatching /\ timers[i] = "live"
  /\ Enter(Main, In("pulse", "fade"))
  /\ UNCHANGED <<ivars, usb, lock, hidMgr, crashed, rebuilding, history>>
TimerFires(i) ==
  /\ Dispatching /\ timers[i] = "live"
  /\ timers' = [timers EXCEPT ![i] = "free"]
  /\ Enter(Main, In("pulse", "fade"))
  /\ UNCHANGED <<serialnums, currentColor, timer, usb, lock, hidMgr,
                 crashed, rebuilding, history>>

\* matchingDevicesAdded:, matchingDevicesRemoved: do the same, so only whether
\* another one waits behind this one matters.
NoticeUnheard ==
  /\ Dispatching /\ noticed
  /\ noticed' \in BOOLEAN
  /\ IF plugged THEN Enter(Main, In("enumerate", "begin")) ELSE UNCHANGED stack
  /\ UNCHANGED <<ivars, plugged, light, lock, hidMgr, crashed, rebuilding, history>>
Notice ==
  /\ Dispatching /\ noticed
  /\ noticed' \in BOOLEAN
  /\ Enter(Main, In("enumerate", "begin"))
  /\ UNCHANGED <<ivars, plugged, light, lock, hidMgr, crashed, rebuilding, history>>

\* enableBlink, from didWake and setTitle:sender:.
EnableBlink(b) ==
  /\ Dispatching
  /\ ~Busy(b) /\ calls < MaxCalls
  /\ calls' = calls + 1 /\ quenched' = "no"
  /\ Enter(b, In("enable", "begin"))
  /\ UNCHANGED <<ivars, usb, lock, hidMgr, crashed, rebuilding, raced>>

\* A queued makeMenus, which asks for the public address and runs the run loop
\* until mDNSResponder has answered it, with no limit of time.  What it does is
\* ServerMenus' matter; here it keeps the call it was dispatched in.
RebuildWaits ==
  /\ Pending(Main) /\ Returns(Main)
  /\ Cardinality(rebuilding) < MaxRebuilds
  /\ rebuilding' = rebuilding \cup {Len(stack[Main])}
  /\ UNCHANGED <<ivars, usb, run, history>>
RebuildEnds ==
  /\ ~Returns(Main)
  /\ rebuilding' = rebuilding \ {Len(stack[Main])}
  /\ UNCHANGED <<ivars, usb, run, history>>
-----------------------------------------------------------------------------
(***************************************************************************)
(* _enableBlink reads primaryMnu.value for each decision.  makeMenus sets  *)
(* it on the main thread and nothing orders the two, so each read may find *)
(* any value.  off is called twice when it stays negative.                 *)
(***************************************************************************)
ReadValue(b) ==
  /\ \/ /\ At(b, {"enable"}, "begin")
        /\ \E first \in {"setPulse", "off"} :
             stack' = [stack EXCEPT ![b] = <<In("enable", "second"), In(first, "begin")>>]
     \/ /\ At(b, {"enable"}, "second")
        /\ Becomes(b, In("off", "begin")) \/ Ends(b)
  /\ UNCHANGED <<ivars, usb, lock, hidMgr, crashed, rebuilding, history>>

\* off (setColor: black) and setPulse: set the colour first; setPulse then
\* invalidates the timer and goes on as startPulse.
OffKeepsColour(t) ==
  /\ At(t, {"off", "setPulse"}, "begin")
  /\ currentColor' = IF Top(t).call = "off" THEN currentColor ELSE "lit"
  /\ Goes(t, IF Top(t).call = "off" THEN "fade" ELSE "drop")
  /\ UNCHANGED <<serialnums, timer, timers, usb, lock, hidMgr, crashed, rebuilding, history>>
SetColour(t) ==
  /\ At(t, {"off", "setPulse"}, "begin")
  /\ currentColor' = IF Top(t).call = "off" THEN "dark" ELSE "lit"
  /\ Goes(t, IF Top(t).call = "off" THEN "fade" ELSE "drop")
  /\ UNCHANGED <<serialnums, timer, timers, usb, lock, hidMgr, crashed, rebuilding, history>>
Pulsing == \E t \in Threads : \E i \in DOMAIN stack[t] : stack[t][i].call = "pulse"
DropNothing(t) ==
  /\ At(t, {"setPulse"}, "drop")
  /\ raced' = (raced \/ Pulsing)
  /\ Becomes(t, In("pulse", "fade"))
  /\ UNCHANGED <<ivars, usb, lock, hidMgr, crashed, rebuilding, calls, quenched>>
DropTimer(t) ==
  /\ At(t, {"setPulse"}, "drop")
  /\ Invalidate
  /\ raced' = (raced \/ Pulsing)
  /\ Becomes(t, In("pulse", "fade"))
  /\ UNCHANGED <<serialnums, currentColor, timer, usb, lock, hidMgr,
                 crashed, rebuilding, calls, quenched>>

\* What off, startPulse and endPulse do after fadeToRGB: off invalidates the
\* timer; a pulse makes the next one, then adds whatever `timer` is by then.
InvalidateAfter(t) ==
  /\ At(t, {"off"}, "after")
  /\ Invalidate
  /\ Ends(t)
  /\ UNCHANGED <<serialnums, currentColor, timer, usb, lock, hidMgr,
                 crashed, rebuilding, history>>
MakeTimer(t) ==
  /\ At(t, {"pulse"}, "after")
  /\ timer' \in {i \in Timers : timers[i] = "free"}
  /\ \A i \in Timers : timers[i] = "free" => timer' <= i
  /\ timers' = [i \in Timers |->
       IF i = timer' \/ (i = timer /\ timers[i] = "made") THEN
         IF i = timer' THEN "made" ELSE "free"
       ELSE timers[i]]
  /\ Goes(t, "adding")
  /\ UNCHANGED <<serialnums, currentColor, usb, lock, hidMgr, crashed, rebuilding, history>>
AddTimer(t) ==
  /\ At(t, {"pulse"}, "adding")
  /\ timers' = [timers EXCEPT ![timer] = IF @ = "made" THEN "live" ELSE @]
  /\ Ends(t)
  /\ UNCHANGED <<serialnums, currentColor, timer, usb, lock, hidMgr,
                 crashed, rebuilding, history>>
-----------------------------------------------------------------------------
(***************************************************************************)
(* fadeToRGB:atTime:.  isHere is asked before the lock is taken.  Under it *)
(* hid_enumerate and hid_open_path each make sure of the manager, run the  *)
(* run loop and then use the manager; blink1_close ends with hid_exit.     *)
(***************************************************************************)
CheckHere(t) ==
  /\ At(t, {"off", "pulse"}, "fade")
  /\ IF serialnums = 0 THEN Goes(t, "after")
     ELSE Becomes(t, [Top(t) EXCEPT !.at = "locking", !.colour = currentColor])
  /\ UNCHANGED <<ivars, usb, lock, hidMgr, crashed, rebuilding, history>>

StartFade(t) ==
  /\ At(t, {"off", "pulse"}, "locking")
  /\ Acquire(t)
  /\ hidMgr' = TRUE
  /\ Goes(t, "listing")
  /\ UNCHANGED <<ivars, usb, crashed, rebuilding, history>>

\* The device is found and opened next, or blink1_close gets no handle.
FindDevice(t) ==
  /\ At(t, {"off", "pulse"}, "listing") /\ hidMgr /\ Returns(t)
  /\ \/ plugged /\ Goes(t, "opening") /\ UNCHANGED <<lock, hidMgr>>
     \/ ~plugged /\ Becomes(t, In(Top(t).call, "after")) /\ Release(t) /\ hidMgr' = FALSE
  /\ UNCHANGED <<ivars, usb, crashed, rebuilding, history>>

\* Open the device, write the colour, close it; see HidDevice.
WriteColour(t) ==
  /\ At(t, {"off", "pulse"}, "opening") /\ hidMgr /\ Returns(t)
  /\ \/ /\ plugged
        /\ light' = Top(t).colour
        /\ quenched' = IF quenched = "begun" /\ Top(t).call = "off" THEN "yes" ELSE quenched
     \/ UNCHANGED <<light, quenched>>        \* not opened, or not written
  /\ hidMgr' = FALSE
  /\ Release(t)
  /\ Becomes(t, In(Top(t).call, "after"))
  /\ UNCHANGED <<ivars, plugged, noticed, crashed, rebuilding, calls, raced>>

\* enumerate: empty the array, list the devices, add their serials.
EnumerateAppends(t) ==
  /\ At(t, {"enumerate"}, "begin")
  /\ Acquire(t)
  /\ hidMgr' = TRUE
  /\ Goes(t, "listing")
  /\ UNCHANGED <<ivars, usb, crashed, rebuilding, history>>
StartEnumerate(t) ==
  /\ At(t, {"enumerate"}, "begin")
  /\ Acquire(t)
  /\ serialnums' = 0
  /\ hidMgr' = TRUE
  /\ Goes(t, "listing")
  /\ UNCHANGED <<currentColor, timer, timers, usb, crashed, rebuilding, history>>
AddSerials(t) ==
  /\ At(t, {"enumerate"}, "listing") /\ hidMgr /\ Returns(t)
  /\ serialnums' = serialnums + IF plugged THEN 1 ELSE 0
  /\ Release(t)
  /\ Ends(t)
  /\ UNCHANGED <<currentColor, timer, timers, usb, hidMgr, crashed, rebuilding, history>>

\* IOHIDManagerSetDeviceMatching or IOHIDManagerCopyDevices of NULL.
Crash(t) ==
  /\ Pending(t) /\ ~hidMgr /\ Returns(t)
  /\ crashed' = TRUE
  /\ UNCHANGED <<ivars, usb, stack, lock, hidMgr, rebuilding, history>>
-----------------------------------------------------------------------------
\* The device is plugged in or out; a fresh one is dark.
Replug ==
  /\ plugged' = ~plugged /\ light' = "dark"
  /\ noticed' = TRUE
  /\ UNCHANGED <<ivars, run, rebuilding, history>>

\* After launch: everything was enumerated, nothing was lit.
Init ==
  /\ plugged \in BOOLEAN
  /\ serialnums = IF plugged THEN 1 ELSE 0
  /\ currentColor = "dark" /\ light = "dark"
  /\ timer = None /\ timers = [i \in Timers |-> "free"]
  /\ stack = [t \in Threads |-> <<>>]
  /\ lock = [owner |-> Main, held |-> 0]
  /\ hidMgr = TRUE /\ noticed = FALSE /\ crashed = FALSE
  /\ rebuilding = {} /\ calls = 0 /\ quenched = "no" /\ raced = FALSE

Dispatch ==
  \/ SwitchOff \/ Notice \/ RebuildWaits
  \/ \E i \in Timers : TimerFires(i)
  \/ \E b \in Backs : EnableBlink(b)
Step(t) ==
  /\ ~crashed
  /\ \/ ReadValue(t) \/ SetColour(t) \/ DropTimer(t) \/ InvalidateAfter(t)
     \/ MakeTimer(t) \/ AddTimer(t) \/ CheckHere(t) \/ StartFade(t)
     \/ FindDevice(t) \/ WriteColour(t) \/ StartEnumerate(t) \/ AddSerials(t)
     \/ Crash(t)

Next ==
  \/ ~crashed /\ (Dispatch \/ RebuildEnds \/ Replug)
  \/ \E t \in Threads : Step(t)

Spec == Init /\ [][Next]_vars

\* Threads run and get the lock in the end, also when others keep taking it.
\* On the main thread every wait of process_pending_events is over after its
\* millisecond, however much the run loop finds to dispatch: so each depth gets
\* on, unless a makeMenus waits in there.  mDNSResponder owes it nothing.
FairSpec ==
  /\ Spec
  /\ \A b \in Backs : SF_vars(Step(b))
  /\ \A d \in 1..MaxDepth : SF_vars(Len(stack[Main]) = d /\ Step(Main))
-----------------------------------------------------------------------------
\* The lock protects the manager from the other threads: while a background
\* thread lists or opens devices nobody's hid_exit takes it away.
BackReady == \A b \in Backs : Pending(b) => hidMgr

\* Once every notice was dispatched and no enumerate runs, isHere is right,
\* although enumerates nest in fades and in each other.
SerialsCurrent ==
  ~noticed /\ (\A i \in DOMAIN stack[Main] : stack[Main][i].call # "enumerate")
    => (serialnums > 0 <=> plugged)

\* Dark stays dark: after an `off` that found no call under way, pulses left
\* running do not light it again until the next enableBlink.
OffStaysDark == quenched = "yes" => light = "dark"

\* No chain of pulses is orphaned: `timer` is the one live timer, so that the
\* next off or setPulse reaches it, however calls nest on the main thread and
\* threads interleave.  Only a setPulse that comes while another thread is in
\* startPulse or endPulse leaves a second chain, which nothing can stop.
NoOrphan == ~raced => \A i \in Timers : timers[i] = "live" => i = timer

\* No wait for mDNSResponder inside a call of Blink1 lasts for ever.
ResponderAnswers == \A d \in 1..MaxDepth : []<>(d \notin rebuilding)

\* enableBlink's thread ends: the lock is not held for ever, although the main
\* thread takes it again while it holds it and rebuilds menus meanwhile, as long
\* as mDNSResponder answers those.
EnableEnds ==
  ResponderAnswers => \A b \in Backs : []<>(~Busy(b) \/ crashed)

\* "Set up the HID Manager if it hasn't been done" (hid_enumerate): when the
\* manager is used it is there.
ManagerReady == ~crashed
=============================================================================
