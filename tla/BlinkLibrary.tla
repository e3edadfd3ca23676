----------------------------- MODULE BlinkLibrary -----------------------------
(***************************************************************************)
(* The blink(1) library between Blink1 and IOKit: which device a colour    *)
(* reaches, and what the report says.                                      *)
(*                                                                         *)
(* blink1_enumerate caches and sorts serial numbers.  A fade opens the     *)
(* first of them: hid_open lists the devices again to turn the serial into *)
(* a path, made of vendor, product and USB location, and hid_open_path     *)
(* lists them once more to find the path.  Devices come and go in between. *)
(* One fade at a time is modelled (Blink1's lock), but its two waits for   *)
(* pending events may dispatch a USB notice that enumerates inside it; and *)
(* hid_open was given a pointer into the cache, not a copy.                *)
(***************************************************************************)
EXTENDS Integers, SequencesExt

CONSTANTS Ports,        \* USB locations
          Devices,      \* HID devices
          Blinks,       \* those with the vendor and product of a blink(1)
          Serial,       \* per device: its serial number; 0: it cannot be read
          PathMax,      \* places in the cache: 16 in the code
          Millis,       \* fade times asked for: 0 and 1000 by the program
          Levels,       \* of a colour component: 0, 255 and a tenth by the program
          None          \* no device, no path, nothing

MaxMillis == 65535      \* fadeMillis is 16 bits wide

Paths == [blink : BOOLEAN, port : Ports]
Fades == [millis : Millis, level : Levels]

ASSUME LibraryAssumption ==
  /\ Blinks \subseteq Devices /\ Serial \in [Devices -> Nat]
  /\ None \notin Ports \cup Devices \cup Fades \cup Paths
  /\ IsFiniteSet(Ports) /\ PathMax \in Nat
  /\ Cardinality(Ports) <= PathMax        \* see the README: the code trusts this
  /\ Millis \subseteq 0..MaxMillis /\ Levels \subseteq 0..255

VARIABLES plugged,      \* per port: a device, or None
          serials,      \* blink1_cached_serials; unused places may be stale
          count,        \* blink1_cached_count
          pc,           \* where the fade is: idle, in hid_open, in hid_open_path, open
          fade,         \* its arguments, or None
          path,         \* path_to_open
          handle,       \* the device that was opened
          written,      \* the last report that was sent, and where to
          undisturbed   \* history: no device came or went since the devices were
                        \* enumerated for what the fade goes by

vars == <<plugged, serials, count, pc, fade, path, handle, written, undisturbed>>

Report == [device : Blinks, fade : Fades, high : 0..255, low : 0..255, level : 0..255]

TypeOK ==
  /\ plugged \in [Ports -> Devices \cup {None}]
  /\ serials \in [1..PathMax -> Nat]
  /\ count \in 0..PathMax
  /\ pc \in {"idle", "listing", "opening", "open"}
  /\ fade \in Fades \cup {None}
  /\ path \in Paths \cup {None}
  /\ handle \in Devices \cup {None}
  /\ written \in Report \cup {None}
  /\ undisturbed \in BOOLEAN
-----------------------------------------------------------------------------
(***************************************************************************)
(* Arithmetic of the reports.                                              *)
(***************************************************************************)
\* The time goes out in hundredths of a second, in two bytes; the low one is
\* dms % 0xff.  Reading a pattern line puts the two together in 16 bits.
Dms(ms) == ms \div 10
HighBy255(dms) == dms \div 255
High(dms) == (dms \div 256) % 256         \* dms >> 8
Low(dms) == dms % 255
FadeMillis(high, low) == ((high * 256 + low) * 10) % 65536

\* blink1_degamma_log2lin: a line per octave of 32 levels.
Scale(n) == <<1, 2, 4, 8, 16, 32, 64, 128>>[(n \div 32) + 1]      \* 1 << (n / 32)
Octave(n) == (n % 32) + 1
DegammaFromOne(n) == Scale(n) + (Scale(n) * Octave(n) + 15) \div 32
Degamma(n) == (Scale(n) - 1) + (Scale(n) * Octave(n) + 15) \div 32

\* The report of blink1_fadeToRGB.
ReportOf(device, f) ==
  [device |-> device, fade |-> f, level |-> Degamma(f.level),
   high |-> High(Dms(f.millis)), low |-> Low(Dms(f.millis))]
-----------------------------------------------------------------------------
BlinkAt(p) == plugged[p] \in Blinks
BlinkPorts == {p \in Ports : BlinkAt(p)}
SerialAt(p) == Serial[plugged[p]]

\* make_path: transport, vendor, product and location.
PathByLocation(p) == [blink |-> TRUE, port |-> p]
PathAt(p) == [blink |-> BlinkAt(p), port |-> p]

\* blink1_sortSerials sorts the `found` serials; behind them the cache keeps
\* what it had.
Ascending(s) == \A i, j \in DOMAIN s : i < j => s[i] <= s[j]
Arrangements(s) ==
  {[i \in DOMAIN s |-> s[p[i]]] : p \in Surjection(DOMAIN s, DOMAIN s)}
Sorted(s) == CHOOSE t \in Arrangements(s) : Ascending(t)

SortedWhole(found) ==
  Sorted([i \in 1..PathMax |-> IF i <= Len(found) THEN found[i] ELSE serials[i]])
SortedSerials(found) ==
  LET sorted == Sorted(found)
  IN  [i \in 1..PathMax |-> IF i <= Len(found) THEN sorted[i] ELSE serials[i]]

\* blink1_enumerate, for a USB notice, also one dispatched inside a fade.  The
\* devices are listed in any order.
Enumerate ==
  /\ pc \in {"idle", "listing", "opening"}
  /\ \E ports \in SetToSeqs(BlinkPorts) :
       LET found == [i \in DOMAIN ports |-> SerialAt(ports[i])]
       IN  serials' = SortedSerials(found) /\ count' = Len(found)
  /\ undisturbed' = (undisturbed \/ pc # "opening")
  /\ UNCHANGED <<plugged, pc, fade, path, handle, written>>

\* fadeToRGB up to hid_open's wait: nothing is opened without a serial.
Fade ==
  /\ pc = "idle" /\ count > 0
  /\ serials[1] # 0
  /\ pc' = "listing" /\ fade' \in Fades
  /\ UNCHANGED <<plugged, serials, count, path, handle, written, undisturbed>>

\* hid_open after the wait: the path of a blink(1) with the serial that is
\* first in the cache by now, or no device.
HidOpen ==
  /\ pc = "listing"
  /\ LET found == {p \in BlinkPorts : SerialAt(p) = serials[1]} IN
       \/ found = {} /\ pc' = "idle" /\ fade' = None /\ UNCHANGED path
       \/ pc' = "opening" /\ UNCHANGED fade /\ \E p \in found : path' = PathAt(p)
  /\ UNCHANGED <<plugged, serials, count, handle, written, undisturbed>>

\* hid_open_path after its wait: open the device that has the path, if any.
\* IOHIDDeviceOpen may fail.
HidOpenPath ==
  /\ pc = "opening"
  /\ \/ /\ pc' = "open"
        /\ \E p \in Ports :
             plugged[p] # None /\ PathAt(p) = path /\ handle' = plugged[p]
        /\ UNCHANGED fade
     \/ pc' = "idle" /\ fade' = None /\ UNCHANGED handle
  /\ path' = None
  /\ UNCHANGED <<plugged, serials, count, written, undisturbed>>

\* blink1_fadeToRGB and blink1_close: the report is sent, unless it fails or
\* the device was unplugged, and the device is closed.
Write ==
  /\ pc = "open"
  /\ pc' = "idle" /\ handle' = None /\ fade' = None
  /\ \/ /\ \E p \in Ports : plugged[p] = handle
        /\ written' = ReportOf(handle, fade)
     \/ UNCHANGED written
  /\ UNCHANGED <<plugged, serials, count, path, undisturbed>>

\* A device is plugged in, pulled out, or swapped for another.
Replug ==
  /\ \E p \in Ports, d \in Devices \cup {None} :
       /\ d = None \/ \A q \in Ports : plugged[q] # d
       /\ plugged' = [plugged EXCEPT ![p] = d]
  /\ undisturbed' = FALSE
  /\ UNCHANGED <<serials, count, pc, fade, path, handle, written>>
-----------------------------------------------------------------------------
Init ==
  /\ plugged \in [Ports -> Devices \cup {None}]
  /\ \A p, q \in Ports : plugged[p] = plugged[q] /\ plugged[p] # None => p = q
  /\ serials = [i \in 1..PathMax |-> 0] /\ count = 0
  /\ pc = "idle"
  /\ fade = None /\ path = None /\ handle = None /\ written = None
  /\ undisturbed = FALSE

Next ==
  \/ Enumerate
  \/ Fade
  \/ HidOpen
  \/ HidOpenPath
  \/ Write
  \/ Replug

Spec == Init /\ [][Next]_vars
-----------------------------------------------------------------------------
\* Nothing but a blink(1) is ever opened, whatever is plugged into the port it
\* was found at while the devices are listed again.
OpenedIsBlink == handle # None => handle \in Blinks

\* If nothing was replugged since the cache was filled, its first serial is
\* the least that is plugged in and the device with that serial is opened,
\* whatever was in the cache before and in whatever order they were listed.
OpenedIsFirst ==
  undisturbed =>
    /\ \A p \in BlinkPorts : serials[1] <= SerialAt(p)
    /\ BlinkPorts # {} => \E p \in BlinkPorts : serials[1] = SerialAt(p)
    /\ pc = "open" => Serial[handle] = serials[1]

\* The two bytes of the fade time differ from the time asked for by h or h - 255
\* hundredths of a second, h the high byte; below 2.55 seconds they are right, and
\* reading a pattern line gives the time back.
NearTime(millis, high, low) ==
  LET h == Dms(millis) \div 256
  IN  /\ high * 256 + low - Dms(millis) \in {h, h - 255}
      /\ millis < 2550 => FadeMillis(high, low) = 10 * Dms(millis)
FadeTimeNear ==
  written # None => NearTime(written.fade.millis, written.high, written.low)
=============================================================================
