----------------------------- MODULE ReportQueue -----------------------------
(***************************************************************************)
(* What the list of input reports of an open device promises to those who  *)
(* read it.  Reports are numbered as they come; the ones that can still be *)
(* read are oldest..newest.  They are read in order and each of them once, *)
(* the oldest is lost when one comes and as many as are kept wait already, *)
(* and the rest is lost when the device is closed, and only then; from     *)
(* then on no report comes and none is read.  HidDevice implements this.   *)
(***************************************************************************)
EXTENDS Integers

CONSTANT Kept            \* the most reports that wait

VARIABLES oldest, newest,
          open           \* the device has not been closed

vars == <<oldest, newest, open>>

Waiting == newest - oldest + 1

Init == oldest = 1 /\ newest = 0 /\ open = TRUE

Arrive ==
  /\ open /\ UNCHANGED open
  /\ newest' = newest + 1
  /\ oldest' = IF Waiting = Kept THEN oldest + 1 ELSE oldest

Take ==
  /\ open /\ UNCHANGED open
  /\ Waiting > 0
  /\ oldest' = oldest + 1 /\ UNCHANGED newest

Close ==
  /\ open /\ open' = FALSE
  /\ oldest' = newest + 1 /\ UNCHANGED newest

Next == Arrive \/ Take \/ Close

Spec == Init /\ [][Next]_vars
=============================================================================
