--------------------------- MODULE MCBlinkLibrary ---------------------------
(***************************************************************************)
(* BlinkLibrary for TLC: two blink(1) devices, one whose serial cannot be  *)
(* read and a keyboard that has the serial of another, two ports, and a    *)
(* cache with room to spare, where stale serials stay.                     *)
(***************************************************************************)
EXTENDS BlinkLibrary

CONSTANTS left, right, mute, keyboard

Serials == (left :> 2) @@ (right :> 1) @@ (mute :> 0) @@ (keyboard :> 1)
=============================================================================
