----------------------------- MODULE MCBlinkLight -----------------------------
(***************************************************************************)
(* BlinkLight for TLC: the main thread and one of enableBlink's, timers    *)
(* enough that one is always free, and calls that nest one level deep.     *)
(***************************************************************************)
EXTENDS BlinkLight
=============================================================================
