----------------------------- MODULE MCHidDevice -----------------------------
(***************************************************************************)
(* HidDevice for TLC: two readers, so that one can take what the other was *)
(* woken for, and a list that sheds after one report too many; or the      *)
(* limit of the code, 30, and one report more than that.                   *)
(***************************************************************************)
EXTENDS HidDevice
=============================================================================
