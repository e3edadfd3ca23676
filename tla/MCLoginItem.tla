----------------------------- MODULE MCLoginItem -----------------------------
(***************************************************************************)
(* LoginItem for TLC: two items of this program, so that one can stay when *)
(* the other is removed, and one of another program.                       *)
(***************************************************************************)
EXTENDS LoginItem
=============================================================================
