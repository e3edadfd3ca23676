--------------------------- MODULE MCRefreshCycle ---------------------------
(***************************************************************************)
(* RefreshCycle for TLC: two rates, so that changing up and down both      *)
(* happen, a three-second minute, and room for two queued refreshes.       *)
(***************************************************************************)
EXTENDS RefreshCycle
=============================================================================
