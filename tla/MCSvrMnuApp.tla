----------------------------- MODULE MCSvrMnuApp -----------------------------
(***************************************************************************)
(* SvrMnuApp for TLC: one rate of one second, one menu with two refreshes  *)
(* under way, so that _refresh and a second rebuild come inside a wait.    *)
(* What a reply holds is ServerMenus' matter: here it is a quiet game's,   *)
(* and the port mapper has only errors to report.                          *)
(***************************************************************************)
EXTENDS SvrMnuApp

CONSTANT wfh

OneMenu == <<wfh>>
Quiet == {[motd |-> FALSE, games |-> 0, servers |-> <<>>]}
=============================================================================
