---------------------------- MODULE MCServerMenus ----------------------------
(***************************************************************************)
(* ServerMenus for TLC: the two menus of the program, a reply with players *)
(* (this one among them) and a quiet one, one public address, and so many  *)
(* refreshes under way that two rebuilds of a menu can meet.               *)
(***************************************************************************)
EXTENDS ServerMenus

CONSTANTS wfh, anu, home, away

TheOrder == <<wfh, anu>>
Busy == [motd |-> TRUE, games |-> 1,
         servers |-> <<[players |-> 2, ip |-> home], [players |-> 1, ip |-> away]>>]
Quiet == [motd |-> FALSE, games |-> 0, servers |-> <<>>]
BusyOrQuiet == {Busy, Quiet}
=============================================================================
