---------------------------- MODULE MCPortMapper ----------------------------
(***************************************************************************)
(* PortMapper for TLC: two mappers, so that one waits inside the other,    *)
(* two addresses, so that the network can change in between, and two words *)
(* that may wait in one socket.                                            *)
(***************************************************************************)
EXTENDS PortMapper
=============================================================================
