---------------------------- MODULE MCTaskSystem ----------------------------
(* Two cards' sockets, the second one activated first. *)
EXTENDS TaskSystem
MCActiveSockets == <<1, 0>>
=============================================================================
