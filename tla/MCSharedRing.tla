---------------------------- MODULE MCSharedRing ----------------------------
(* Two channels of one queue_object; the cfg holds the bounds. *)
EXTENDS SharedRing
=============================================================================
