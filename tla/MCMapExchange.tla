---------------------------- MODULE MCMapExchange ---------------------------
(* The nodes of a card, named by their socket numbers in the cfg. *)
EXTENDS MapExchange
=============================================================================
