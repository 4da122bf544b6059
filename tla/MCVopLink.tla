----------------------------- MODULE MCVopLink ------------------------------
(***************************************************************************)
(* Five buffers, one big and four small; messages that need either.  The   *)
(* fifth message uses the first item again.                                *)
(***************************************************************************)
EXTENDS VopLink

MCSizes == <<1, 0, 0, 0, 0>>
MCSizeOf == <<0, 1, 1, 0, 0>>
=============================================================================
