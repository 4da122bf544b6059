----------------------------- MODULE MCBlockIo ------------------------------
(***************************************************************************)
(* Two writes and two reads of the same two sectors: w1 has two segments,  *)
(* r1 one segment of two page buffers, w2 and r2 one buffer each.          *)
(***************************************************************************)
EXTENDS BlockIo, TLC

CONSTANTS w1, r1, w2, r2

MCParts == w1 :> << <<1>>, <<2>> >> @@ r1 :> << <<2, 1>> >> @@ w2 :> << <<1>> >>
           @@ r2 :> << <<2>> >>
=============================================================================
