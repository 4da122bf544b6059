------------------------------ MODULE MCPlxDma ------------------------------
(***************************************************************************)
(* Instances of PlxDma: a ring of four descriptors; one thread waits for   *)
(* its transfers, the other has callbacks.                                 *)
(***************************************************************************)
EXTENDS PlxDma, TLC

CONSTANTS s1, s2

MCSubmitters == {s1, s2}
MCSize  == s1 :> 1 @@ s2 :> 2
MCKind  == s1 :> "sync" @@ s2 :> "async"
MCShare == s1 :> 1 @@ s2 :> 2
=============================================================================
