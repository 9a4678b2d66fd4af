-------------------------- MODULE MCOrderPipeline --------------------------
(***************************************************************************)
(* Small instances of OrderPipeline.tla for TLC.                           *)
(***************************************************************************)
EXTENDS OrderPipeline, TLC

CONSTANTS u1, c1, c2, s1, s2

OneCheckout == c1 :> u1
TwoCheckouts == c1 :> u1 @@ c2 :> u1
=============================================================================
