----------------------------- MODULE MCStripes -----------------------------
(* A stripe of two threads beside a stripe of one, for TLC.                *)
EXTENDS Stripes, TLC

CONSTANTS w1, w2

MCWidth == (w1 :> 3) @@ (w2 :> 1)
=============================================================================
