------------------------------ MODULE MCRingTSO ------------------------------
(***************************************************************************)
(* RingTSO on small instances: stores in order, and stores out of order.   *)
(***************************************************************************)
EXTENDS RingTSO
=============================================================================
