-------------------------------- MODULE MCRing --------------------------------
(***************************************************************************)
(* Ring on a small instance: three slots of two bytes.                     *)
(***************************************************************************)
EXTENDS Ring
=============================================================================
