------------------------------- MODULE MCServer -------------------------------
(***************************************************************************)
(* Server with a stream that buffers less than a call may ask for, and     *)
(* batches that can hold both descriptors.                                 *)
(***************************************************************************)
EXTENDS Server
=============================================================================
