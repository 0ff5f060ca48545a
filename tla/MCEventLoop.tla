----------------------------- MODULE MCEventLoop -----------------------------
(***************************************************************************)
(* EventLoop with two descriptors, two pointers and a batch of two.        *)
(***************************************************************************)
EXTENDS EventLoop
=============================================================================
