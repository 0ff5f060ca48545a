-------------------------------- MODULE MCRbuf --------------------------------
(***************************************************************************)
(* Rbuf on small instances.  Modulus stands for 2^32: it is larger than    *)
(* any position and small enough for sizes beyond it.                      *)
(***************************************************************************)
EXTENDS Rbuf
=============================================================================
