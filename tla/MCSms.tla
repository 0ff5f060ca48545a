--------------------------------- MODULE MCSms ---------------------------------
(***************************************************************************)
(* Sms with the sizes of the x86-64 build and rings of words only.         *)
(***************************************************************************)
EXTENDS Sms

Words == [type : {"RING"}, cap : {1, 3}, elem_size : {4, 8}]
=============================================================================
