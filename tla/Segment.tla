------------------------------- MODULE Segment -------------------------------
(***************************************************************************)
(* A segment laid out by sms_init and one of the arrays in it in use.      *)
(*                                                                         *)
(* The loop of sms_init_statistics sets the array up among its neighbours; *)
(* from then on the program uses it, until it ends, at any point, and the  *)
(* next one calls sms_init on what it left behind.  In most configurations *)
(* only the layout is followed; for those in Used the array that is bucket *)
(* At is used.                                                             *)
(***************************************************************************)
EXTENDS Sms, Array

CONSTANTS
  Used,  \* the configurations followed beyond sms_init
  At     \* the bucket that is used there

ASSUME SegmentAssumption ==
  /\ At \in Nat \ {0}
  /\ \A c \in Used : /\ At \in DOMAIN c
                     /\ c[At].type = "ARRAY" /\ c[At].cap = NAlloc

SegmentInit == Init /\ ArrayInit

InUse == cfg \in Used

\* One turn of the loop, with the array_setup in it.
PlaceBucket ==
  /\ InitBucket
  /\ IF InUse /\ Len(buckets') = At /\ Len(buckets) = At - 1
     THEN array_setup
     ELSE UNCHANGED arrayVars

Use == InUse /\ pc = "done" /\ ArrayNext /\ UNCHANGED vars

\* The elements stay in the segment, but nobody iterates over them or holds a
\* pointer to one of them any more.
RestartUsers ==
  /\ Restart
  /\ epc' = "idle" /\ i' = 0 /\ nlocal' = 0
  /\ first' = <<>> /\ visited' = <<>> /\ popped' = None
  /\ UNCHANGED <<nelem, nalloc, data>>

SegmentNext ==
  \/ InitBase /\ UNCHANGED arrayVars
  \/ PlaceBucket \/ Use \/ RestartUsers

SegmentSpec == SegmentInit /\ [][SegmentNext]_<<vars, arrayVars>>

-------------------------------------------------------------------------------
(* Properties *)

\* The bytes of the element with index k of the array in use.
Slot(k) ==
  LET at == placed[At] + HdrSize + k * cfg[At].elem_size
  IN  at..(at + cfg[At].elem_size - 1)

\* The array stores into the bytes that the layout gives its bucket, and so into no
\* other bucket's: the capacity that array_setup was called with, the room that
\* sms_calc_size counted and the test in array_push agree.  The exception is
\* array_add with an index beyond nalloc, which it does not refuse (cmn_array.c:76);
\* nothing but such a call stores outside.
StoresInside ==
  [][\A k \in Indices :
       data'[k] # data[k] => \/ Slot(k) \subseteq Footprint(At)
                             \/ k > nalloc /\ \E v \in Value : array_add(k, v)]_data

\* A new start finds the array in place and empty, whatever the one before left:
\* with the last bucket placed, the array in use can be filled from the front.
StartsEmpty ==
  [][InUse /\ pc = "placing" /\ pc' = "done" => nelem' = 0 /\ nalloc' = NAlloc]_<<vars, arrayVars>>
=============================================================================
