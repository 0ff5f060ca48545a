------------------------------ MODULE MCSegment ------------------------------
(***************************************************************************)
(* Segment with the sizes of the x86-64 build: the layout of all           *)
(* configurations of up to three buckets over a few shapes, and an array   *)
(* of three elements used before, behind and between rings.  Modulus       *)
(* stands for 2^32: it is beyond every size asked for.                     *)
(***************************************************************************)
EXTENDS Segment

\* Rings and arrays, empty and not, of element sizes that do and do not pad.
Shapes == [type : {"ARRAY", "RING"}, cap : {0, 1, 3}, elem_size : {1, 4, 7}]

Bucket(t, n, size) == [type |-> t, cap |-> n, elem_size |-> size]

\* An array with a ring on both sides, none of them a multiple of 8 long, and one
\* at the end of the segment.
InTheMiddle ==
  {<<Bucket("RING", 3, 7), Bucket("ARRAY", 3, 7), Bucket("RING", 1, 4)>>,
   <<Bucket("ARRAY", 1, 1), Bucket("ARRAY", 3, 4)>>}
=============================================================================
