------------------------------ MODULE RingIndex ------------------------------
(***************************************************************************)
(* Index arithmetic of cmn/cmn_ring.c: positions are slot numbers 0..cap   *)
(* of an array of cap + 1 slots, one slot being kept free to tell a full   *)
(* ring from an empty one.                                                 *)
(***************************************************************************)
EXTENDS Integers

\* Off by one in the wrapped case: the free slot is forgotten.
ring_nelem_forgets_free_slot(rpos, wpos, cap) ==
  IF rpos <= wpos THEN wpos - rpos ELSE wpos + (cap - rpos)

\* The number of occupied slots, as ring_nelem computes it (uint32_t, but with
\* positions <= cap < 2^32 - 1 nothing here wraps around).
ring_nelem(rpos, wpos, cap) ==
  IF rpos <= wpos THEN wpos - rpos ELSE wpos + (cap - rpos + 1)

\* The position is advanced without the modulo.
NextPosNoWrap(pos, cap) == pos + 1

\* The modulo is taken by cap, the capacity, not by the number of slots.
NextPosModCap(pos, cap) == IF cap = 0 THEN 0 ELSE (pos + 1) % cap

\* (pos + 1) % (cap + 1) of ring_push and ring_pop.
NextPos(pos, cap) == (pos + 1) % (cap + 1)
=============================================================================
