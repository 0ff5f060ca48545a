----------------------------- MODULE BoundedFifo -----------------------------
(***************************************************************************)
(* What a single-producer single-consumer queue of this library promises:  *)
(* items come out once, in the order they went in, unaltered, and at most  *)
(* Capacity of them are held.  cmn_ring (items are records of elem_size    *)
(* bytes) and cmn_rbuf (items are bytes) are both shown to implement it.   *)
(***************************************************************************)
EXTENDS Integers, Sequences

CONSTANTS
  Capacity,  \* the most items held at once
  Item       \* the items

VARIABLES
  queue,     \* items accepted and not yet removed, oldest first
  out,       \* what the latest removal handed to the consumer, <<>> if it
             \* discarded what it removed
  mark       \* items a flush in progress has undertaken to drop, 0 if none

vars == <<queue, out, mark>>

Init ==
  /\ queue = <<>>
  /\ out = <<>>
  /\ mark = 0

\* What is left when the n oldest items are gone.
Without(n) == SubSeq(queue, n + 1, Len(queue))

\* The producer adds items, all of them fitting.
Put(s) ==
  /\ Len(queue) + Len(s) <= Capacity
  /\ queue' = queue \o s
  /\ UNCHANGED <<out, mark>>

\* The consumer is handed the n oldest items (none, if it asked too early).
Take(n) ==
  /\ mark = 0
  /\ out' = SubSeq(queue, 1, n)
  /\ queue' = Without(n)
  /\ UNCHANGED mark

\* The consumer drops the oldest item unseen.
Skip ==
  /\ mark = 0
  /\ queue # <<>>
  /\ queue' = Without(1)
  /\ out' = <<>>
  /\ UNCHANGED mark

\* A flush drops exactly what was there when it began: items put meanwhile stay.
FlushBegin ==
  /\ mark = 0
  /\ mark' = Len(queue)
  /\ UNCHANGED <<queue, out>>

FlushEnd ==
  /\ queue' = Without(mark)
  /\ out' = <<>>
  /\ mark' = 0

\* The flushing process dies: nothing is dropped.
FlushAbort ==
  /\ mark' = 0
  /\ UNCHANGED <<queue, out>>

Next ==
  \/ \E n \in 1..Capacity : \E s \in [1..n -> Item] : Put(s)
  \/ \E n \in 0..Len(queue) : Take(n)
  \/ Skip
  \/ FlushBegin \/ FlushEnd \/ FlushAbort

Spec == Init /\ [][Next]_vars
=============================================================================
