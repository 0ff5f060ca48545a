--------------------------------- MODULE Ring ---------------------------------
(***************************************************************************)
(* cmn/cmn_ring.c: a ring of Cap + 1 slots of ElemSize bytes, filled by    *)
(* one thread and drained by one other without locks.                      *)
(*                                                                         *)
(* One action per access to shared memory: the atomic load of the other    *)
(* side's position, the copy of each byte, the atomic store of the own     *)
(* position.  The ring may live in shared memory (sms_bucket.c sets rings  *)
(* up there), so either process may die between any two steps and come     *)
(* back with a fresh call; the ring itself survives.                       *)
(***************************************************************************)
EXTENDS RingIndex, Sequences

CONSTANTS
  Cap,       \* ring->cap
  ElemSize,  \* ring->elem_size, in bytes
  Byte       \* the values of a byte

\* cap + 1 is computed in uint32_t: Cap stands for a value below 2^32 - 1.
ASSUME RingAssumption ==
  /\ Cap \in Nat
  /\ ElemSize \in Nat \ {0}
  /\ Byte # {}

VARIABLES
  data, rpos, wpos,          \* struct ring
  wpc, src, wk, wret,        \* the pushing thread: element, bytes copied, result
  rpc, dst, snap, rret,      \* the popping thread: bytes copied out so far,
                             \* flush snapshot, result
  out                        \* what the latest pop or flush gave its caller

ringVars == <<data, rpos, wpos>>
pushVars == <<wpc, src, wk, wret>>
popVars == <<rpc, dst, snap, rret, out>>
vars == <<data, rpos, wpos, wpc, src, wk, wret, rpc, dst, snap, rret, out>>

Slot == 0..Cap
Elem == [1..ElemSize -> Byte]
Result == {"CMN_OK", "CMN_ERROR"}

\* ring_create and ring_setup: positions zeroed, the slots hold whatever the
\* memory held.
Init ==
  /\ data \in [Slot -> Elem]
  /\ rpos = 0 /\ wpos = 0
  /\ wpc = "idle" /\ src = <<>> /\ wk = 0 /\ wret = "CMN_OK"
  /\ rpc = "idle" /\ dst = <<>> /\ snap = 0 /\ rret = "CMN_OK"
  /\ out = <<>>

-------------------------------------------------------------------------------
(* The two tests. *)

\* The test accepts one element more than the capacity.
ring_full_never(r, w) == ring_nelem(r, w, Cap) > Cap

\* The capacity is taken to be one less than it is.
ring_full_early(r, w) == ring_nelem(r, w, Cap) >= Cap - 1

ring_full(r, w) == ring_nelem(r, w, Cap) = Cap

\* A ring with a single element counts as empty.
ring_empty_early(r, w) == ring_nelem(r, w, Cap) <= 1

ring_empty(r, w) == ring_nelem(r, w, Cap) = 0

-------------------------------------------------------------------------------
(* ring_push *)

\* The load of rpos finds the ring full.
PushFull ==
  /\ wpc = "idle"
  /\ ring_full(rpos, wpos)
  /\ wret' = "CMN_ERROR"
  /\ UNCHANGED <<ringVars, wpc, src, wk, popVars>>

\* The load of rpos finds room: the copy of element e begins.
PushStart(e) ==
  /\ wpc = "idle"
  /\ ~ring_full(rpos, wpos)
  /\ wpc' = "copy"
  /\ src' = e
  /\ UNCHANGED <<ringVars, wk, wret, popVars>>

\* memcpy puts the next byte into the slot at wpos.
PushCopy ==
  /\ wpc = "copy"
  /\ data' = [data EXCEPT ![wpos][wk + 1] = src[wk + 1]]
  /\ wk' = wk + 1
  /\ wpc' = IF wk + 1 = ElemSize THEN "store" ELSE "copy"
  /\ UNCHANGED <<rpos, wpos, src, wret, popVars>>

\* The call is over: its local variables are gone.
PushReturn == wpc' = "idle" /\ src' = <<>> /\ wk' = 0

\* The element is published before its last byte is copied.
PushStoreEarly ==
  /\ wpc = "store" \/ (wpc = "copy" /\ wk + 1 = ElemSize)
  /\ wpos' = NextPos(wpos, Cap)
  /\ wret' = "CMN_OK"
  /\ PushReturn
  /\ UNCHANGED <<data, rpos, popVars>>

\* The new element is published.
PushStore ==
  /\ wpc = "store"
  /\ wpos' = NextPos(wpos, Cap)
  /\ wret' = "CMN_OK"
  /\ PushReturn
  /\ UNCHANGED <<data, rpos, popVars>>

\* The pushing process dies in a call and a new one starts over.
PushCrash ==
  /\ wpc # "idle"
  /\ PushReturn
  /\ UNCHANGED <<ringVars, wret, popVars>>

-------------------------------------------------------------------------------
(* ring_pop *)

\* The load of wpos finds the ring empty.
PopEmpty ==
  /\ rpc = "idle"
  /\ ring_empty(rpos, wpos)
  /\ rret' = "CMN_ERROR"
  /\ UNCHANGED <<ringVars, pushVars, rpc, dst, snap, out>>

\* The load of wpos finds an element; elem # NULL says whether it is copied out.
PopStart(wanted) ==
  /\ rpc = "idle"
  /\ ~ring_empty(rpos, wpos)
  /\ rpc' = IF wanted THEN "copy" ELSE "skip"
  /\ UNCHANGED <<ringVars, pushVars, dst, snap, rret, out>>

\* memcpy takes the next byte out of the slot at rpos.
PopCopy ==
  /\ rpc = "copy"
  /\ dst' = Append(dst, data[rpos][Len(dst) + 1])
  /\ rpc' = IF Len(dst) + 1 = ElemSize THEN "store" ELSE "copy"
  /\ UNCHANGED <<ringVars, pushVars, snap, rret, out>>

\* The call is over: its local variables are gone.
PopReturn == rpc' = "idle" /\ dst' = <<>> /\ snap' = 0

\* The slot is given back before it is copied.
PopStoreEarly ==
  /\ rpc \in {"copy", "store", "skip"}
  /\ rpos' = NextPos(rpos, Cap)
  /\ rret' = "CMN_OK"
  /\ out' = IF rpc = "skip" THEN <<>> ELSE <<data[rpos]>>
  /\ PopReturn
  /\ UNCHANGED <<data, wpos, pushVars>>

\* The slot is given back and the call returns.
PopStore ==
  /\ rpc \in {"store", "skip"}
  /\ rpos' = NextPos(rpos, Cap)
  /\ rret' = "CMN_OK"
  /\ out' = IF rpc = "store" THEN <<dst>> ELSE <<>>
  /\ PopReturn
  /\ UNCHANGED <<data, wpos, pushVars>>

(* ring_flush, called by the popping thread *)

FlushLoad ==
  /\ rpc = "idle"
  /\ snap' = wpos
  /\ rpc' = "flush"
  /\ UNCHANGED <<ringVars, pushVars, dst, rret, out>>

\* wpos is loaded again instead of using the snapshot.
FlushStoreReloaded ==
  /\ rpc = "flush"
  /\ rpos' = wpos
  /\ out' = <<>>
  /\ PopReturn
  /\ UNCHANGED <<data, wpos, pushVars, rret>>

FlushStore ==
  /\ rpc = "flush"
  /\ rpos' = snap
  /\ out' = <<>>
  /\ PopReturn
  /\ UNCHANGED <<data, wpos, pushVars, rret>>

\* The popping process dies in a call and a new one starts over.
PopCrash ==
  /\ rpc # "idle"
  /\ PopReturn
  /\ UNCHANGED <<ringVars, pushVars, rret, out>>

-------------------------------------------------------------------------------
PushStep == PushFull \/ (\E e \in Elem : PushStart(e)) \/ PushCopy \/ PushStore

\* The popping thread goes on with its call, or polls.
Poll ==
  \/ PopEmpty \/ (\E wanted \in BOOLEAN : PopStart(wanted)) \/ PopCopy \/ PopStore
  \/ FlushStore

PopStep == Poll \/ FlushLoad

Next == PushStep \/ PushCrash \/ PopStep \/ PopCrash

Spec == Init /\ [][Next]_vars

\* The consumer keeps calling ring_pop (it may flush but need not) and does not die
\* for ever.  The producer may do as it likes, die in the middle of every push
\* included.
LiveSpec == Spec /\ WF_vars(Poll) /\ <>[][~PopCrash]_vars

-------------------------------------------------------------------------------
(* Properties *)

\* The slots from position r up to position w, and what array d holds there.
Slots == Cap + 1
Distance(r, w) == (w + Slots - r) % Slots
Contents(d, r, w) == [i \in 1..Distance(r, w) |-> d[(r + i - 1) % Slots]]

\* The elements pushed and not yet popped, oldest first.
Queue == Contents(data, rpos, wpos)

\* The types of the variables of the ring and of the two calls (cmn_ring.h:8-17).
TypeOK ==
  /\ data \in [Slot -> Elem]
  /\ rpos \in Slot /\ wpos \in Slot
  /\ wpc \in {"idle", "copy", "store"}
  /\ src \in Elem \cup {<<>>} /\ wk \in 0..ElemSize /\ wret \in Result
  /\ rpc \in {"idle", "copy", "store", "skip", "flush"}
  /\ dst \in Seq(Byte) /\ snap \in Slot /\ rret \in Result
  /\ out \in Seq(Elem)

\* The two memcpys never touch the same slot at the same time: the claim of the
\* comment at cmn_ring.c:8 that one reader and one writer need no lock.
SlotExclusive ==
  ~(wpc = "copy" /\ rpc = "copy" /\ wpos = rpos)

\* A push in progress still has the room it found and has copied a prefix of
\* its element, whatever was popped or flushed since its load of rpos.
PushConsistent ==
  /\ wpc = "idle" => wk = 0
  /\ wpc # "idle" => src \in Elem /\ ring_nelem(rpos, wpos, Cap) < Cap
  /\ wpc = "copy" => wk < ElemSize
  /\ wpc = "store" => wk = ElemSize
  /\ \A j \in 1..wk : data[wpos][j] = src[j]

\* A pop in progress still has an element to give back and what it has copied
\* out is still in the slot; a flush in progress will not move rpos past wpos.
PopConsistent ==
  /\ rpc \in {"copy", "store", "skip"} => rpos # wpos
  /\ rpc \notin {"copy", "store"} => dst = <<>>
  /\ rpc = "copy" => Len(dst) < ElemSize
  /\ rpc = "store" => Len(dst) = ElemSize
  /\ \A j \in 1..Len(dst) : dst[j] = data[rpos][j]
  /\ rpc = "flush" => ring_nelem(rpos, snap, Cap) <= ring_nelem(rpos, wpos, Cap)

\* What one thread learnt from the other's position when its call began stays
\* good until it stores its own, however many calls the other completes
\* meanwhile (ring_full, ring_empty and ring_flush act on a snapshot).
SnapshotsStayGood == PushConsistent /\ PopConsistent

\* An error result is honest: a push is refused only with Cap elements unread,
\* a pop only with none, whatever the other thread is in the middle of.
ErrorsHonest ==
  [][ /\ (PushFull => Len(Queue) = Cap)
      /\ (PopEmpty => Queue = <<>>) ]_vars

\* What becomes readable is, byte for byte, what the caller of ring_push passed:
\* neither a half-copied element nor a leftover of an earlier lap or of a push
\* that died is ever published (memcpy and the store of wpos, cmn_ring.c:70-74).
PushedIntact ==
  [][Len(Queue') > Len(Queue) => Queue' = Append(Queue, src)]_vars

\* The elements a flush in progress will drop.
Marked == IF rpc = "flush" THEN Distance(rpos, snap) ELSE 0

Fifo == INSTANCE BoundedFifo WITH
  Capacity <- Cap,
  Item <- Elem,
  queue <- Queue,
  out <- out,
  mark <- Marked

\* The ring implements the bounded queue: nothing lost, duplicated, reordered
\* or torn, across flushes, concurrent pushes and the death of either side.
FifoSpec == Fifo!Spec

\* An unread element does not stay unread for ever while the consumer polls, even if
\* it dies a few times and the producer dies in mid-push again and again.
Drains == \A s \in Slot : (rpos = s /\ wpos # s) ~> (rpos # s)
=============================================================================
