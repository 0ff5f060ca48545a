------------------------------- MODULE RingTSO -------------------------------
(***************************************************************************)
(* cmn/cmn_ring.c on a machine whose processors buffer their stores.       *)
(*                                                                         *)
(* ring_push copies the element with plain stores and publishes wpos with  *)
(* __ATOMIC_RELAXED, which makes the store of wpos atomic and orders it    *)
(* with nothing.  On x86-64 a processor's stores still reach memory in     *)
(* program order (KeepsOrder); on a machine, or with a compiler, that uses *)
(* the freedom the ordering gives, they reach it in any order that keeps   *)
(* the stores to one location in order.                                    *)
(*                                                                         *)
(* Ring is this module with buffers that are always empty, and covers what *)
(* is left out here: the death of either side.                             *)
(***************************************************************************)
EXTENDS RingIndex, Sequences, SequencesExt

CONSTANTS
  Cap, ElemSize, Byte,  \* as in Ring
  MaxBuffered,          \* the most stores a processor holds back
  KeepsOrder            \* stores of one processor reach memory in order

ASSUME RingTSOAssumption ==
  /\ Cap \in Nat /\ ElemSize \in Nat \ {0} /\ Byte # {}
  /\ MaxBuffered \in Nat \ {0}
  /\ KeepsOrder \in BOOLEAN

VARIABLES
  data, rpos, wpos,        \* struct ring, in memory
  pushBuf, popBuf,         \* stores not yet in memory, oldest first
  wown, rown,              \* each thread's view of the position it owns: the
                           \* latest one it stored, in memory or not
  wpc, src, wk,            \* the pushing thread
  rpc, dst, snap,          \* the popping thread
  out                      \* what the latest pop or flush gave its caller

vars == <<data, rpos, wpos, pushBuf, popBuf, wown, rown, wpc, src, wk, rpc, dst, snap, out>>
memory == <<data, rpos, wpos>>
pushVars == <<pushBuf, wown, wpc, src, wk>>
popVars == <<popBuf, rown, rpc, dst, snap, out>>

Slot == 0..Cap
Elem == [1..ElemSize -> Byte]

\* Where a store goes: byte k of a slot, or the position (slot 0, byte 0).
ByteAt(slot, k) == [slot |-> slot, k |-> k]
Position == ByteAt(0, 0)

Init ==
  /\ data \in [Slot -> Elem]
  /\ rpos = 0 /\ wpos = 0 /\ wown = 0 /\ rown = 0
  /\ pushBuf = <<>> /\ popBuf = <<>>
  /\ wpc = "idle" /\ src = <<>> /\ wk = 0
  /\ rpc = "idle" /\ dst = <<>> /\ snap = 0
  /\ out = <<>>

ring_full(r, w) == ring_nelem(r, w, Cap) = Cap
ring_empty(r, w) == ring_nelem(r, w, Cap) = 0

-------------------------------------------------------------------------------
(* Store buffers *)

\* The store buffer may hand over its i-th store next.
MayLeave(buf, i) ==
  IF KeepsOrder THEN i = 1
  ELSE \A j \in 1..(i - 1) : buf[j].at # buf[i].at

\* A store of the pushing thread reaches memory.
PushCommit ==
  \E i \in 1..Len(pushBuf) :
    /\ MayLeave(pushBuf, i)
    /\ LET st == pushBuf[i] IN
         IF st.at = Position
         THEN wpos' = st.val /\ UNCHANGED data
         ELSE data' = [data EXCEPT ![st.at.slot][st.at.k] = st.val] /\ UNCHANGED wpos
    /\ pushBuf' = RemoveAt(pushBuf, i)
    /\ UNCHANGED <<rpos, wown, wpc, src, wk, popVars>>

\* A store of the popping thread, of rpos, reaches memory.
PopCommit ==
  /\ popBuf # <<>>
  /\ rpos' = Head(popBuf).val
  /\ popBuf' = Tail(popBuf)
  /\ UNCHANGED <<data, wpos, rown, rpc, dst, snap, out, pushVars>>

-------------------------------------------------------------------------------
(* ring_push: rpos is loaded from memory, wpos is the thread's own. *)

PushFull ==
  /\ wpc = "idle"
  /\ ring_full(rpos, wown)
  /\ UNCHANGED vars

\* The thread trusts the position it read last time round.
PushStartUnchecked(e) ==
  /\ wpc = "idle"
  /\ ring_nelem(rpos, wown, Cap) <= Cap
  /\ wpc' = "copy" /\ src' = e
  /\ UNCHANGED <<memory, pushBuf, wown, wk, popVars>>

PushStart(e) ==
  /\ wpc = "idle"
  /\ ~ring_full(rpos, wown)
  /\ wpc' = "copy" /\ src' = e
  /\ UNCHANGED <<memory, pushBuf, wown, wk, popVars>>

PushCopy ==
  /\ wpc = "copy"
  /\ Len(pushBuf) < MaxBuffered
  /\ pushBuf' = Append(pushBuf, [at |-> ByteAt(wown, wk + 1), val |-> src[wk + 1]])
  /\ wk' = wk + 1
  /\ wpc' = IF wk + 1 = ElemSize THEN "store" ELSE "copy"
  /\ UNCHANGED <<memory, wown, src, popVars>>

PushStore ==
  /\ wpc = "store"
  /\ Len(pushBuf) < MaxBuffered
  /\ wown' = NextPos(wown, Cap)
  /\ pushBuf' = Append(pushBuf, [at |-> Position, val |-> wown'])
  /\ wpc' = "idle" /\ src' = <<>> /\ wk' = 0
  /\ UNCHANGED <<memory, popVars>>

-------------------------------------------------------------------------------
(* ring_pop and ring_flush: wpos is loaded from memory, rpos is the thread's own. *)

PopEmpty ==
  /\ rpc = "idle"
  /\ ring_empty(rown, wpos)
  /\ UNCHANGED vars

PopStart(wanted) ==
  /\ rpc = "idle"
  /\ ~ring_empty(rown, wpos)
  /\ rpc' = IF wanted THEN "copy" ELSE "skip"
  /\ UNCHANGED <<memory, popBuf, rown, dst, snap, out, pushVars>>

PopCopy ==
  /\ rpc = "copy"
  /\ dst' = Append(dst, data[rown][Len(dst) + 1])
  /\ rpc' = IF Len(dst) + 1 = ElemSize THEN "store" ELSE "copy"
  /\ UNCHANGED <<memory, popBuf, rown, snap, out, pushVars>>

\* The store of rpos is issued and the call returns.
StoreRpos(pos, given) ==
  /\ Len(popBuf) < MaxBuffered
  /\ rown' = pos
  /\ popBuf' = Append(popBuf, [at |-> Position, val |-> pos])
  /\ out' = given
  /\ rpc' = "idle" /\ dst' = <<>> /\ snap' = 0
  /\ UNCHANGED <<memory, pushVars>>

PopStore ==
  /\ rpc \in {"store", "skip"}
  /\ StoreRpos(NextPos(rown, Cap), IF rpc = "store" THEN <<dst>> ELSE <<>>)

FlushLoad ==
  /\ rpc = "idle"
  /\ snap' = wpos
  /\ rpc' = "flush"
  /\ UNCHANGED <<memory, popBuf, rown, dst, out, pushVars>>

FlushStore ==
  /\ rpc = "flush"
  /\ StoreRpos(snap, <<>>)

-------------------------------------------------------------------------------
PushCall == PushFull \/ (\E e \in Elem : PushStart(e)) \/ PushCopy \/ PushStore

PopCall ==
  \/ PopEmpty \/ (\E wanted \in BOOLEAN : PopStart(wanted)) \/ PopCopy \/ PopStore
  \/ FlushLoad \/ FlushStore

Next == PushCall \/ PopCall \/ PushCommit \/ PopCommit

Spec == Init /\ [][Next]_vars

-------------------------------------------------------------------------------
(* Properties *)

\* The elements published in memory and not yet taken by the popping thread.
Slots == Cap + 1
Distance(r, w) == (w + Slots - r) % Slots
Queue == [i \in 1..Distance(rown, wpos) |-> data[(rown + i - 1) % Slots]]

\* No store still on its way to memory goes to a slot whose element the popping
\* thread may be reading, whatever each thread knows of the other's position.
NoStoreIntoUnread ==
  \A i \in DOMAIN pushBuf :
    pushBuf[i].at # Position =>
      LET s == pushBuf[i].at.slot IN Distance(rown, s) >= Distance(rown, wpos)

\* The ring still implements the bounded queue, an element being in it from the
\* moment its wpos is in memory: this is what "the use of atomic instructions to
\* replace locks" (cmn_ring.c:9) promises.
Marked == IF rpc = "flush" THEN Distance(rown, snap) ELSE 0

Fifo == INSTANCE BoundedFifo WITH
  Capacity <- Cap,
  Item <- Elem,
  queue <- Queue,
  out <- out,
  mark <- Marked

FifoSpec == Fifo!Spec
=============================================================================
