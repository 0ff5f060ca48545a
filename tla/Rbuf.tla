--------------------------------- MODULE Rbuf ---------------------------------
(***************************************************************************)
(* cmn/cmn_rbuf.c: a ring buffer of bytes, read and written in runs of any *)
(* length, positions being loaded and stored atomically so that one thread *)
(* may read while another writes.                                          *)
(*                                                                         *)
(* A position ranges over 0..Cap + 1: a copy that ends at the end of the   *)
(* array leaves it one past the last slot, which stands for slot 0 as much *)
(* as 0 does.  One action per access to shared memory: the load of the     *)
(* other side's position, the copy of each byte, the store of the own one. *)
(***************************************************************************)
EXTENDS Integers, Sequences

CONSTANTS
  Cap,      \* buf->cap; the array has Cap + 1 bytes
  Byte,     \* the values of a byte
  Modulus,  \* of uint32_t: 2^32, smaller for model checking
  WriteSizes, ReadSizes,  \* the n passed to rbuf_write and to rbuf_read (size_t)
  AsksRoom  \* the writer calls rbuf_wcap first and writes no more than that

ASSUME RbufAssumption ==
  /\ Cap \in Nat
  /\ Byte # {}
  /\ Modulus \in Nat /\ Modulus > Cap + 2
  /\ WriteSizes \subseteq Nat /\ ReadSizes \subseteq Nat
  /\ AsksRoom \in BOOLEAN

VARIABLES
  data, rpos, wpos,        \* struct rbuf
  wpc, room, src, wk, wrun, \* the writer: what rbuf_wcap told it, the bytes it
                           \* passed, how many are copied, the write decided on
  rpc, dst, rrun,          \* the reader: the bytes copied out, the read decided on
  out                      \* what the latest rbuf_read gave its caller

bufVars == <<data, rpos, wpos>>
writeVars == <<wpc, room, src, wk, wrun>>
readVars == <<rpc, dst, rrun, out>>
vars == <<data, rpos, wpos, wpc, room, src, wk, wrun, rpc, dst, rrun, out>>

Slots == Cap + 1
Slot == 0..Cap

\* A read or write decided on: the slots it goes through, in order, and the
\* position it will store.  Its length is the value returned.
NoRun == [at |-> <<>>, pos |-> 0]

\* n consecutive slots from position p.
Span(p, n) == [i \in 1..n |-> p + i - 1]

\* _min: both arguments are truncated to uint32_t.
Min32(first, second) ==
  LET a == first % Modulus
      b == second % Modulus
  IN  IF a < b THEN a ELSE b

\* rbuf_create: positions zeroed, the bytes are whatever the memory held.
Init ==
  /\ data \in [Slot -> Byte]
  /\ rpos = 0 /\ wpos = 0
  /\ wpc = "idle" /\ room = 0 /\ src = <<>> /\ wk = 0 /\ wrun = NoRun
  /\ rpc = "idle" /\ dst = <<>> /\ rrun = NoRun
  /\ out = <<>>

-------------------------------------------------------------------------------
(* The capacities and the runs they allow. *)

\* The slot kept free is counted as readable.
rbuf_rcap_counts_free_slot(r, w) ==
  IF w < r THEN Cap + w - r + 2 ELSE w - r

rbuf_rcap(r, w) ==
  IF w < r THEN Cap + w - r + 1 ELSE w - r

\* The slot kept free is counted as writable.
rbuf_wcap_counts_free_slot(r, w) ==
  IF w < r THEN r - w ELSE (Cap - w + r) % Modulus

rbuf_wcap(r, w) ==
  IF w < r THEN r - w - 1 ELSE (Cap - w + r) % Modulus

\* The position goes on past the end instead of starting again at 0.
ReadRunNoRewind(r, w, n) ==
  IF w < r
  THEN LET ret == Min32(Cap - r + 1, n)
           remaining == Min32(w, n - ret)
       IN  IF ret < n
           THEN [at |-> Span(r, ret) \o Span(0, remaining), pos |-> r + ret + remaining]
           ELSE [at |-> Span(r, ret), pos |-> r + ret]
  ELSE LET ret == Min32(w - r, n) IN [at |-> Span(r, ret), pos |-> r + ret]

\* The second part of the read includes the slot that the writer writes next.
ReadRunUpToWriter(r, w, n) ==
  IF w < r
  THEN LET ret == Min32(Cap - r + 1, n)
           remaining == Min32(w + 1, n - ret)
       IN  IF ret < n
           THEN [at |-> Span(r, ret) \o Span(0, remaining), pos |-> remaining]
           ELSE [at |-> Span(r, ret), pos |-> r + ret]
  ELSE LET ret == Min32(w - r, n) IN [at |-> Span(r, ret), pos |-> r + ret]

\* rbuf_read: what it does with the positions it loaded.
ReadRun(r, w, n) ==
  IF w < r
  THEN LET ret == Min32(Cap - r + 1, n)
           remaining == Min32(w, n - ret)
       IN  IF ret < n
           THEN [at |-> Span(r, ret) \o Span(0, remaining), pos |-> remaining]
           ELSE [at |-> Span(r, ret), pos |-> r + ret]
  ELSE LET ret == Min32(w - r, n) IN [at |-> Span(r, ret), pos |-> r + ret]

\* rbuf_write: the same.  rpos - 1 is a uint32_t: with rpos = 0 it is the
\* largest one.
WriteRun(r, w, n) ==
  IF w < r
  THEN LET ret == Min32(r - w - 1, n) IN [at |-> Span(w, ret), pos |-> w + ret]
  ELSE LET ret == Min32((Cap - w + 1) % Modulus, n)
           remaining == Min32((r - 1) % Modulus, n - ret)
       IN  IF ret < n
           THEN [at |-> Span(w, ret) \o Span(0, remaining), pos |-> remaining]
           ELSE [at |-> Span(w, ret), pos |-> w + ret]

-------------------------------------------------------------------------------
(* The writer *)

\* A careful caller asks for the room first.
AskRoom ==
  /\ AsksRoom
  /\ wpc = "idle"
  /\ room' = rbuf_wcap(rpos, wpos)
  /\ wpc' = "asked"
  /\ UNCHANGED <<bufVars, src, wk, wrun, readVars>>

\* rbuf_write loads the positions and decides what to copy.
WriteStart(s) ==
  /\ IF AsksRoom THEN wpc = "asked" /\ Len(s) <= room ELSE wpc = "idle"
  /\ src' = s
  /\ wrun' = WriteRun(rpos, wpos, Len(s))
  /\ wpc' = "copy"
  /\ UNCHANGED <<bufVars, room, wk, readVars>>

\* memcpy puts the next byte into its slot.
WriteCopy ==
  /\ wpc = "copy"
  /\ wk < Len(wrun.at)
  /\ data' = [data EXCEPT ![wrun.at[wk + 1]] = src[wk + 1]]
  /\ wk' = wk + 1
  /\ UNCHANGED <<rpos, wpos, wpc, room, src, wrun, readVars>>

\* rbuf_set_wpos; the call is over.
WriteStore ==
  /\ wpc = "copy"
  /\ wk = Len(wrun.at)
  /\ wpos' = wrun.pos
  /\ wpc' = "idle" /\ room' = 0 /\ src' = <<>> /\ wk' = 0 /\ wrun' = NoRun
  /\ UNCHANGED <<data, rpos, readVars>>

-------------------------------------------------------------------------------
(* The reader *)

\* rbuf_read loads the positions and decides what to copy.
ReadStart(n) ==
  /\ rpc = "idle"
  /\ rrun' = ReadRun(rpos, wpos, n)
  /\ rpc' = "copy"
  /\ UNCHANGED <<bufVars, writeVars, dst, out>>

\* memcpy takes the next byte out of its slot.
ReadCopy ==
  /\ rpc = "copy"
  /\ Len(dst) < Len(rrun.at)
  /\ dst' = Append(dst, data[rrun.at[Len(dst) + 1]])
  /\ UNCHANGED <<bufVars, writeVars, rpc, rrun, out>>

\* rbuf_set_rpos; the call is over.
ReadStore ==
  /\ rpc = "copy"
  /\ Len(dst) = Len(rrun.at)
  /\ rpos' = rrun.pos
  /\ out' = dst
  /\ rpc' = "idle" /\ dst' = <<>> /\ rrun' = NoRun
  /\ UNCHANGED <<data, wpos, writeVars>>

-------------------------------------------------------------------------------
WriteStep ==
  \/ AskRoom \/ WriteCopy \/ WriteStore
  \/ \E n \in WriteSizes : \E s \in [1..n -> Byte] : WriteStart(s)

ReadStep == (\E n \in ReadSizes : ReadStart(n)) \/ ReadCopy \/ ReadStore

Next == WriteStep \/ ReadStep

Spec == Init /\ [][Next]_vars

-------------------------------------------------------------------------------
(* Properties *)

\* The bytes written and not yet read, oldest first.
Queue ==
  [i \in 1..rbuf_rcap(rpos, wpos) |-> data[(rpos + i - 1) % Slots]]

\* What can be read and what can be written always add up to the capacity, so
\* the two tests never both count a slot or both miss one (cmn_rbuf.c:37-85).
RoomAddsUp == rbuf_rcap(rpos, wpos) + rbuf_wcap(rpos, wpos) = Cap

\* No slot is at once still to be written by a write in progress and still to
\* be read by a read in progress.
RunsDisjoint ==
  \A i \in (wk + 1)..Len(wrun.at) : \A j \in (Len(dst) + 1)..Len(rrun.at) :
    wrun.at[i] # rrun.at[j]

\* A read gives, and a write takes, exactly what rbuf_rcap and rbuf_wcap say there
\* is, or all that was asked for: a write of a caller that asked for the room first
\* is never short, whatever was read meanwhile.
LengthsAgree ==
  [][/\ \A s \in UNION {[1..n -> Byte] : n \in WriteSizes} : WriteStart(s) =>
          Len(wrun'.at) = Min32(Len(s), rbuf_wcap(rpos, wpos))
     /\ \A n \in ReadSizes : ReadStart(n) =>
          Len(rrun'.at) = Min32(n, rbuf_rcap(rpos, wpos))]_vars

\* The buffer implements the bounded queue of bytes: nothing lost, duplicated
\* or reordered, however runs wrap around and reads and writes overlap.
Fifo == INSTANCE BoundedFifo WITH
  Capacity <- Cap,
  Item <- Byte,
  queue <- Queue,
  out <- out,
  mark <- 0

FifoSpec == Fifo!Spec
=============================================================================
