------------------------------ MODULE RbufProofs ------------------------------
(***************************************************************************)
(* Proofs about Rbuf for every capacity, alphabet and length of the        *)
(* transfers: that the two runs of bytes in progress stay apart, that      *)
(* transfers are as long as the capacities promise, and that the buffer    *)
(* implements BoundedFifo.                                                 *)
(***************************************************************************)
EXTENDS Rbuf, SequenceTheorems, TLAPS

\* What the callers keep to: the writer asks for the room first, and no reader asks
\* for as much as does not fit into a uint32_t.
Careful == AsksRoom /\ \A n \in ReadSizes : n < Modulus

-------------------------------------------------------------------------------
(* Positions. *)

\* One past the last slot is a position, and stands for slot 0.
Pos == 0..Slots

\* The bytes held between two positions.
Held(r, w) == rbuf_rcap(r, w)

\* The n slots from position p, around the end of the array.
Circle(p, n) == [i \in 1..n |-> (p + i - 1) % Slots]

\* Remainders of the numbers that fit.
LEMMA Fits ==
  ASSUME NEW x \in 0..(Modulus - 1)
  PROVE  x % Modulus = x
BY RbufAssumption, SMT

\* Remainders of the numbers that two positions add up to.
LEMMA Wrap ==
  ASSUME NEW x \in 0..(2 * Slots - 1)
  PROVE  x % Slots = IF x < Slots THEN x ELSE x - Slots
<1>1. Slots \in Nat \ {0}
  BY RbufAssumption DEF Slots
<1> HIDE DEF Slots
<1>2. CASE x < Slots
  BY <1>1, <1>2, SMT
<1>3. CASE ~(x < Slots)
  BY <1>1, <1>3, SMT
<1> QED
  BY <1>2, <1>3

\* The slot of the i-th byte from a position.
LEMMA SlotAt ==
  ASSUME NEW p \in Pos, NEW i \in 1..Slots
  PROVE  /\ (p + i - 1) % Slots = IF p + i - 1 < Slots THEN p + i - 1 ELSE p + i - 1 - Slots
         /\ (p + i - 1) % Slots \in Slot
<1>1. p + i - 1 \in 0..(2 * Slots - 1) /\ p \in Int /\ i \in Int
  BY RbufAssumption DEF Pos, Slots
<1>2. (p + i - 1) % Slots = IF p + i - 1 < Slots THEN p + i - 1 ELSE p + i - 1 - Slots
  <2>1. ASSUME NEW x \in 0..(2 * Slots - 1)
        PROVE  x % Slots = IF x < Slots THEN x ELSE x - Slots
    BY Wrap
  <2> DEFINE x == p + i - 1
  <2> HIDE DEF x
  <2>2. x % Slots = IF x < Slots THEN x ELSE x - Slots
    BY <1>1, <2>1 DEF x
  <2>3. Slots \in Nat \ {0}
    BY RbufAssumption DEF Slots
  <2> QED
    BY <1>1, <2>2, <2>3 DEF x
<1> QED
  BY <1>1, <1>2, RbufAssumption DEF Pos, Slots, Slot

\* _min of two numbers that fit.
LEMMA MinValue ==
  ASSUME NEW a \in 0..(Modulus - 1), NEW b \in 0..(Modulus - 1)
  PROVE  Min32(a, b) = IF a < b THEN a ELSE b
BY Fits DEF Min32

\* What can be read and written, of a buffer that is not overfull.
LEMMA HeldValue ==
  ASSUME NEW r \in Pos, NEW w \in Pos, Held(r, w) \in 0..Cap
  PROVE  /\ Held(r, w) = IF w < r THEN w - r + Slots ELSE w - r
         /\ rbuf_wcap(r, w) = Cap - Held(r, w)
<1>1. Held(r, w) = IF w < r THEN w - r + Slots ELSE w - r
  BY RbufAssumption DEF Held, rbuf_rcap, Slots, Pos
<1>2. CASE w < r
  BY <1>1, <1>2, RbufAssumption DEF rbuf_wcap, Slots, Pos
<1>3. CASE ~(w < r)
  <2>1. Cap - w + r \in 0..(Modulus - 1) /\ Cap - w + r = Cap - Held(r, w)
    BY <1>1, <1>3, RbufAssumption DEF Slots, Pos
  <2>2. (Cap - w + r) % Modulus = Cap - w + r
    BY ONLY <2>1, Fits
  <2>3. rbuf_wcap(r, w) = (Cap - w + r) % Modulus
    BY <1>3 DEF rbuf_wcap
  <2> QED
    BY <1>1, <2>1, <2>2, <2>3
<1> QED
  BY <1>1, <1>2, <1>3

-------------------------------------------------------------------------------
(* Runs. *)

\* n slots that do not reach the end of the array, which a position may.
LEMMA SpanValue ==
  ASSUME NEW p \in Pos, NEW n \in Nat, p + n <= Slots
  PROVE  Span(p, n) = Circle(p, n)
<1>1. SUFFICES ASSUME NEW i \in 1..n PROVE p + i - 1 = (p + i - 1) % Slots
  BY DEF Span, Circle
<1> QED
  BY SlotAt, RbufAssumption DEF Pos, Slots

\* The rest of the array, and the front of it.
LEMMA SpansValue ==
  ASSUME NEW p \in Pos, NEW n \in Nat, n <= p
  PROVE  Span(p, Slots - p) \o Span(0, n) = Circle(p, Slots - p + n)
<1> DEFINE a == Span(p, Slots - p)
           b == Span(0, n)
           c == Circle(p, Slots - p + n)
<1>1. Slots \in Nat /\ p \in Nat /\ p <= Slots /\ n <= Slots
  BY RbufAssumption DEF Pos, Slots
<1>2. a \in Seq(Int) /\ Len(a) = Slots - p /\ \A i \in 1..(Slots - p) : a[i] = p + i - 1
  BY <1>1 DEF Span
<1>3. b \in Seq(Int) /\ Len(b) = n /\ \A i \in 1..n : b[i] = i - 1
  BY <1>1 DEF Span
<1>4. \A i \in 1..(Slots - p + n) : /\ c[i] = IF p + i - 1 < Slots THEN p + i - 1 ELSE p + i - 1 - Slots
                                    /\ c[i] \in Int
  BY <1>1, SlotAt DEF Circle, Slot
<1>5. c \in Seq(Int) /\ Len(c) = Slots - p + n
  <2>1. Slots - p + n \in Nat
    BY <1>1
  <2> QED
    BY <2>1, <1>4 DEF Circle
<1> HIDE DEF a, b, c
<1>6. /\ a \o b \in Seq(Int) /\ Len(a \o b) = Slots - p + n
      /\ \A i \in 1..(Slots - p + n) : (a \o b)[i] = IF i <= Slots - p THEN a[i] ELSE b[i - (Slots - p)]
  <2>1. Len(a) + Len(b) = Slots - p + n
    BY <1>1, <1>2, <1>3
  <2>2. /\ a \o b \in Seq(Int) /\ Len(a \o b) = Len(a) + Len(b)
        /\ \A i \in 1..(Len(a) + Len(b)) : (a \o b)[i] = IF i <= Len(a) THEN a[i] ELSE b[i - Len(a)]
    BY <1>2, <1>3, ConcatProperties
  <2> QED
    BY <1>2, <2>1, <2>2
<1>7. \A i \in 1..(Slots - p + n) : (a \o b)[i] = c[i]
  BY <1>1, <1>2, <1>3, <1>4, <1>6
<1>8. a \o b = c
  BY <1>5, <1>6, <1>7, SeqEqual
<1> QED
  BY <1>8 DEF a, b, c

\* How much a read of n bytes takes.
Short(h, n) == IF n < h THEN n ELSE h

\* A read goes through the oldest bytes held, and stores the position after them.
LEMMA ReadRunValue ==
  ASSUME NEW r \in Pos, NEW w \in Pos, Held(r, w) \in 0..Cap, NEW n \in 0..(Modulus - 1)
  PROVE  LET k == Short(Held(r, w), n)
         IN  /\ k \in 0..Held(r, w)
             /\ ReadRun(r, w, n).at = Circle(r, k)
             /\ ReadRun(r, w, n).pos \in Pos
             /\ \/ ReadRun(r, w, n).pos = r + k
                \/ w < r /\ ReadRun(r, w, n).pos = r + k - Slots
<1> DEFINE k == Short(Held(r, w), n)
<1>1. /\ Held(r, w) = IF w < r THEN w - r + Slots ELSE w - r
      /\ Slots = Cap + 1 /\ Cap \in Nat /\ r \in 0..Slots /\ w \in 0..Slots /\ n \in Nat
  BY HeldValue, RbufAssumption DEF Slots, Pos
<1>2. k \in 0..Held(r, w) /\ k <= n
  BY <1>1 DEF Short
<1>3. CASE w < r
  <2>1. Cap - r + 1 \in 0..(Modulus - 1) /\ Cap - r + 1 = Slots - r
    BY <1>1, RbufAssumption
  <2>2. Min32(Cap - r + 1, n) = IF Slots - r < n THEN Slots - r ELSE n
    BY <1>1, <2>1, MinValue
  <2>3. CASE Slots - r < n
    <3>1. n - (Slots - r) \in 0..(Modulus - 1) /\ w \in 0..(Modulus - 1)
      BY <1>1, <1>3, <2>3, RbufAssumption
    <3>2. Min32(w, n - (Slots - r)) = IF w < n - (Slots - r) THEN w ELSE n - (Slots - r)
      BY <3>1, MinValue
    <3> DEFINE m == Min32(w, n - (Slots - r))
    <3>3. m \in Nat /\ m <= r /\ Slots - r + m = k
      BY <1>1, <1>3, <2>3, <3>2 DEF Short
    <3>4. ReadRun(r, w, n) = [at |-> Span(r, Slots - r) \o Span(0, m), pos |-> m]
      BY <1>3, <2>2, <2>3 DEF ReadRun
    <3> HIDE DEF m, k
    <3>5. Span(r, Slots - r) \o Span(0, m) = Circle(r, Slots - r + m)
      BY <3>3, SpansValue
    <3>6. m \in Pos /\ m = r + k - Slots
      BY <1>1, <1>2, <3>3 DEF Pos
    <3> QED
      BY <1>2, <1>3, <3>3, <3>4, <3>5, <3>6 DEF k
  <2>4. CASE ~(Slots - r < n)
    <3>1. ReadRun(r, w, n) = [at |-> Span(r, n), pos |-> r + n]
      BY <1>1, <1>3, <2>2, <2>4 DEF ReadRun
    <3>2. k = n /\ r + n <= Slots
      BY <1>1, <1>3, <2>4 DEF Short
    <3>3. Span(r, n) = Circle(r, n)
      BY <1>1, <3>2, SpanValue
    <3>4. r + n \in Pos
      BY <1>1, <3>2 DEF Pos
    <3> QED
      BY <1>2, <3>1, <3>2, <3>3, <3>4
  <2> QED
    BY <2>3, <2>4
<1>4. CASE ~(w < r)
  <2>1. w - r \in 0..(Modulus - 1) /\ w - r = Held(r, w)
    BY <1>1, <1>4, RbufAssumption
  <2>2. Min32(w - r, n) = k
    BY <1>1, <2>1, MinValue DEF Short
  <2>3. ReadRun(r, w, n) = [at |-> Span(r, k), pos |-> r + k]
    BY <1>4, <2>2 DEF ReadRun
  <2>4. k \in Nat /\ r + k <= Slots /\ r + k \in Pos
    BY <1>1, <1>2, <1>4 DEF Pos
  <2> HIDE DEF k
  <2>5. Span(r, k) = Circle(r, k)
    BY <2>4, SpanValue
  <2> QED
    BY <1>2, <2>3, <2>4, <2>5 DEF k
<1> QED
  BY <1>3, <1>4

\* A write of no more than there is room for goes through the slots behind the bytes
\* held, all of it, and stores the position after them.
LEMMA WriteRunValue ==
  ASSUME NEW r \in Pos, NEW w \in Pos, Held(r, w) \in 0..Cap, NEW n \in 0..(Cap - Held(r, w))
  PROVE  /\ WriteRun(r, w, n).at = Circle(w, n)
         /\ WriteRun(r, w, n).pos = IF w + n <= Slots THEN w + n ELSE w + n - Slots
         /\ WriteRun(r, w, n).pos \in Pos
<1>1. /\ Held(r, w) = IF w < r THEN w - r + Slots ELSE w - r
      /\ Slots = Cap + 1 /\ Cap \in Nat /\ r \in 0..Slots /\ w \in 0..Slots
      /\ n \in Nat /\ n \in 0..(Modulus - 1)
  BY HeldValue, RbufAssumption DEF Slots, Pos
<1>2. CASE w < r
  <2>1. r - w - 1 \in 0..(Modulus - 1) /\ n <= r - w - 1
    BY <1>1, <1>2, RbufAssumption
  <2>2. Min32(r - w - 1, n) = n
    BY <1>1, <2>1, MinValue
  <2>3. WriteRun(r, w, n) = [at |-> Span(w, n), pos |-> w + n]
    BY <1>2, <2>2 DEF WriteRun
  <2>4. w + n <= Slots /\ w + n \in Pos
    BY <1>1, <2>1 DEF Pos
  <2> QED
    BY <1>1, <2>3, <2>4, SpanValue
<1>3. CASE ~(w < r)
  <2>1. Cap - w + 1 \in 0..(Modulus - 1) /\ Cap - w + 1 = Slots - w
    BY <1>1, RbufAssumption
  <2>2. (Cap - w + 1) % Modulus = Slots - w
    BY <2>1, Fits
  <2>3. Min32(Slots - w, n) = IF Slots - w < n THEN Slots - w ELSE n
    BY <1>1, <2>1, MinValue
  <2>4. CASE Slots - w < n
    <3> DEFINE m == n - (Slots - w)
    <3>1. r - 1 \in 0..(Modulus - 1) /\ m \in 0..(r - 1) /\ m \in 0..(Modulus - 1)
      BY <1>1, <1>3, <2>4, RbufAssumption
    <3>2. (r - 1) % Modulus = r - 1
      BY <3>1, Fits
    <3>3. Min32(r - 1, m) = m
      BY <3>1, <1>1, MinValue
    <3>4. WriteRun(r, w, n) = [at |-> Span(w, Slots - w) \o Span(0, m), pos |-> m]
      BY <1>3, <2>2, <2>3, <2>4, <3>2, <3>3 DEF WriteRun
    <3>5. m \in Nat /\ m <= w /\ Slots - w + m = n /\ m \in Pos
      BY <1>1, <1>3, <3>1 DEF Pos
    <3>6. m = w + n - Slots /\ ~(w + n <= Slots)
      BY <1>1, <2>4
    <3> HIDE DEF m
    <3>7. Span(w, Slots - w) \o Span(0, m) = Circle(w, Slots - w + m)
      BY <3>5, SpansValue
    <3> QED
      BY <3>4, <3>5, <3>6, <3>7
  <2>5. CASE ~(Slots - w < n)
    <3>1. WriteRun(r, w, n) = [at |-> Span(w, n), pos |-> w + n]
      BY <1>1, <1>3, <2>2, <2>3, <2>5 DEF WriteRun
    <3>2. w + n <= Slots /\ w + n \in Pos
      BY <1>1, <2>5 DEF Pos
    <3> QED
      BY <1>1, <3>1, <3>2, SpanValue
  <2> QED
    BY <2>4, <2>5
<1> QED
  BY <1>2, <1>3

-------------------------------------------------------------------------------
(* What stores of positions do to the bytes held. *)

\* Different bytes around the array are in different slots.
LEMMA SlotsDiffer ==
  ASSUME NEW p \in Pos, NEW i \in 1..Slots, NEW j \in 1..Slots, i # j
  PROVE  (p + i - 1) % Slots # (p + j - 1) % Slots
<1>1. Slots \in Nat /\ p \in 0..Slots
  BY RbufAssumption DEF Pos, Slots
<1>2. (p + i - 1) % Slots = IF p + i - 1 < Slots THEN p + i - 1 ELSE p + i - 1 - Slots
  BY SlotAt
<1>3. (p + j - 1) % Slots = IF p + j - 1 < Slots THEN p + j - 1 ELSE p + j - 1 - Slots
  BY SlotAt
<1> QED
  BY <1>1, <1>2, <1>3

\* The slots to write are those behind the bytes held.
LEMMA SlotsBehind ==
  ASSUME NEW r \in Pos, NEW w \in Pos, Held(r, w) \in 0..Cap, NEW j \in 1..(Slots - Held(r, w))
  PROVE  (w + j - 1) % Slots = (r + (Held(r, w) + j) - 1) % Slots
<1> DEFINE h == Held(r, w)
<1>1. /\ h = IF w < r THEN w - r + Slots ELSE w - r
      /\ Slots \in Nat /\ r \in 0..Slots /\ w \in 0..Slots /\ h \in 0..(Slots - 1)
  BY HeldValue, RbufAssumption DEF Slots, Pos
<1> HIDE DEF h
<1>2. j \in 1..Slots /\ h + j \in 1..Slots
  BY <1>1 DEF h
<1>3. (w + j - 1) % Slots = IF w + j - 1 < Slots THEN w + j - 1 ELSE w + j - 1 - Slots
  BY <1>2, SlotAt
<1>4. (r + (h + j) - 1) % Slots
        = IF r + (h + j) - 1 < Slots THEN r + (h + j) - 1 ELSE r + (h + j) - 1 - Slots
  BY <1>2, SlotAt
<1>5. (w + j - 1) % Slots = (r + (h + j) - 1) % Slots
  BY <1>1, <1>2, <1>3, <1>4
<1> QED
  BY <1>5 DEF h

\* The position that a read of k bytes stores leaves the others held.
LEMMA AfterRead ==
  ASSUME NEW r \in Pos, NEW w \in Pos, Held(r, w) \in 0..Cap, NEW k \in 0..Held(r, w),
         NEW p \in Pos, p = r + k \/ (w < r /\ p = r + k - Slots)
  PROVE  /\ Held(p, w) = Held(r, w) - k
         /\ \A i \in 1..(Held(r, w) - k) : (p + i - 1) % Slots = (r + (k + i) - 1) % Slots
<1> DEFINE h == Held(r, w)
<1>1. /\ h = IF w < r THEN w - r + Slots ELSE w - r
      /\ Slots = Cap + 1 /\ Slots \in Nat /\ Cap \in Nat
      /\ r \in 0..Slots /\ w \in 0..Slots /\ p \in 0..Slots /\ h \in 0..Cap
  BY HeldValue, RbufAssumption DEF Slots, Pos
<1>2. Held(p, w) = h - k
  BY <1>1 DEF Held, rbuf_rcap
<1> HIDE DEF h
<1>3. ASSUME NEW i \in 1..(h - k)
      PROVE  (p + i - 1) % Slots = (r + (k + i) - 1) % Slots
  <2>1. k \in 0..h
    BY DEF h
  <2>2. i \in 1..Slots /\ k + i \in 1..Slots
    BY <1>1, <2>1
  <2>3. (p + i - 1) % Slots = IF p + i - 1 < Slots THEN p + i - 1 ELSE p + i - 1 - Slots
    BY <2>2, SlotAt
  <2>4. (r + (k + i) - 1) % Slots
          = IF r + (k + i) - 1 < Slots THEN r + (k + i) - 1 ELSE r + (k + i) - 1 - Slots
    BY <2>2, SlotAt
  <2> QED
    BY <1>1, <2>1, <2>2, <2>3, <2>4
<1> QED
  BY <1>2, <1>3 DEF h

\* The position that a write of n bytes stores holds them too, and never passes the reader.
LEMMA AfterWrite ==
  ASSUME NEW r \in Pos, NEW w \in Pos, Held(r, w) \in 0..Cap, NEW n \in 0..(Cap - Held(r, w))
  PROVE  LET p == IF w + n <= Slots THEN w + n ELSE w + n - Slots
         IN  Held(r, p) = Held(r, w) + n /\ (w < r => p < r)
<1>1. /\ Held(r, w) = IF w < r THEN w - r + Slots ELSE w - r
      /\ Slots = Cap + 1 /\ Cap \in Nat /\ r \in 0..Slots /\ w \in 0..Slots
  BY HeldValue, RbufAssumption DEF Slots, Pos
<1> QED
  BY <1>1 DEF Held, rbuf_rcap

-------------------------------------------------------------------------------
(* The inductive invariant. *)

\* The buffer: it never holds more than its capacity.
BufferOK ==
  /\ data \in [Slot -> Byte]
  /\ rpos \in Pos /\ wpos \in Pos
  /\ Held(rpos, wpos) \in 0..Cap

\* The writer: the room it was told of is still there, and the bytes copied so far are
\* behind those held.
WriterOK ==
  /\ wpc \in {"idle", "asked", "copy"}
  /\ room \in Nat /\ src \in Seq(Byte) /\ wk \in Nat
  /\ wpc = "asked" => room <= Cap - Held(rpos, wpos)
  /\ wpc = "copy" =>
       /\ Len(src) <= Cap - Held(rpos, wpos)
       /\ wrun.at = Circle(wpos, Len(src))
       /\ wrun.pos = IF wpos + Len(src) <= Slots THEN wpos + Len(src) ELSE wpos + Len(src) - Slots
       /\ wk <= Len(src)
       /\ \A j \in 1..wk : data[(wpos + j - 1) % Slots] = src[j]
  /\ wpc # "copy" => wk = 0 /\ src = <<>> /\ wrun = NoRun

\* The reader: the bytes it takes are still held, those copied so far are the oldest ones,
\* and the position it will store is not one the writer could be at from the other side.
ReaderOK ==
  /\ rpc \in {"idle", "copy"}
  /\ dst \in Seq(Byte) /\ out \in Seq(Byte)
  /\ rpc = "copy" =>
       LET k == Len(rrun.at)
       IN  /\ k \in 0..Held(rpos, wpos)
           /\ rrun.at = Circle(rpos, k)
           /\ rrun.pos \in Pos
           /\ rrun.pos = rpos + k \/ (wpos < rpos /\ rrun.pos = rpos + k - Slots)
           /\ Len(dst) <= k
           /\ \A j \in 1..Len(dst) : dst[j] = data[(rpos + j - 1) % Slots]
  /\ rpc = "idle" => rrun = NoRun /\ dst = <<>>

IInv == BufferOK /\ WriterOK /\ ReaderOK

-------------------------------------------------------------------------------
LEMMA InitOK == Init => IInv
<1> SUFFICES ASSUME Init PROVE IInv
  OBVIOUS
<1>1. 0 \in Pos /\ Held(0, 0) = 0 /\ Cap \in Nat
  BY RbufAssumption DEF Pos, Slots, Held, rbuf_rcap
<1> QED
  BY <1>1 DEF Init, IInv, BufferOK, WriterOK, ReaderOK

\* The slots of a run, one by one.
LEMMA CircleAt ==
  ASSUME NEW p, NEW n \in Nat
  PROVE  Len(Circle(p, n)) = n /\ \A i \in 1..n : Circle(p, n)[i] = (p + i - 1) % Slots
BY DEF Circle

LEMMA AskRoomOK == IInv /\ AskRoom => IInv'
<1> SUFFICES ASSUME IInv, AskRoom PROVE IInv'
  OBVIOUS
<1>1. rbuf_wcap(rpos, wpos) = Cap - Held(rpos, wpos) /\ Cap - Held(rpos, wpos) \in Nat
  BY HeldValue, RbufAssumption DEF IInv, BufferOK
<1>2. BufferOK' /\ ReaderOK'
  BY DEF AskRoom, bufVars, readVars, IInv, BufferOK, ReaderOK
<1>3. WriterOK'
  BY <1>1 DEF AskRoom, bufVars, IInv, WriterOK
<1> QED
  BY <1>2, <1>3 DEF IInv

LEMMA WriteStartOK ==
  ASSUME Careful, IInv, NEW n \in WriteSizes, NEW s \in [1..n -> Byte], WriteStart(s)
  PROVE  IInv'
<1>1. n \in Nat /\ s \in Seq(Byte) /\ Len(s) \in Nat
  BY RbufAssumption
<1>2. Len(s) \in 0..(Cap - Held(rpos, wpos)) /\ wk = 0
  BY <1>1, RbufAssumption DEF Careful, WriteStart, IInv, WriterOK, BufferOK
<1>3. /\ WriteRun(rpos, wpos, Len(s)).at = Circle(wpos, Len(s))
      /\ WriteRun(rpos, wpos, Len(s)).pos
           = IF wpos + Len(s) <= Slots THEN wpos + Len(s) ELSE wpos + Len(s) - Slots
  BY <1>2, WriteRunValue DEF IInv, BufferOK
<1>4. BufferOK' /\ ReaderOK'
  BY DEF WriteStart, bufVars, readVars, IInv, BufferOK, ReaderOK
<1>5. WriterOK'
  BY <1>1, <1>2, <1>3 DEF WriteStart, bufVars, IInv, WriterOK
<1> QED
  BY <1>4, <1>5 DEF IInv

\* The next byte is copied into a slot of the array, behind those held and behind
\* those copied before.
LEMMA CopySlot ==
  ASSUME IInv, WriteCopy
  PROVE  LET t == (wpos + (wk + 1) - 1) % Slots
         IN  /\ wk + 1 \in 1..Len(src) /\ t \in Slot
             /\ data' = [data EXCEPT ![t] = src[wk + 1]] /\ data' \in [Slot -> Byte]
             /\ \A i \in 1..Held(rpos, wpos) :
                  (rpos + i - 1) % Slots # t /\ (rpos + i - 1) % Slots \in Slot
             /\ \A i \in 1..wk :
                  (wpos + i - 1) % Slots # t /\ (wpos + i - 1) % Slots \in Slot
<1> DEFINE h == Held(rpos, wpos)
<1>1. /\ wpc = "copy" /\ rpos \in Pos /\ wpos \in Pos /\ h \in 0..Cap /\ wk \in Nat
      /\ src \in Seq(Byte) /\ Len(src) \in Nat /\ Len(src) <= Cap - h
      /\ wk <= Len(src) /\ data \in [Slot -> Byte]
  BY DEF WriteCopy, IInv, BufferOK, WriterOK
<1>2. Slots = Cap + 1 /\ Slots \in Nat /\ Cap \in Nat
  BY RbufAssumption DEF Slots
<1>3. /\ wrun.at = Circle(wpos, Len(src)) /\ Len(wrun.at) = Len(src)
      /\ \A i \in 1..Len(src) : wrun.at[i] = (wpos + i - 1) % Slots
  BY <1>1, CircleAt DEF IInv, WriterOK
<1> HIDE DEF h
<1> DEFINE t == (wpos + (wk + 1) - 1) % Slots
<1>4. wk + 1 \in 1..Len(src) /\ wk + 1 \in 1..(Slots - h) /\ wk + 1 \in 1..Slots /\ wrun.at[wk + 1] = t
  <2>1. wk < Len(src)
    BY <1>3 DEF WriteCopy
  <2>2. wk + 1 \in 1..Len(src) /\ wk + 1 \in 1..(Slots - h) /\ wk + 1 \in 1..Slots
    <3> DEFINE n == Len(src)
    <3>1. n \in Nat /\ n <= Cap - h /\ wk < n /\ wk \in Nat /\ h \in 0..Cap
      BY <1>1, <2>1
    <3> HIDE DEF n
    <3>2. wk + 1 \in 1..n /\ wk + 1 \in 1..(Slots - h) /\ wk + 1 \in 1..Slots
      BY <1>2, <3>1
    <3> QED
      BY <3>2 DEF n
  <2>3. wrun.at[wk + 1] = t
    BY <1>3, <2>2, Zenon
  <2> QED
    BY <2>2, <2>3
<1>5. t \in Slot
  BY <1>1, <1>4, SlotAt
<1>6. ASSUME NEW i \in 1..h
      PROVE  (rpos + i - 1) % Slots # t /\ (rpos + i - 1) % Slots \in Slot
  <2>1. t = (rpos + (h + (wk + 1)) - 1) % Slots
    BY <1>1, <1>4, SlotsBehind DEF h
  <2>2. i \in 1..Slots /\ h + (wk + 1) \in 1..Slots /\ i # h + (wk + 1)
    BY <1>1, <1>2, <1>4
  <2> HIDE DEF t
  <2>3. (rpos + i - 1) % Slots # t
    BY <1>1, <2>1, <2>2, SlotsDiffer
  <2> QED
    BY <1>1, <2>2, <2>3, SlotAt
<1>7. ASSUME NEW i \in 1..wk
      PROVE  (wpos + i - 1) % Slots # t /\ (wpos + i - 1) % Slots \in Slot
  <2>1. i \in 1..Slots /\ i # wk + 1
    BY <1>1, <1>2, <1>4
  <2>2. (wpos + i - 1) % Slots # t
    BY <1>1, <1>4, <2>1, SlotsDiffer
  <2> QED
    BY <1>1, <2>1, <2>2, SlotAt
<1>8. src[wk + 1] \in Byte
  BY <1>1, <1>4
<1> HIDE DEF t
<1>9. data' = [data EXCEPT ![t] = src[wk + 1]] /\ data' \in [Slot -> Byte]
  BY <1>1, <1>4, <1>5, <1>8 DEF WriteCopy
<1> QED
  BY <1>4, <1>5, <1>6, <1>7, <1>9 DEF h, t

\* None of the bytes held changes.
LEMMA HeldUntouched ==
  ASSUME IInv, WriteCopy
  PROVE  \A i \in 1..Held(rpos, wpos) :
           data'[(rpos + i - 1) % Slots] = data[(rpos + i - 1) % Slots]
<1> DEFINE t == (wpos + (wk + 1) - 1) % Slots
<1>1. /\ data' = [data EXCEPT ![t] = src[wk + 1]]
      /\ \A i \in 1..Held(rpos, wpos) :
           (rpos + i - 1) % Slots # t /\ (rpos + i - 1) % Slots \in Slot
  BY CopySlot
<1>2. data \in [Slot -> Byte]
  BY DEF IInv, BufferOK
<1> HIDE DEF t
<1> QED
  BY <1>1, <1>2

LEMMA WriteCopyOK == IInv /\ WriteCopy => IInv'
<1> SUFFICES ASSUME IInv, WriteCopy PROVE IInv'
  OBVIOUS
<1> DEFINE t == (wpos + (wk + 1) - 1) % Slots
<1>1. /\ wk + 1 \in 1..Len(src) /\ t \in Slot
      /\ data' = [data EXCEPT ![t] = src[wk + 1]] /\ data' \in [Slot -> Byte]
      /\ \A i \in 1..wk : (wpos + i - 1) % Slots # t /\ (wpos + i - 1) % Slots \in Slot
  BY CopySlot
<1>2. /\ wpc = "copy" /\ wk \in Nat /\ Len(src) \in Nat /\ data \in [Slot -> Byte]
      /\ wrun.at = Circle(wpos, Len(src)) /\ Held(rpos, wpos) \in 0..Cap
  BY DEF WriteCopy, IInv, WriterOK, BufferOK
<1>3. ASSUME NEW i \in 1..(wk + 1) PROVE data'[(wpos + i - 1) % Slots] = src[i]
  <2>1. CASE i = wk + 1
    <3> HIDE DEF t
    <3>1. data'[t] = src[wk + 1]
      BY <1>1, <1>2
    <3> QED
      BY <2>1, <3>1 DEF t
  <2>2. CASE i # wk + 1
    <3>1. i \in 1..wk
      BY <1>2, <2>2
    <3>2. data[(wpos + i - 1) % Slots] = src[i]
      BY <1>2, <3>1 DEF IInv, WriterOK
    <3> HIDE DEF t
    <3> QED
      BY <1>1, <1>2, <3>1, <3>2
  <2> QED
    BY <2>1, <2>2
<1> HIDE DEF t
<1>4. BufferOK'
  BY <1>1 DEF WriteCopy, IInv, BufferOK
<1>5. WriterOK'
  BY <1>1, <1>2, <1>3 DEF WriteCopy, IInv, WriterOK
<1>6. ReaderOK'
  <2>1. ASSUME rpc = "copy", NEW j \in 1..Len(dst) PROVE dst[j] = data'[(rpos + j - 1) % Slots]
    <3>1. j \in 1..Held(rpos, wpos)
      BY <1>2, <2>1 DEF IInv, ReaderOK
    <3> QED
      BY <2>1, <3>1, HeldUntouched DEF IInv, ReaderOK
  <2> QED
    BY <2>1 DEF WriteCopy, readVars, IInv, ReaderOK
<1> QED
  BY <1>4, <1>5, <1>6 DEF IInv

\* The bytes written are held from now on; the room of the next write is not known yet.
LEMMA WriteStoreOK == IInv /\ WriteStore => IInv'
<1> SUFFICES ASSUME IInv, WriteStore PROVE IInv'
  OBVIOUS
<1> DEFINE h == Held(rpos, wpos)
           n == Len(src)
<1>1. /\ rpos \in Pos /\ wpos \in Pos /\ h \in 0..Cap /\ n \in 0..(Cap - h)
      /\ wpos' = IF wpos + n <= Slots THEN wpos + n ELSE wpos + n - Slots
  BY RbufAssumption DEF WriteStore, IInv, BufferOK, WriterOK
<1>2. Slots = Cap + 1 /\ Slots \in Nat /\ Cap \in Nat
  BY RbufAssumption DEF Slots
<1>3. Held(rpos, wpos') = h + n /\ (wpos < rpos => wpos' < rpos)
  BY <1>1, AfterWrite
<1> HIDE DEF h, n
<1>4. wpos' \in Pos /\ h + n \in 0..Cap
  BY <1>1, <1>2 DEF Pos
<1>5. BufferOK'
  BY <1>1, <1>3, <1>4 DEF WriteStore, IInv, BufferOK
<1>6. WriterOK'
  BY DEF WriteStore, IInv, WriterOK
<1>7. ASSUME rpc = "copy" PROVE Len(rrun.at) \in 0..Held(rpos, wpos')
  <2>1. Len(rrun.at) \in 0..h
    BY <1>7 DEF IInv, ReaderOK, h
  <2> QED
    BY <1>1, <1>2, <1>3, <2>1
<1>8. ReaderOK'
  BY <1>3, <1>7 DEF WriteStore, readVars, IInv, ReaderOK
<1> QED
  BY <1>5, <1>6, <1>8 DEF IInv

LEMMA ReadStartOK ==
  ASSUME Careful, IInv, NEW n \in ReadSizes, ReadStart(n)
  PROVE  IInv'
<1> DEFINE k == Short(Held(rpos, wpos), n)
<1>1. n \in 0..(Modulus - 1) /\ rpos \in Pos /\ wpos \in Pos /\ Held(rpos, wpos) \in 0..Cap
  BY RbufAssumption DEF Careful, IInv, BufferOK
<1>2. /\ k \in 0..Held(rpos, wpos) /\ rrun'.at = Circle(rpos, k) /\ rrun'.pos \in Pos
      /\ rrun'.pos = rpos + k \/ (wpos < rpos /\ rrun'.pos = rpos + k - Slots)
  BY <1>1, ReadRunValue DEF ReadStart
<1> HIDE DEF k
<1>3. k \in Nat /\ Len(rrun'.at) = k
  BY <1>1, <1>2, CircleAt
<1>4. BufferOK' /\ WriterOK'
  BY DEF ReadStart, bufVars, writeVars, IInv, BufferOK, WriterOK
<1>5. dst' = <<>> /\ Len(dst') = 0 /\ dst' \in Seq(Byte) /\ out' \in Seq(Byte)
  BY DEF ReadStart, IInv, ReaderOK
<1>6. ReaderOK'
  BY <1>2, <1>3, <1>5 DEF ReadStart, bufVars, writeVars, IInv, ReaderOK
<1> QED
  BY <1>4, <1>6 DEF IInv

LEMMA ReadCopyOK == IInv /\ ReadCopy => IInv'
<1> SUFFICES ASSUME IInv, ReadCopy PROVE IInv'
  OBVIOUS
<1> DEFINE k == Len(rrun.at)
           h == Held(rpos, wpos)
           t == (rpos + (Len(dst) + 1) - 1) % Slots
<1>1. /\ rpos \in Pos /\ wpos \in Pos /\ h \in 0..Cap /\ k \in 0..h
      /\ dst \in Seq(Byte) /\ Len(dst) \in Nat /\ Len(dst) < k
      /\ rrun.at = Circle(rpos, k) /\ data \in [Slot -> Byte]
  BY DEF ReadCopy, IInv, BufferOK, ReaderOK
<1>2. Slots = Cap + 1 /\ Slots \in Nat /\ Cap \in Nat
  BY RbufAssumption DEF Slots
<1> HIDE DEF k, h
<1>3. Len(dst) + 1 \in 1..k /\ Len(dst) + 1 \in 1..Slots /\ k \in Nat
  BY <1>1, <1>2
<1>4. rrun.at[Len(dst) + 1] = t
  BY <1>1, <1>3, CircleAt
<1>5. t \in Slot
  BY <1>1, <1>3, SlotAt
<1> HIDE DEF t
<1>6. dst' = Append(dst, data[t]) /\ data[t] \in Byte
  BY <1>1, <1>4, <1>5 DEF ReadCopy
<1>7. /\ dst' \in Seq(Byte) /\ Len(dst') = Len(dst) + 1
      /\ dst'[Len(dst) + 1] = data[t] /\ \A i \in 1..Len(dst) : dst'[i] = dst[i]
  BY <1>1, <1>6
<1>8. ASSUME NEW j \in 1..Len(dst') PROVE dst'[j] = data[(rpos + j - 1) % Slots]
  <2>1. CASE j = Len(dst) + 1
    BY <1>7, <2>1 DEF t
  <2>2. CASE j # Len(dst) + 1
    <3>1. j \in 1..Len(dst)
      BY <1>1, <1>7, <2>2
    <3> QED
      BY <1>7, <3>1 DEF ReadCopy, IInv, ReaderOK
  <2> QED
    BY <2>1, <2>2
<1>9. BufferOK' /\ WriterOK'
  BY DEF ReadCopy, bufVars, writeVars, IInv, BufferOK, WriterOK
<1>10. Len(dst') <= k
  BY <1>1, <1>7, <1>3
<1>11. ReaderOK'
  BY <1>7, <1>8, <1>10 DEF ReadCopy, bufVars, writeVars, IInv, ReaderOK, k
<1> QED
  BY <1>9, <1>11 DEF IInv

\* The bytes read are not held any more: there is only more room than before.
LEMMA ReadStoreOK == IInv /\ ReadStore => IInv'
<1> SUFFICES ASSUME IInv, ReadStore PROVE IInv'
  OBVIOUS
<1> DEFINE k == Len(rrun.at)
           h == Held(rpos, wpos)
<1>1. /\ rpos \in Pos /\ wpos \in Pos /\ h \in 0..Cap /\ k \in 0..h
      /\ rpos' \in Pos
      /\ rpos' = rpos + k \/ (wpos < rpos /\ rpos' = rpos + k - Slots)
  BY DEF ReadStore, IInv, BufferOK, ReaderOK
<1>2. Cap \in Nat
  BY RbufAssumption
<1> HIDE DEF k
<1>3. Held(rpos', wpos) = h - k
  BY <1>1, AfterRead
<1> HIDE DEF h
<1>4. h - k \in 0..Cap /\ Cap - h <= Cap - (h - k)
  BY <1>1, <1>2
<1>5. BufferOK'
  <2>1. Held(rpos', wpos') \in 0..Cap
    BY <1>3, <1>4 DEF ReadStore
  <2> QED
    BY <1>1, <2>1 DEF ReadStore, IInv, BufferOK
<1>6. ASSUME NEW m \in Nat, m <= Cap - h PROVE m <= Cap - Held(rpos', wpos)
  BY <1>1, <1>2, <1>3, <1>4, <1>6
<1>7. Len(src) \in Nat /\ room \in Nat
  BY DEF IInv, WriterOK
<1>8. /\ wpc = "asked" => room <= Cap - Held(rpos', wpos)
      /\ wpc = "copy" => Len(src) <= Cap - Held(rpos', wpos)
  BY <1>6, <1>7 DEF IInv, WriterOK, h
<1>9. WriterOK'
  BY <1>8 DEF ReadStore, writeVars, IInv, WriterOK
<1>10. ReaderOK'
  BY DEF ReadStore, IInv, ReaderOK
<1> QED
  BY <1>5, <1>9, <1>10 DEF IInv

LEMMA NextOK ==
  ASSUME Careful
  PROVE  IInv /\ [Next]_vars => IInv'
<1> SUFFICES ASSUME IInv, [Next]_vars PROVE IInv'
  OBVIOUS
<1>1. CASE WriteStep
  BY <1>1, AskRoomOK, WriteStartOK, WriteCopyOK, WriteStoreOK DEF WriteStep
<1>2. CASE ReadStep
  BY <1>2, ReadStartOK, ReadCopyOK, ReadStoreOK DEF ReadStep
<1>3. CASE UNCHANGED vars
  BY <1>3 DEF vars, IInv, BufferOK, WriterOK, ReaderOK
<1> QED
  BY <1>1, <1>2, <1>3 DEF Next

LEMMA Invariant ==
  ASSUME Careful
  PROVE  Spec => []IInv
<1>1. Init => IInv
  BY InitOK
<1>2. IInv /\ [Next]_vars => IInv'
  BY NextOK
<1> QED
  BY <1>1, <1>2, PTL DEF Spec

-------------------------------------------------------------------------------
(* What can be read and what can be written add up to the capacity, always *)
(* (cmn_rbuf.c:37-85): no slot is counted twice, none is missed.           *)
THEOREM CapacitiesAddUp ==
  ASSUME Careful
  PROVE  Spec => []RoomAddsUp
<1>1. IInv => RoomAddsUp
  <2> SUFFICES ASSUME IInv PROVE RoomAddsUp
    OBVIOUS
  <2>1. Held(rpos, wpos) \in 0..Cap /\ rbuf_wcap(rpos, wpos) = Cap - Held(rpos, wpos)
    BY HeldValue DEF IInv, BufferOK
  <2> QED
    BY <2>1, RbufAssumption DEF RoomAddsUp, Held
<1> QED
  BY <1>1, Invariant, PTL

(* No slot is at once still to be written by a write in progress and still *)
(* to be read by a read in progress: what one side copies the other side   *)
(* leaves alone (cmn_rbuf.c:87-170).                                       *)
THEOREM RunsApart ==
  ASSUME Careful
  PROVE  Spec => []RunsDisjoint
<1>1. IInv => RunsDisjoint
  <2> SUFFICES ASSUME IInv, NEW i \in (wk + 1)..Len(wrun.at), NEW j \in (Len(dst) + 1)..Len(rrun.at)
               PROVE  wrun.at[i] # rrun.at[j]
    BY DEF RunsDisjoint
  <2> DEFINE h == Held(rpos, wpos)
  <2>1. /\ rpos \in Pos /\ wpos \in Pos /\ h \in 0..Cap /\ wk \in Nat /\ Len(dst) \in Nat
        /\ Slots = Cap + 1 /\ Slots \in Nat /\ Cap \in Nat
    BY RbufAssumption DEF IInv, BufferOK, WriterOK, ReaderOK, Slots
  <2>2. wpc = "copy"
    <3>1. wpc # "copy" => wk = 0 /\ Len(wrun.at) = 0
      BY DEF IInv, WriterOK, NoRun
    <3> QED
      BY <3>1
  <2>3. rpc = "copy"
    <3>1. rpc # "copy" => Len(dst) = 0 /\ Len(rrun.at) = 0
      BY DEF IInv, ReaderOK, NoRun
    <3> QED
      BY <3>1
  <2>4. Len(src) \in Nat /\ Len(src) <= Cap - h /\ wrun.at = Circle(wpos, Len(src))
    BY <2>2 DEF IInv, WriterOK
  <2>5. Len(rrun.at) \in 0..h /\ rrun.at = Circle(rpos, Len(rrun.at))
    BY <2>3 DEF IInv, ReaderOK
  <2> HIDE DEF h
  <2>6. i \in 1..Len(src) /\ i \in 1..(Slots - h) /\ wrun.at[i] = (wpos + i - 1) % Slots
    <3> DEFINE n == Len(src)
    <3>1. n \in Nat /\ n <= Cap - h /\ wrun.at = Circle(wpos, n)
      BY <2>4
    <3> HIDE DEF n
    <3>2. /\ Len(Circle(wpos, n)) = n
          /\ \A l \in 1..n : Circle(wpos, n)[l] = (wpos + l - 1) % Slots
      BY <3>1, CircleAt, Zenon
    <3>3. i \in 1..n /\ i \in 1..(Slots - h)
      BY <2>1, <3>1, <3>2
    <3> QED
      BY <3>1, <3>2, <3>3, Zenon DEF n
  <2>7. j \in 1..Len(rrun.at) /\ Len(rrun.at) \in Nat /\ j \in 1..h
    BY <2>1, <2>5
  <2>8. rrun.at[j] = (rpos + j - 1) % Slots
    BY <2>5, <2>7, CircleAt
  <2>9. (wpos + i - 1) % Slots = (rpos + (h + i) - 1) % Slots
    BY <2>1, <2>6, SlotsBehind DEF h
  <2>10. h + i \in 1..Slots /\ j \in 1..Slots /\ h + i # j
    BY <2>1, <2>6, <2>7
  <2>11. (rpos + (h + i) - 1) % Slots # (rpos + j - 1) % Slots
    BY <2>1, <2>10, SlotsDiffer
  <2> QED
    BY <2>6, <2>8, <2>9, <2>11
<1> QED
  BY <1>1, Invariant, PTL

(* A read gives, and a write takes, exactly what the capacity functions    *)
(* say, or all that was asked for (cmn_rbuf.c:87-170).                     *)
THEOREM TransfersAreFull ==
  ASSUME Careful
  PROVE  Spec => LengthsAgree
<1> DEFINE Texts == UNION {[1..n -> Byte] : n \in WriteSizes}
<1>1. ASSUME IInv, NEW s \in Texts, WriteStart(s)
      PROVE  Len(wrun'.at) = Min32(Len(s), rbuf_wcap(rpos, wpos))
  <2>1. PICK n \in WriteSizes : s \in [1..n -> Byte]
    OBVIOUS
  <2>2. n \in Nat /\ s \in Seq(Byte) /\ Len(s) \in Nat
    BY <2>1, RbufAssumption
  <2>3. /\ rpos \in Pos /\ wpos \in Pos /\ Held(rpos, wpos) \in 0..Cap
        /\ Len(s) \in 0..(Cap - Held(rpos, wpos))
    BY <1>1, <2>2, RbufAssumption DEF Careful, WriteStart, IInv, WriterOK, BufferOK
  <2>4. wrun'.at = Circle(wpos, Len(s))
    BY <1>1, <2>3, WriteRunValue DEF WriteStart
  <2>5. rbuf_wcap(rpos, wpos) = Cap - Held(rpos, wpos)
    BY <2>3, HeldValue
  <2>6. Cap - Held(rpos, wpos) \in 0..(Modulus - 1) /\ Len(s) \in 0..(Modulus - 1)
    BY <2>3, RbufAssumption
  <2>7. Min32(Len(s), Cap - Held(rpos, wpos)) = Len(s)
    BY <2>3, <2>6, MinValue
  <2> QED
    BY <2>2, <2>4, <2>5, <2>7, CircleAt
<1>2. ASSUME IInv, NEW n \in ReadSizes, ReadStart(n)
      PROVE  Len(rrun'.at) = Min32(n, rbuf_rcap(rpos, wpos))
  <2> DEFINE h == Held(rpos, wpos)
  <2>1. n \in 0..(Modulus - 1) /\ rpos \in Pos /\ wpos \in Pos /\ h \in 0..Cap
    BY <1>2, RbufAssumption DEF Careful, IInv, BufferOK
  <2>2. rrun'.at = Circle(rpos, Short(h, n)) /\ Short(h, n) \in 0..h
    BY <1>2, <2>1, ReadRunValue DEF ReadStart
  <2> HIDE DEF h
  <2>3. h \in 0..(Modulus - 1)
    BY <2>1, RbufAssumption
  <2>4. Min32(n, h) = Short(h, n)
    BY <2>1, <2>3, MinValue DEF Short
  <2>5. Len(rrun'.at) = Short(h, n)
    BY <2>1, <2>2, CircleAt
  <2> QED
    BY <2>4, <2>5 DEF h, Held
<1> HIDE DEF Texts
<1>3. IInv /\ [Next]_vars =>
        [/\ \A s \in Texts : WriteStart(s) => Len(wrun'.at) = Min32(Len(s), rbuf_wcap(rpos, wpos))
         /\ \A n \in ReadSizes : ReadStart(n) =>
              Len(rrun'.at) = Min32(n, rbuf_rcap(rpos, wpos))]_vars
  BY <1>1, <1>2
<1> QED
  BY <1>3, Invariant, PTL DEF Spec, LengthsAgree, Texts

-------------------------------------------------------------------------------
(* The refinement of BoundedFifo. *)

\* The n bytes of d from position p.
Bytes(d, p, n) == [i \in 1..n |-> d[(p + i - 1) % Slots]]

LEMMA BytesFrom ==
  ASSUME NEW d \in [Slot -> Byte], NEW p \in Pos, NEW n \in 0..Cap
  PROVE  /\ Bytes(d, p, n) \in Seq(Byte) /\ Len(Bytes(d, p, n)) = n
         /\ \A i \in 1..n : Bytes(d, p, n)[i] = d[(p + i - 1) % Slots]
<1>1. n \in Nat /\ Cap \in Nat /\ Slots = Cap + 1
  BY RbufAssumption DEF Slots
<1>2. ASSUME NEW i \in 1..n PROVE d[(p + i - 1) % Slots] \in Byte
  <2>1. i \in 1..Slots
    BY <1>1
  <2>2. (p + i - 1) % Slots \in Slot
    BY <2>1, SlotAt
  <2> QED
    BY <2>2
<1> QED
  BY <1>1, <1>2 DEF Bytes

LEMMA QueueValue ==
  ASSUME IInv
  PROVE  /\ Queue \in Seq(Byte) /\ Len(Queue) = Held(rpos, wpos) /\ Len(Queue) \in 0..Cap
         /\ \A i \in 1..Len(Queue) : Queue[i] = data[(rpos + i - 1) % Slots]
<1>1. rpos \in Pos /\ Held(rpos, wpos) \in 0..Cap /\ data \in [Slot -> Byte]
  BY DEF IInv, BufferOK
<1>2. Queue = Bytes(data, rpos, Held(rpos, wpos))
  BY DEF Queue, Held, Bytes
<1> QED
  BY <1>1, <1>2, BytesFrom

\* Copying adds nothing to the queue yet.
LEMMA CopyUnseen ==
  ASSUME IInv, WriteCopy
  PROVE  Queue' = Queue
<1>1. /\ Queue = [i \in 1..Held(rpos, wpos) |-> data[(rpos + i - 1) % Slots]]
      /\ Queue' = [i \in 1..Held(rpos, wpos) |-> data'[(rpos + i - 1) % Slots]]
  BY DEF Queue, Held, WriteCopy
<1> QED
  BY <1>1, HeldUntouched

\* The store of the position adds all the bytes of the write, in order.
LEMMA StoreAdds ==
  ASSUME IInv, WriteStore
  PROVE  Queue' = Queue \o src /\ Len(Queue) + Len(src) <= Cap
<1> DEFINE h == Held(rpos, wpos)
           n == Len(src)
<1>1. /\ rpos \in Pos /\ wpos \in Pos /\ h \in 0..Cap /\ n \in 0..(Cap - h) /\ src \in Seq(Byte)
      /\ wpos' = IF wpos + n <= Slots THEN wpos + n ELSE wpos + n - Slots
      /\ rpos' = rpos /\ data' = data /\ wk = n
      /\ \A j \in 1..n : data[(wpos + j - 1) % Slots] = src[j]
  <2>1. wpc = "copy" /\ wk = Len(wrun.at)
    BY DEF WriteStore
  <2>2. wrun.at = Circle(wpos, n) /\ n \in Nat
    BY <2>1 DEF IInv, WriterOK
  <2>3. wk = n
    BY <2>1, <2>2, CircleAt
  <2> QED
    BY <2>1, <2>3, RbufAssumption DEF WriteStore, IInv, BufferOK, WriterOK
<1>2. Slots = Cap + 1 /\ Cap \in Nat
  BY RbufAssumption DEF Slots
<1>3. Held(rpos', wpos') = h + n
  BY <1>1, AfterWrite
<1>4. Queue' = Bytes(data, rpos, h + n)
  BY <1>1, <1>3 DEF Queue, Held, Bytes
<1>5. /\ Queue' \in Seq(Byte) /\ Len(Queue') = h + n
      /\ \A i \in 1..(h + n) : Queue'[i] = data[(rpos + i - 1) % Slots]
  <2>1. h + n \in 0..Cap /\ data \in [Slot -> Byte]
    BY <1>1, <1>2 DEF IInv, BufferOK
  <2> HIDE DEF h, n
  <2> QED
    BY <1>1, <1>4, <2>1, BytesFrom
<1>6. Queue \in Seq(Byte) /\ Len(Queue) = h /\ \A i \in 1..h : Queue[i] = data[(rpos + i - 1) % Slots]
  BY QueueValue
<1>7. ASSUME NEW i \in 1..n PROVE Queue'[h + i] = src[i]
  <2>1. i \in 1..(Slots - h) /\ h + i \in 1..(h + n)
    BY <1>1, <1>2
  <2>2. (wpos + i - 1) % Slots = (rpos + (h + i) - 1) % Slots
    BY <1>1, <2>1, SlotsBehind
  <2>3. Queue'[h + i] = data[(rpos + (h + i) - 1) % Slots]
    BY <1>5, <2>1
  <2> QED
    BY <1>1, <2>2, <2>3
<1> HIDE DEF h, n
<1>8. /\ Queue \o src \in Seq(Byte) /\ Len(Queue \o src) = h + n
      /\ \A i \in 1..(h + n) : (Queue \o src)[i] = IF i <= h THEN Queue[i] ELSE src[i - h]
  BY <1>1, <1>6, ConcatProperties DEF n
<1>9. ASSUME NEW i \in 1..(h + n) PROVE Queue'[i] = (Queue \o src)[i]
  <2>1. CASE i <= h
    <3>1. i \in 1..h
      BY <1>1, <2>1
    <3> QED
      BY <1>5, <1>6, <1>8, <2>1, <3>1
  <2>2. CASE ~(i <= h)
    <3>1. i - h \in 1..n /\ h + (i - h) = i
      BY <1>1, <2>2
    <3>2. Queue'[h + (i - h)] = src[i - h]
      BY <1>7, <3>1
    <3> QED
      BY <1>8, <2>2, <3>1, <3>2
  <2> QED
    BY <2>1, <2>2
<1>10. Queue' = Queue \o src
  BY <1>5, <1>8, <1>9, SeqEqual
<1> QED
  BY <1>1, <1>2, <1>6, <1>10 DEF n

\* The store of the position takes out the bytes copied, the oldest ones.
LEMMA StoreTakes ==
  ASSUME IInv, ReadStore
  PROVE  /\ Len(dst) \in 0..Len(Queue)
         /\ dst = SubSeq(Queue, 1, Len(dst))
         /\ Queue' = SubSeq(Queue, Len(dst) + 1, Len(Queue))
<1> DEFINE h == Held(rpos, wpos)
           k == Len(dst)
<1>1. /\ rpos \in Pos /\ wpos \in Pos /\ h \in 0..Cap /\ k \in 0..h /\ rpos' \in Pos
      /\ rpos' = rpos + k \/ (wpos < rpos /\ rpos' = rpos + k - Slots)
      /\ dst \in Seq(Byte) /\ wpos' = wpos /\ data' = data
      /\ \A j \in 1..k : dst[j] = data[(rpos + j - 1) % Slots]
  BY DEF ReadStore, IInv, BufferOK, ReaderOK
<1>2. Cap \in Nat
  BY RbufAssumption
<1> HIDE DEF k
<1>3. /\ Held(rpos', wpos') = h - k
      /\ \A i \in 1..(h - k) : (rpos' + i - 1) % Slots = (rpos + (k + i) - 1) % Slots
  BY <1>1, AfterRead
<1>4. Queue' = Bytes(data, rpos', h - k)
  BY <1>1, <1>3 DEF Queue, Held, Bytes
<1>5. /\ Queue' \in Seq(Byte) /\ Len(Queue') = h - k
      /\ \A i \in 1..(h - k) : Queue'[i] = data[(rpos' + i - 1) % Slots]
  <2>1. h - k \in 0..Cap /\ data \in [Slot -> Byte]
    BY <1>1, <1>2 DEF IInv, BufferOK
  <2> HIDE DEF h
  <2> QED
    BY <1>1, <1>4, <2>1, BytesFrom
<1>6. Queue \in Seq(Byte) /\ Len(Queue) = h /\ \A i \in 1..h : Queue[i] = data[(rpos + i - 1) % Slots]
  BY QueueValue
<1> HIDE DEF h
<1>7. dst = SubSeq(Queue, 1, k)
  <2> DEFINE q == SubSeq(Queue, 1, k)
  <2>1. q \in Seq(Byte) /\ Len(q) = k /\ \A i \in 1..k : q[i] = Queue[i]
    <3>1. Queue \in Seq(Byte) /\ k \in 0..Len(Queue)
      BY <1>1, <1>2, <1>6
    <3>2. 1 \in 1..(Len(Queue) + 1)
      BY <1>1, <1>6
    <3> HIDE DEF k
    <3> QED
      BY ONLY <3>1 DEF q
  <2>2. \A i \in 1..k : Queue[i] = dst[i]
    <3> SUFFICES ASSUME NEW i \in 1..k PROVE Queue[i] = dst[i]
      OBVIOUS
    <3>1. i \in 1..h
      BY <1>1
    <3>2. Queue[i] = data[(rpos + i - 1) % Slots]
      BY <1>6, <3>1, Zenon
    <3>3. dst[i] = data[(rpos + i - 1) % Slots]
      BY <1>1, Zenon
    <3> QED
      BY <3>2, <3>3, Zenon
  <2> HIDE DEF q
  <2>3. dst = q
    BY <1>1, <2>1, <2>2, SeqEqual DEF k
  <2> QED
    BY <2>3 DEF q
<1>8. Queue' = SubSeq(Queue, k + 1, Len(Queue))
  <2> DEFINE q == SubSeq(Queue, k + 1, h)
  <2>1. q \in Seq(Byte) /\ Len(q) = h - k /\ \A i \in 1..(h - k) : q[i] = Queue[k + i]
    BY <1>1, <1>2, <1>6
  <2>2. ASSUME NEW i \in 1..(h - k) PROVE Queue'[i] = Queue[k + i]
    <3>1. k + i \in 1..h
      BY <1>1, <1>2
    <3>2. Queue[k + i] = data[(rpos + (k + i) - 1) % Slots]
      BY <1>6, <3>1
    <3> QED
      BY <1>3, <1>5, <3>2
  <2> HIDE DEF q
  <2>3. Queue' = q
    BY <1>5, <2>1, <2>2, SeqEqual
  <2> QED
    BY <1>6, <2>3 DEF q
<1> QED
  BY <1>1, <1>6, <1>7, <1>8 DEF k

LEMMA RefineInit == Init => Fifo!Init
<1> SUFFICES ASSUME Init PROVE Fifo!Init
  OBVIOUS
<1>1. IInv /\ Held(rpos, wpos) = 0
  BY InitOK, RbufAssumption DEF Init, Held, rbuf_rcap
<1>2. Queue = <<>>
  BY <1>1, QueueValue
<1> QED
  BY <1>2 DEF Init, Fifo!Init

\* Every step maps to a step or a stutter.
LEMMA RefineStep == IInv /\ [Next]_vars => [Fifo!Next]_Fifo!vars
<1> SUFFICES ASSUME IInv, [Next]_vars PROVE [Fifo!Next]_Fifo!vars
  OBVIOUS
<1>1. Queue \in Seq(Byte) /\ Len(Queue) \in 0..Cap /\ Cap \in Nat
  BY QueueValue, RbufAssumption
<1>2. CASE WriteStore
  <2>1. /\ Queue' = Queue \o src /\ Len(Queue) + Len(src) <= Cap
        /\ src \in Seq(Byte) /\ Len(src) \in Nat /\ out' = out
    BY <1>2, StoreAdds DEF IInv, WriterOK, WriteStore, readVars
  <2>2. CASE Len(src) = 0
    <3>1. src = <<>>
      BY <2>1, <2>2
    <3>2. Queue' = Queue
      BY <1>1, <2>1, <3>1
    <3> QED
      BY <2>1, <3>2 DEF Fifo!vars
  <2>3. CASE Len(src) # 0
    <3>1. Len(src) \in 1..Cap /\ src \in [1..Len(src) -> Byte]
      BY <1>1, <2>1, <2>3
    <3>2. Fifo!Put(src)
      BY <2>1 DEF Fifo!Put
    <3> QED
      BY <3>1, <3>2 DEF Fifo!Next
  <2> QED
    BY <2>2, <2>3
<1>3. CASE WriteCopy
  BY <1>3, CopyUnseen DEF WriteCopy, readVars, Fifo!vars
<1>4. CASE ReadStore
  <2>1. Len(dst) \in 0..Len(Queue) /\ Fifo!Take(Len(dst))
    BY <1>4, StoreTakes DEF ReadStore, Fifo!Take, Fifo!Without
  <2> QED
    BY <2>1 DEF Fifo!Next
<1>5. CASE UNCHANGED <<data, rpos, wpos, out>>
  BY <1>5 DEF Queue, Fifo!vars
<1>6. CASE AskRoom \/ \E n \in WriteSizes : \E s \in [1..n -> Byte] : WriteStart(s)
  BY <1>5, <1>6 DEF AskRoom, WriteStart, bufVars, readVars
<1>7. CASE (\E n \in ReadSizes : ReadStart(n)) \/ ReadCopy
  BY <1>5, <1>7 DEF ReadStart, ReadCopy, bufVars
<1>8. CASE UNCHANGED vars
  BY <1>5, <1>8 DEF vars
<1> QED
  BY <1>2, <1>3, <1>4, <1>6, <1>7, <1>8 DEF Next, WriteStep, ReadStep

\* The buffer implements the bounded queue of bytes, for every capacity, every length of
\* the transfers and every interleaving of the copies: nothing is lost, duplicated,
\* reordered or altered (cmn_rbuf.c:87-170).
THEOREM Refinement ==
  ASSUME Careful
  PROVE  Spec => FifoSpec
BY Invariant, RefineInit, RefineStep, PTL DEF Spec, FifoSpec, Fifo!Spec
===============================================================================
