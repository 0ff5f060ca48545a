---------------------------- MODULE RingTSOProofs ----------------------------
(***************************************************************************)
(* Proofs about RingTSO for every capacity, element size, byte alphabet    *)
(* and depth of the store buffers: while the stores of a thread reach      *)
(* memory in order (KeepsOrder), none is on its way to a slot the popping  *)
(* thread may read, and the ring implements BoundedFifo.                   *)
(***************************************************************************)
EXTENDS RingTSO, SequenceTheorems, TLAPS

-------------------------------------------------------------------------------
(* The inductive invariant. *)

\* The stores each thread issues.
PushStores == {[at |-> ByteAt(s, k), val |-> b] : s \in Slot, k \in 1..ElemSize, b \in Byte}
                \cup {[at |-> Position, val |-> p] : p \in Slot}
PopStores == {[at |-> Position, val |-> p] : p \in Slot}

TSOTypeOK ==
  /\ data \in [Slot -> Elem]
  /\ rpos \in Slot /\ wpos \in Slot /\ rown \in Slot /\ wown \in Slot /\ snap \in Slot
  /\ pushBuf \in Seq(PushStores) /\ popBuf \in Seq(PopStores)
  /\ wpc \in {"idle", "copy", "store"} /\ wk \in Nat
  /\ wpc = "idle" => wk = 0
  /\ wpc = "copy" => src \in Elem /\ wk < ElemSize
  /\ rpc \in {"idle", "copy", "skip", "store", "flush"} /\ dst \in Seq(Byte)
  /\ rpc = "idle" => dst = <<>>
  /\ rpc = "copy" => Len(dst) < ElemSize
  /\ rpc = "store" => Len(dst) = ElemSize

\* Where the pushing thread is once the first i of its waiting stores are in
\* memory: the slot it fills, or the position it publishes.
Place(st) == IF st.at = Position THEN st.val ELSE st.at.slot
PushAt(i) == IF i = 0 THEN wpos ELSE Place(pushBuf[i])

\* The same for the popping thread.
PopAt(i) == IF i = 0 THEN rpos ELSE popBuf[i].val

\* How far ahead of the rpos in memory a position is.
Ahead(p) == Distance(rpos, p)

\* The waiting stores lead, slot by slot, from the published wpos to the pushing
\* thread's own, and never round to the published rpos again.
PushInOrder ==
  /\ PushAt(Len(pushBuf)) = wown
  /\ \A i \in 1..Len(pushBuf) :
       IF pushBuf[i].at = Position
       THEN PushAt(i) = NextPos(PushAt(i - 1), Cap) /\ Ahead(PushAt(i - 1)) < Cap
       ELSE PushAt(i) = PushAt(i - 1)
  /\ \A i, j \in 0..Len(pushBuf) : i <= j => Ahead(PushAt(i)) <= Ahead(PushAt(j))
  /\ wpc # "idle" => Ahead(wown) < Cap

\* The waiting stores of rpos lead from the published one to the popping thread's
\* own, which has not passed the published wpos; what a call found stays true.
PopInOrder ==
  /\ PopAt(Len(popBuf)) = rown
  /\ \A i, j \in 0..Len(popBuf) : i <= j => Ahead(PopAt(i)) <= Ahead(PopAt(j))
  /\ Ahead(rown) <= Ahead(wpos)
  /\ rpc \in {"copy", "store", "skip"} => Ahead(rown) < Ahead(wpos)
  /\ rpc = "flush" => Ahead(rown) <= Ahead(snap) /\ Ahead(snap) <= Ahead(wpos)
  /\ rpc \in {"copy", "store"} => \A k \in 1..Len(dst) : dst[k] = data[rown][k]

IInv == TSOTypeOK /\ PushInOrder /\ PopInOrder

-------------------------------------------------------------------------------
(* Positions. *)

\* Remainders of the numbers one lap of the ring can produce.
LEMMA OneLap ==
  ASSUME NEW m \in Nat \ {0}, NEW x \in 0..(2 * m - 1)
  PROVE  x % m = IF x < m THEN x ELSE x - m
<1>1. CASE x < m
  BY <1>1, SMT
<1>2. CASE ~(x < m)
  BY <1>2, SMT
<1> QED
  BY <1>1, <1>2

\* How far one position is ahead of another, with the wrap written out.
LEMMA DistanceValue ==
  ASSUME NEW r \in Slot, NEW w \in Slot
  PROVE  /\ Distance(r, w) = ring_nelem(r, w, Cap)
         /\ Distance(r, w) = IF r <= w THEN w - r ELSE w + Slots - r
         /\ Distance(r, w) \in 0..Cap
<1> DEFINE x == w + Slots - r
<1>1. /\ Slots \in Nat \ {0} /\ x \in 0..(2 * Slots - 1)
      /\ r \in Int /\ 0 <= r /\ r <= Cap /\ w \in Int /\ 0 <= w /\ w <= Cap
  BY RingTSOAssumption DEF Slot, Slots
<1>2. x % Slots = IF x < Slots THEN x ELSE x - Slots
  BY <1>1, OneLap
<1> QED
  BY <1>1, <1>2, RingTSOAssumption DEF Slots, Distance, ring_nelem

\* Positions equally far ahead are the same.
LEMMA SamePosition ==
  ASSUME NEW r \in Slot, NEW p \in Slot, NEW q \in Slot, Distance(r, p) = Distance(r, q)
  PROVE  p = q
<1>1. /\ Distance(r, p) = IF r <= p THEN p - r ELSE p + Slots - r
      /\ Distance(r, q) = IF r <= q THEN q - r ELSE q + Slots - r
  BY DistanceValue
<1>2. /\ r \in Int /\ p \in Int /\ q \in Int /\ Cap \in Nat
      /\ 0 <= r /\ r <= Cap /\ 0 <= p /\ p <= Cap /\ 0 <= q /\ q <= Cap
  BY RingTSOAssumption DEF Slot
<1>3. (IF r <= p THEN p - r ELSE p + Slots - r) = (IF r <= q THEN q - r ELSE q + Slots - r)
  BY <1>1
<1>4. CASE r <= p /\ r <= q
  BY <1>2, <1>3, <1>4
<1>5. CASE r <= p /\ ~(r <= q)
  BY <1>2, <1>3, <1>5 DEF Slots
<1>6. CASE ~(r <= p) /\ r <= q
  BY <1>2, <1>3, <1>6 DEF Slots
<1>7. CASE ~(r <= p) /\ ~(r <= q)
  BY <1>2, <1>3, <1>7 DEF Slots
<1> QED
  BY <1>4, <1>5, <1>6, <1>7

\* A position is no distance from itself.
LEMMA NoDistance ==
  ASSUME NEW r \in Slot
  PROVE  Distance(r, r) = 0
BY DistanceValue, RingTSOAssumption DEF Slot

\* Seen from a position on the way, the way is as much shorter.
LEMMA Rebase ==
  ASSUME NEW r \in Slot, NEW p \in Slot, NEW q \in Slot, Distance(r, p) <= Distance(r, q)
  PROVE  Distance(p, q) = Distance(r, q) - Distance(r, p)
<1>1. /\ Distance(r, p) = IF r <= p THEN p - r ELSE p + Slots - r
      /\ Distance(r, q) = IF r <= q THEN q - r ELSE q + Slots - r
      /\ Distance(p, q) = IF p <= q THEN q - p ELSE q + Slots - p
  BY DistanceValue
<1> QED
  BY <1>1, RingTSOAssumption DEF Slot, Slots

\* The next position is one further ahead, if it is not a lap.
LEMMA NextFurther ==
  ASSUME NEW r \in Slot, NEW p \in Slot, Distance(r, p) < Cap
  PROVE  Distance(r, NextPos(p, Cap)) = Distance(r, p) + 1
<1> DEFINE x == p + 1
<1>1. Slots \in Nat \ {0} /\ x \in 0..(2 * Slots - 1) /\ Slots = Cap + 1
  BY RingTSOAssumption DEF Slot, Slots
<1>2. x % Slots = IF x < Slots THEN x ELSE x - Slots
  BY <1>1, OneLap
<1>3. NextPos(p, Cap) = IF p < Cap THEN p + 1 ELSE 0
  BY <1>1, <1>2, RingTSOAssumption DEF NextPos, Slot
<1>4. NextPos(p, Cap) \in Slot
  BY <1>3, RingTSOAssumption DEF Slot
<1> DEFINE q == NextPos(p, Cap)
<1> HIDE DEF q
<1>5. /\ Distance(r, p) = IF r <= p THEN p - r ELSE p + Slots - r
      /\ Distance(r, q) = IF r <= q THEN q - r ELSE q + Slots - r
  BY <1>4, DistanceValue DEF q
<1>6. q = IF p < Cap THEN p + 1 ELSE 0
  BY <1>3 DEF q
<1>7. Distance(r, q) = Distance(r, p) + 1
  BY <1>5, <1>6, RingTSOAssumption DEF Slot, Slots
<1> QED
  BY <1>7 DEF q

\* It is a slot of the array.
LEMMA NextSlot ==
  ASSUME NEW p \in Slot
  PROVE  NextPos(p, Cap) \in Slot
<1>1. Cap + 1 \in Nat \ {0} /\ p + 1 \in Int
  BY RingTSOAssumption DEF Slot
<1>2. (p + 1) % (Cap + 1) \in 0..Cap
  BY <1>1, RingTSOAssumption
<1> QED
  BY <1>2 DEF NextPos, Slot

\* The slot of the i-th element from position r is i - 1 ahead of it.
LEMMA SlotAt ==
  ASSUME NEW r \in Slot, NEW i \in 1..Slots
  PROVE  /\ (r + i - 1) % Slots \in Slot
         /\ Distance(r, (r + i - 1) % Slots) = i - 1
<1> DEFINE x == r + i - 1
<1>1. Slots \in Nat \ {0} /\ x \in 0..(2 * Slots - 1) /\ Slots = Cap + 1
  BY RingTSOAssumption DEF Slot, Slots
<1>2. x % Slots = IF x < Slots THEN x ELSE x - Slots
  BY <1>1, OneLap
<1>3. x % Slots \in Slot
  BY <1>1, <1>2, RingTSOAssumption DEF Slot
<1>4. Distance(r, x % Slots) = IF r <= x % Slots THEN (x % Slots) - r ELSE (x % Slots) + Slots - r
  BY <1>3, DistanceValue
<1> QED
  BY <1>1, <1>2, <1>3, <1>4, RingTSOAssumption DEF Slot

-------------------------------------------------------------------------------
(* The contents between two positions. *)

Between(d, r, w) == [i \in 1..Distance(r, w) |-> d[(r + i - 1) % Slots]]

LEMMA QueueIsBetween == Queue = Between(data, rown, wpos)
BY DEF Queue, Between

\* They are a sequence of elements.
LEMMA BetweenSeq ==
  ASSUME NEW d \in [Slot -> Elem], NEW r \in Slot, NEW w \in Slot
  PROVE  /\ Between(d, r, w) \in Seq(Elem)
         /\ Len(Between(d, r, w)) = Distance(r, w)
         /\ Distance(r, w) \in 0..Cap
         /\ \A i \in 1..Distance(r, w) : /\ i \in 1..Slots
                                        /\ Between(d, r, w)[i] = d[(r + i - 1) % Slots]
<1> DEFINE n == Distance(r, w)
<1>1. n \in 0..Cap /\ Slots = Cap + 1 /\ Cap \in Nat
  BY DistanceValue, RingTSOAssumption DEF Slots
<1>2. \A i \in 1..n : i \in 1..Slots
  BY <1>1
<1>3. \A i \in 1..n : d[(r + i - 1) % Slots] \in Elem
  BY <1>2, SlotAt
<1> HIDE DEF n
<1>4. [i \in 1..n |-> d[(r + i - 1) % Slots]] \in Seq(Elem)
  BY <1>1, <1>3
<1> QED
  BY <1>1, <1>2, <1>4 DEF Between, n

\* Writing the slot behind them does not change them.
LEMMA BetweenElsewhere ==
  ASSUME NEW d \in [Slot -> Elem], NEW e \in [Slot -> Elem], NEW r \in Slot, NEW w \in Slot,
         \A s \in Slot \ {w} : e[s] = d[s]
  PROVE  Between(e, r, w) = Between(d, r, w)
<1> SUFFICES ASSUME NEW i \in 1..Distance(r, w)
             PROVE  e[(r + i - 1) % Slots] = d[(r + i - 1) % Slots]
  BY DEF Between
<1> DEFINE s == (r + i - 1) % Slots
<1>1. Distance(r, w) \in 0..Cap /\ i \in 1..Slots /\ i \in Nat
  BY BetweenSeq
<1>2. s \in Slot /\ Distance(r, s) = i - 1
  BY <1>1, SlotAt
<1>3. i - 1 < Distance(r, w)
  BY <1>1
<1> HIDE DEF s
<1>4. s # w
  BY <1>1, <1>2, <1>3
<1>5. e[s] = d[s]
  BY <1>2, <1>4
<1> QED
  BY <1>5 DEF s

\* Advancing the end by one slot, there being room, appends what is in that slot.
LEMMA BetweenAppend ==
  ASSUME NEW d \in [Slot -> Elem], NEW r \in Slot, NEW w \in Slot, Distance(r, w) < Cap
  PROVE  Between(d, r, NextPos(w, Cap)) = Append(Between(d, r, w), d[w])
<1> DEFINE n == Distance(r, w)
           v == NextPos(w, Cap)
           b == Between(d, r, w)
           s == (r + (n + 1) - 1) % Slots
<1>1. /\ n \in Nat /\ n < Cap /\ Distance(r, v) = n + 1 /\ Slots = Cap + 1 /\ Cap \in Nat
      /\ b \in Seq(Elem) /\ Len(b) = n /\ \A i \in 1..n : b[i] = d[(r + i - 1) % Slots]
  BY BetweenSeq, NextFurther, RingTSOAssumption DEF Slots
<1>2. s \in Slot /\ Distance(r, s) = (n + 1) - 1
  <2> DEFINE j == n + 1
  <2>1. j \in 1..Slots
    BY <1>1
  <2> HIDE DEF j
  <2>2. (r + j - 1) % Slots \in Slot /\ Distance(r, (r + j - 1) % Slots) = j - 1
    BY <2>1, SlotAt
  <2> QED
    BY <2>2 DEF j
<1> HIDE DEF s
<1>3. Distance(r, s) = Distance(r, w)
  BY <1>1, <1>2
<1>4. s = w
  BY <1>2, <1>3, SamePosition
<1> HIDE DEF n, b
<1>5. Append(b, d[w]) = [i \in 1..(n + 1) |-> d[(r + i - 1) % Slots]]
  <2>1. Append(b, d[w]) = [i \in 1..(n + 1) |-> IF i = n + 1 THEN d[w] ELSE b[i]]
    BY <1>1
  <2>2. ASSUME NEW i \in 1..(n + 1)
        PROVE  (IF i = n + 1 THEN d[w] ELSE b[i]) = d[(r + i - 1) % Slots]
    <3>1. CASE i = n + 1
      BY <1>4, <3>1 DEF s
    <3>2. CASE i # n + 1
      <4>1. i \in 1..n
        BY <1>1, <3>2
      <4> QED
        BY <1>1, <3>2, <4>1
    <3> QED
      BY <3>1, <3>2
  <2> QED
    BY <2>1, <2>2
<1>6. Between(d, r, v) = [i \in 1..(n + 1) |-> d[(r + i - 1) % Slots]]
  BY <1>1 DEF Between
<1> QED
  BY <1>5, <1>6 DEF b

\* Advancing the start to a position on the way drops what it passes.
LEMMA BetweenDrop ==
  ASSUME NEW d \in [Slot -> Elem], NEW r \in Slot, NEW s \in Slot, NEW w \in Slot,
         Distance(r, s) <= Distance(r, w)
  PROVE  Between(d, s, w) =
           SubSeq(Between(d, r, w), Distance(r, s) + 1, Len(Between(d, r, w)))
<1> DEFINE k == Distance(r, s)
           n == Distance(r, w)
           b == Between(d, r, w)
           c == Between(d, s, w)
<1>1. /\ k \in Nat /\ n \in Nat /\ k <= n /\ n <= Cap /\ Distance(s, w) = n - k
      /\ b \in Seq(Elem) /\ Len(b) = n
      /\ \A i \in 1..n : i \in 1..Slots /\ b[i] = d[(r + i - 1) % Slots]
      /\ c \in Seq(Elem) /\ Len(c) = n - k
      /\ \A i \in 1..(n - k) : i \in 1..Slots /\ c[i] = d[(s + i - 1) % Slots]
  <2>1. /\ b \in Seq(Elem) /\ Len(b) = n /\ n \in 0..Cap
        /\ \A i \in 1..n : i \in 1..Slots /\ b[i] = d[(r + i - 1) % Slots]
    BY BetweenSeq
  <2>2. /\ c \in Seq(Elem) /\ Len(c) = Distance(s, w)
        /\ \A i \in 1..Distance(s, w) : i \in 1..Slots /\ c[i] = d[(s + i - 1) % Slots]
    BY BetweenSeq
  <2>3. k \in 0..Cap /\ Distance(s, w) = n - k
    BY DistanceValue, Rebase
  <2> HIDE DEF b, c, k, n
  <2>4. k <= n
    BY DEF k, n
  <2> QED
    BY <2>1, <2>2, <2>3, <2>4, RingTSOAssumption
<1>2. ASSUME NEW i \in 1..(n - k) PROVE c[i] = b[i + k]
  <2> DEFINE j == i + k
             x == (s + i - 1) % Slots
             y == (r + j - 1) % Slots
  <2>1. j \in 1..n /\ j \in 1..Slots /\ i \in 1..Slots
    BY <1>1
  <2>2. x \in Slot /\ Distance(s, x) = i - 1
    BY <2>1, SlotAt
  <2>3. b[j] = d[y]
    BY <1>1, <2>1
  <2> HIDE DEF j
  <2>4. y \in Slot /\ Distance(r, y) = j - 1
    BY <2>1, SlotAt
  <2> HIDE DEF x, y
  <2>5. Distance(r, s) <= Distance(r, y)
    BY <1>1, <2>4 DEF j
  <2>6. Distance(s, y) = Distance(r, y) - Distance(r, s)
    BY <2>4, <2>5, Rebase
  <2>7. Distance(s, y) = Distance(s, x)
    BY <1>1, <2>2, <2>4, <2>6 DEF j
  <2>8. x = y
    BY <2>2, <2>4, <2>7, SamePosition
  <2> QED
    BY <1>1, <2>3, <2>8 DEF j, x
<1> DEFINE t == SubSeq(b, k + 1, n)
<1> HIDE DEF k, n, b, c
<1>3. t \in Seq(Elem) /\ Len(t) = n - k /\ \A i \in 1..(n - k) : t[i] = b[i + k]
  BY <1>1
<1> HIDE DEF t
<1>4. t = c
  BY <1>1, <1>2, <1>3, SeqEqual
<1> QED
  BY <1>1, <1>4 DEF k, n, b, c, t

-------------------------------------------------------------------------------
(* What the invariant says of single positions. *)

\* A store of the pushing thread is of a position or of a byte.
LEMMA StoreTypes ==
  ASSUME NEW st \in PushStores
  PROVE  /\ Place(st) \in Slot
         /\ st.at = Position => st.val \in Slot
         /\ st.at # Position => st.at.slot \in Slot /\ st.at.k \in 1..ElemSize /\ st.val \in Byte
<1>1. CASE \E s \in Slot, k \in 1..ElemSize, b \in Byte : st = [at |-> ByteAt(s, k), val |-> b]
  <2>1. PICK s \in Slot, k \in 1..ElemSize, b \in Byte : st = [at |-> ByteAt(s, k), val |-> b]
    BY <1>1
  <2>2. st.at = [slot |-> s, k |-> k] /\ st.val = b /\ st.at.slot = s /\ st.at.k = k
    BY <2>1 DEF ByteAt
  <2>3. Position.k = 0 /\ k # 0
    BY DEF Position, ByteAt
  <2>4. st.at # Position
    BY <2>2, <2>3
  <2> QED
    BY <2>2, <2>4 DEF Place
<1>2. CASE \E p \in Slot : st = [at |-> Position, val |-> p]
  BY <1>2 DEF Place
<1> QED
  BY <1>1, <1>2 DEF PushStores

\* Every position a thread has or will publish is a slot.
LEMMA PlacesAreSlots ==
  ASSUME TSOTypeOK
  PROVE  /\ Len(pushBuf) \in Nat /\ Len(popBuf) \in Nat
         /\ \A i \in 0..Len(pushBuf) : PushAt(i) \in Slot
         /\ \A i \in 0..Len(popBuf) : PopAt(i) \in Slot
         /\ \A p \in Slot : Ahead(p) \in 0..Cap
<1>1. pushBuf \in Seq(PushStores) /\ popBuf \in Seq(PopStores) /\ rpos \in Slot /\ wpos \in Slot
  BY DEF TSOTypeOK
<1>2. \A i \in 1..Len(pushBuf) : pushBuf[i] \in PushStores
  BY <1>1
<1>3. \A i \in 1..Len(popBuf) : popBuf[i] \in PopStores
  BY <1>1
<1>4. \A i \in 1..Len(popBuf) : popBuf[i].val \in Slot
  BY <1>3 DEF PopStores
<1>5. \A i \in 1..Len(pushBuf) : Place(pushBuf[i]) \in Slot
  BY <1>2, StoreTypes
<1>6. Len(pushBuf) \in Nat /\ Len(popBuf) \in Nat
  BY <1>1
<1>7. \A p \in Slot : Ahead(p) \in 0..Cap
  BY <1>1, DistanceValue DEF Ahead
<1> QED
  BY <1>1, <1>4, <1>5, <1>6, <1>7 DEF PushAt, PopAt

\* The published wpos and all that is to come are at least as far as the popping
\* thread, and it at least as far as all the positions it has yet to publish.
LEMMA WholeOrder ==
  ASSUME IInv
  PROVE  /\ \A i \in 0..Len(pushBuf) : Ahead(wpos) <= Ahead(PushAt(i))
         /\ \A i \in 0..Len(popBuf) : Ahead(PopAt(i)) <= Ahead(rown)
         /\ Ahead(rown) <= Ahead(wpos) /\ Ahead(wpos) <= Ahead(wown)
<1>1. Len(pushBuf) \in Nat /\ Len(popBuf) \in Nat
  BY PlacesAreSlots DEF IInv
<1>2. PushAt(0) = wpos /\ PushAt(Len(pushBuf)) = wown /\ PopAt(Len(popBuf)) = rown
  BY DEF PushAt, IInv, PushInOrder, PopInOrder
<1>3. \A i \in 0..Len(pushBuf) : 0 \in 0..Len(pushBuf) /\ 0 <= i /\ Len(pushBuf) \in 0..Len(pushBuf)
  BY <1>1
<1>4. \A i \in 0..Len(popBuf) : Len(popBuf) \in 0..Len(popBuf) /\ i <= Len(popBuf)
  BY <1>1
<1>5. \A i \in 0..Len(pushBuf) : Ahead(wpos) <= Ahead(PushAt(i))
  BY <1>2, <1>3 DEF IInv, PushInOrder
<1>6. \A i \in 0..Len(popBuf) : Ahead(PopAt(i)) <= Ahead(rown)
  BY <1>2, <1>4 DEF IInv, PopInOrder
<1>7. Len(pushBuf) \in 0..Len(pushBuf)
  BY <1>1
<1> QED
  BY <1>2, <1>5, <1>6, <1>7 DEF IInv, PopInOrder

\* The initial state satisfies the invariant.
LEMMA InitIInv == Init => IInv
<1> SUFFICES ASSUME Init PROVE IInv
  OBVIOUS
<1>1. 0 \in Slot /\ <<>> \in Seq(PushStores) /\ <<>> \in Seq(PopStores) /\ <<>> \in Seq(Byte)
      /\ Len(<<>>) = 0
  BY RingTSOAssumption DEF Slot
<1>2. Ahead(0) = 0
  BY <1>1, NoDistance DEF Init, Ahead
<1>3. TSOTypeOK
  BY <1>1 DEF Init, TSOTypeOK
<1>4. PushInOrder
  BY <1>1, <1>2 DEF Init, PushInOrder, PushAt
<1>5. PopInOrder
  BY <1>1, <1>2 DEF Init, PopInOrder, PopAt
<1> QED
  BY <1>3, <1>4, <1>5 DEF IInv

-------------------------------------------------------------------------------
(* A store of the pushing thread reaches memory. *)

\* The rest of a sequence.
LEMMA WithoutFirst ==
  ASSUME NEW S, NEW b \in Seq(S), Len(b) # 0
  PROVE  /\ SubSeq(b, 2, Len(b)) \in Seq(S)
         /\ Len(SubSeq(b, 2, Len(b))) = Len(b) - 1
         /\ \A i \in 1..(Len(b) - 1) : SubSeq(b, 2, Len(b))[i] = b[i + 1]
<1> DEFINE n == Len(b)
<1>1. n \in Nat \ {0} /\ \A i \in 2..n : b[i] \in S
  OBVIOUS
<1>2. /\ SubSeq(b, 2, n) \in Seq(S)
      /\ Len(SubSeq(b, 2, n)) = IF 2 <= n THEN n - 2 + 1 ELSE 0
      /\ \A i \in 1..(n - 2 + 1) : SubSeq(b, 2, n)[i] = b[2 + i - 1]
  BY <1>1, SubSeqProperties
<1>3. \A i \in 1..(n - 1) : i \in 1..(n - 2 + 1) /\ 2 + i - 1 = i + 1
  BY <1>1
<1>4. \A i \in 1..(n - 1) : SubSeq(b, 2, n)[i] = b[i + 1]
  BY <1>2, <1>3
<1> DEFINE q == SubSeq(b, 2, n)
<1>5. q \in Seq(S) /\ Len(q) = IF 2 <= n THEN n - 2 + 1 ELSE 0
  BY <1>2
<1> HIDE DEF q, n
<1>6. Len(q) = n - 1
  BY <1>1, <1>5
<1> QED
  BY <1>4, <1>5, <1>6 DEF q, n

\* In order, that is the oldest one: a byte of the slot behind the published wpos,
\* or the next wpos.
LEMMA OldestCommits ==
  ASSUME KeepsOrder, IInv, PushCommit
  PROVE  LET n == Len(pushBuf) IN
         /\ n \in Nat \ {0}
         /\ pushBuf' \in Seq(PushStores) /\ Len(pushBuf') = n - 1
         /\ \A i \in 1..(n - 1) : pushBuf'[i] = pushBuf[i + 1]
         /\ wpos' = PushAt(1)
         /\ pushBuf[1].at = Position => wpos' = NextPos(wpos, Cap) /\ data' = data
         /\ pushBuf[1].at = Position => Ahead(wpos) < Cap
         /\ pushBuf[1].at # Position => wpos' = wpos
         /\ data' \in [Slot -> Elem] /\ \A s \in Slot \ {wpos} : data'[s] = data[s]
<1> DEFINE n == Len(pushBuf)
           st == pushBuf[1]
<1>1. PICK i \in 1..n :
        /\ MayLeave(pushBuf, i)
        /\ LET x == pushBuf[i] IN
             IF x.at = Position
             THEN wpos' = x.val /\ UNCHANGED data
             ELSE data' = [data EXCEPT ![x.at.slot][x.at.k] = x.val] /\ UNCHANGED wpos
        /\ pushBuf' = RemoveAt(pushBuf, i)
  BY DEF PushCommit
<1>2. i = 1 /\ n \in Nat \ {0} /\ 1 \in 1..n
  <2>1. n \in Nat
    BY DEF IInv, TSOTypeOK
  <2> QED
    BY <1>1, <2>1 DEF MayLeave
<1>3. /\ st.at = Position => wpos' = st.val /\ data' = data
      /\ st.at # Position => data' = [data EXCEPT ![st.at.slot][st.at.k] = st.val] /\ wpos' = wpos
  BY <1>1, <1>2
<1>4. st \in PushStores /\ pushBuf \in Seq(PushStores)
  BY <1>2 DEF IInv, TSOTypeOK
<1>5. PushAt(0) = wpos /\ PushAt(1) = Place(st)
  BY DEF PushAt
<1>6. /\ st.at = Position => st.val = NextPos(wpos, Cap) /\ Ahead(wpos) < Cap
      /\ st.at # Position => st.at.slot = wpos
  <2>1. IF st.at = Position
        THEN PushAt(1) = NextPos(PushAt(1 - 1), Cap) /\ Ahead(PushAt(1 - 1)) < Cap
        ELSE PushAt(1) = PushAt(1 - 1)
    BY <1>2 DEF IInv, PushInOrder
  <2>2. 1 - 1 = 0
    OBVIOUS
  <2> QED
    BY <1>5, <2>1, <2>2 DEF Place
<1>7. pushBuf' = SubSeq(pushBuf, 1, 0) \o SubSeq(pushBuf, 2, n)
  <2>1. 1 - 1 = 0 /\ 1 + 1 = 2
    OBVIOUS
  <2> QED
    BY <1>1, <1>2, <2>1 DEF RemoveAt
<1>8. pushBuf' = SubSeq(pushBuf, 2, n)
  <2> DEFINE q == SubSeq(pushBuf, 2, n)
  <2>1. SubSeq(pushBuf, 1, 0) = <<>> /\ q \in Seq(PushStores)
    BY <1>2, <1>4, SubSeqEmpty
  <2> HIDE DEF q
  <2>2. <<>> \o q = q
    BY <2>1, ConcatEmptySeq
  <2> QED
    BY <1>7, <2>1, <2>2 DEF q
<1>9. /\ pushBuf' \in Seq(PushStores) /\ Len(pushBuf') = n - 1
      /\ \A j \in 1..(n - 1) : pushBuf'[j] = pushBuf[j + 1]
  BY <1>2, <1>4, <1>8, WithoutFirst
<1>10. data' \in [Slot -> Elem] /\ \A s \in Slot \ {wpos} : data'[s] = data[s]
  <2>1. data \in [Slot -> Elem] /\ wpos \in Slot
    BY DEF IInv, TSOTypeOK
  <2>2. CASE st.at = Position
    BY <1>3, <2>1, <2>2
  <2>3. CASE st.at # Position
    <3>1. st.at.slot = wpos /\ st.at.k \in 1..ElemSize /\ st.val \in Byte
      BY <1>4, <1>6, <2>3, StoreTypes
    <3>2. data' = [data EXCEPT ![wpos] = [data[wpos] EXCEPT ![st.at.k] = st.val]]
      BY <1>3, <2>3, <3>1
    <3>3. [data[wpos] EXCEPT ![st.at.k] = st.val] \in Elem
      BY <2>1, <3>1 DEF Elem
    <3> QED
      BY <2>1, <3>2, <3>3
  <2> QED
    BY <2>2, <2>3
<1>11. wpos' = PushAt(1)
  BY <1>3, <1>5, <1>6 DEF Place
<1> QED
  BY <1>2, <1>3, <1>6, <1>9, <1>10, <1>11

\* The invariant holds of what is left.
LEMMA PushCommitKeeps ==
  ASSUME KeepsOrder, IInv, PushCommit
  PROVE  IInv'
<1> DEFINE n == Len(pushBuf)
<1>1. /\ n \in Nat \ {0}
      /\ pushBuf' \in Seq(PushStores) /\ Len(pushBuf') = n - 1
      /\ \A i \in 1..(n - 1) : pushBuf'[i] = pushBuf[i + 1]
      /\ wpos' = PushAt(1)
      /\ data' \in [Slot -> Elem] /\ \A s \in Slot \ {wpos} : data'[s] = data[s]
  BY OldestCommits
<1>2. UNCHANGED <<rpos, wown, wpc, src, wk, popBuf, rown, rpc, dst, snap, out>>
  BY DEF PushCommit, popVars
<1>3. \A p : Ahead(p)' = Distance(rpos, p')
  BY <1>2 DEF Ahead, Distance, Slots
<1>4. /\ \A i \in 0..n : PushAt(i) \in Slot
      /\ \A p \in Slot : Ahead(p) \in 0..Cap
  BY PlacesAreSlots DEF IInv
<1>5. 1 \in 0..n /\ wpos' \in Slot
  BY <1>1, <1>4
<1>6. ASSUME NEW i \in 0..(n - 1) PROVE PushAt(i)' = PushAt(i + 1)
  <2>1. CASE i = 0
    BY <1>1, <2>1 DEF PushAt
  <2>2. CASE i # 0
    <3>1. i \in 1..(n - 1) /\ i + 1 # 0
      BY <1>1, <2>2
    <3> QED
      BY <1>1, <2>2, <3>1 DEF PushAt, Place
  <2> QED
    BY <2>1, <2>2
<1>7. TSOTypeOK'
  BY <1>1, <1>2, <1>5 DEF IInv, TSOTypeOK
<1>8. PushInOrder'
  <2>1. (PushAt(Len(pushBuf)) = wown)'
    <3>1. PICK m \in 0..(n - 1) : m = n - 1
      BY <1>1
    <3>2. PushAt(m)' = PushAt(m + 1) /\ m + 1 = n
      BY <1>1, <1>6, <3>1
    <3>3. PushAt(m)' = wown
      BY <3>2 DEF IInv, PushInOrder
    <3> QED
      BY <1>1, <1>2, <3>1, <3>3 DEF PushAt
  <2>2. ASSUME NEW i \in 1..(n - 1)
        PROVE  IF pushBuf'[i].at = Position
               THEN PushAt(i)' = NextPos(PushAt(i - 1)', Cap) /\ Distance(rpos', PushAt(i - 1)') < Cap
               ELSE PushAt(i)' = PushAt(i - 1)'
    <3>1. i + 1 \in 1..n /\ i \in 0..(n - 1) /\ i - 1 \in 0..(n - 1)
          /\ (i - 1) + 1 = (i + 1) - 1
      BY <1>1
    <3>2. PushAt(i)' = PushAt(i + 1) /\ PushAt(i - 1)' = PushAt((i + 1) - 1)
      BY <1>6, <3>1
    <3>3. IF pushBuf[i + 1].at = Position
          THEN PushAt(i + 1) = NextPos(PushAt((i + 1) - 1), Cap) /\ Ahead(PushAt((i + 1) - 1)) < Cap
          ELSE PushAt(i + 1) = PushAt((i + 1) - 1)
      BY <3>1 DEF IInv, PushInOrder
    <3> QED
      BY <1>1, <1>2, <3>2, <3>3 DEF Ahead
  <2>3. ASSUME NEW i \in 0..(n - 1), NEW j \in 0..(n - 1), i <= j
        PROVE  Distance(rpos', PushAt(i)') <= Distance(rpos', PushAt(j)')
    <3>1. i + 1 \in 0..n /\ j + 1 \in 0..n /\ i + 1 <= j + 1
      BY <1>1, <2>3
    <3>2. Ahead(PushAt(i + 1)) <= Ahead(PushAt(j + 1))
      BY <3>1 DEF IInv, PushInOrder
    <3> QED
      BY <1>2, <1>6, <3>2 DEF Ahead
  <2> QED
    BY <1>1, <1>2, <2>1, <2>2, <2>3 DEF PushInOrder, IInv, Ahead
<1>9. PopInOrder'
  <2>1. Ahead(wpos) <= Distance(rpos, wpos')
    BY <1>1, <1>5, WholeOrder DEF Ahead
  <2>2. /\ Ahead(wpos) \in Int /\ Ahead(rown) \in Int /\ Ahead(snap) \in Int
        /\ Distance(rpos, wpos') \in Int
    BY <1>4, <1>5 DEF Ahead, IInv, TSOTypeOK
  <2>3. ASSUME rpc \in {"copy", "store"}
        PROVE  \A k \in 1..Len(dst) : dst[k] = data'[rown][k]
    <3>1. Ahead(rown) < Ahead(wpos) /\ rown \in Slot
      BY <2>3 DEF IInv, PopInOrder, TSOTypeOK
    <3>2. rown # wpos
      BY <2>2, <3>1
    <3> QED
      BY <1>1, <2>3, <3>1, <3>2 DEF IInv, PopInOrder
  <2> QED
    BY <1>2, <2>1, <2>2, <2>3 DEF PopInOrder, IInv, Ahead, PopAt
<1> QED
  BY <1>7, <1>8, <1>9 DEF IInv

-------------------------------------------------------------------------------
(* A store of rpos reaches memory: all that is ahead of it comes nearer. *)

LEMMA PopCommitKeeps ==
  ASSUME IInv, PopCommit
  PROVE  IInv'
<1> DEFINE n == Len(popBuf)
           r == rpos'
<1>1. /\ n \in Nat \ {0}
      /\ popBuf' \in Seq(PopStores) /\ Len(popBuf') = n - 1
      /\ \A i \in 1..(n - 1) : popBuf'[i] = popBuf[i + 1]
  <2>1. popBuf # <<>> /\ popBuf' = Tail(popBuf) /\ popBuf \in Seq(PopStores)
    BY DEF PopCommit, IInv, TSOTypeOK
  <2> QED
    BY <2>1, HeadTailProperties
<1>2. UNCHANGED <<data, wpos, pushBuf, wown, wpc, src, wk, rown, rpc, dst, snap, out>>
  BY DEF PopCommit, pushVars
<1>3. r = PopAt(1)
  <2>1. popBuf # <<>> /\ popBuf \in Seq(PopStores) /\ r = Head(popBuf).val
    BY DEF PopCommit, IInv, TSOTypeOK
  <2> QED
    BY <2>1 DEF PopAt
<1>4. /\ \A i \in 0..n : PopAt(i) \in Slot
      /\ \A i \in 0..Len(pushBuf) : PushAt(i) \in Slot
      /\ \A p \in Slot : Ahead(p) \in 0..Cap
      /\ Len(pushBuf) \in Nat
  BY PlacesAreSlots DEF IInv
<1>5. 1 \in 0..n /\ r \in Slot /\ Ahead(r) \in Nat
  BY <1>1, <1>3, <1>4
<1>6. Ahead(r) <= Ahead(rown)
  BY <1>3, <1>5, WholeOrder
<1> HIDE DEF r
<1>7. ASSUME NEW p \in Slot, Ahead(r) <= Ahead(p)
      PROVE  Distance(r, p) = Ahead(p) - Ahead(r)
  BY <1>5, <1>7, Rebase DEF Ahead, IInv, TSOTypeOK
<1>8. /\ wpos \in Slot /\ rown \in Slot /\ wown \in Slot /\ snap \in Slot
      /\ Ahead(wpos) \in 0..Cap /\ Ahead(rown) \in 0..Cap /\ Ahead(wown) \in 0..Cap
      /\ Ahead(snap) \in 0..Cap /\ Cap \in Nat
  BY <1>4, RingTSOAssumption DEF IInv, TSOTypeOK
<1>9. /\ Ahead(rown) <= Ahead(wpos) /\ Ahead(wpos) <= Ahead(wown)
      /\ \A i \in 0..Len(pushBuf) : Ahead(wpos) <= Ahead(PushAt(i))
  BY WholeOrder
<1>10. /\ Distance(r, rown) = Ahead(rown) - Ahead(r)
       /\ Distance(r, wpos) = Ahead(wpos) - Ahead(r)
       /\ Distance(r, wown) = Ahead(wown) - Ahead(r)
       /\ rpc = "flush" => Distance(r, snap) = Ahead(snap) - Ahead(r)
  <2>1. Ahead(r) <= Ahead(wpos) /\ Ahead(r) <= Ahead(wown)
    BY <1>5, <1>6, <1>8, <1>9
  <2>2. rpc = "flush" => Ahead(r) <= Ahead(snap)
    BY <1>5, <1>6, <1>8 DEF IInv, PopInOrder
  <2> QED
    BY <1>6, <1>7, <1>8, <2>1, <2>2
<1>11. TSOTypeOK'
  BY <1>1, <1>2, <1>5 DEF IInv, TSOTypeOK, r
<1>12. PushInOrder'
  <2>1. ASSUME NEW i \in 0..Len(pushBuf)
        PROVE  /\ PushAt(i)' = PushAt(i) /\ PushAt(i) \in Slot /\ Ahead(PushAt(i)) \in 0..Cap
               /\ Distance(r, PushAt(i)) = Ahead(PushAt(i)) - Ahead(r)
    <3>1. PushAt(i)' = PushAt(i)
      BY <1>2 DEF PushAt, Place
    <3>2. PushAt(i) \in Slot /\ Ahead(PushAt(i)) \in 0..Cap /\ Ahead(wpos) <= Ahead(PushAt(i))
      BY <1>4, <1>9
    <3>3. Ahead(r) <= Ahead(PushAt(i))
      BY <1>5, <1>6, <1>8, <1>9, <3>2
    <3> QED
      BY <1>7, <3>1, <3>2, <3>3
  <2>2. (PushAt(Len(pushBuf)) = wown)'
    BY <1>2 DEF PushAt, Place, IInv, PushInOrder
  <2>3. ASSUME NEW i \in 1..Len(pushBuf)
        PROVE  IF pushBuf[i].at = Position
               THEN PushAt(i)' = NextPos(PushAt(i - 1)', Cap) /\ Distance(r, PushAt(i - 1)') < Cap
               ELSE PushAt(i)' = PushAt(i - 1)'
    <3>1. i \in 0..Len(pushBuf) /\ i - 1 \in 0..Len(pushBuf)
      BY <1>4
    <3>2. /\ PushAt(i)' = PushAt(i) /\ PushAt(i - 1)' = PushAt(i - 1)
          /\ Ahead(PushAt(i - 1)) \in 0..Cap
          /\ Distance(r, PushAt(i - 1)) = Ahead(PushAt(i - 1)) - Ahead(r)
      BY <2>1, <3>1
    <3>3. IF pushBuf[i].at = Position
          THEN PushAt(i) = NextPos(PushAt(i - 1), Cap) /\ Ahead(PushAt(i - 1)) < Cap
          ELSE PushAt(i) = PushAt(i - 1)
      BY DEF IInv, PushInOrder
    <3> QED
      BY <1>5, <1>8, <3>2, <3>3
  <2>4. ASSUME NEW i \in 0..Len(pushBuf), NEW j \in 0..Len(pushBuf), i <= j
        PROVE  Distance(r, PushAt(i)') <= Distance(r, PushAt(j)')
    <3>1. Ahead(PushAt(i)) <= Ahead(PushAt(j))
      BY <2>4 DEF IInv, PushInOrder
    <3> QED
      BY <1>5, <2>1, <3>1
  <2>5. wpc # "idle" => Distance(r, wown) < Cap
    BY <1>5, <1>8, <1>10 DEF IInv, PushInOrder
  <2> QED
    BY <1>2, <2>2, <2>3, <2>4, <2>5 DEF PushInOrder, Ahead, r
<1>13. PopInOrder'
  <2>1. ASSUME NEW i \in 0..(n - 1)
        PROVE  /\ i + 1 \in 0..n /\ PopAt(i)' = PopAt(i + 1)
               /\ Ahead(PopAt(i + 1)) \in 0..Cap
               /\ Distance(r, PopAt(i + 1)) = Ahead(PopAt(i + 1)) - Ahead(r)
    <3>1. i + 1 \in 0..n /\ 1 <= i + 1 /\ 1 \in 0..n
      BY <1>1
    <3>2. PopAt(i)' = PopAt(i + 1)
      <4>1. CASE i = 0
        BY <1>3, <4>1 DEF PopAt, r
      <4>2. CASE i # 0
        <5>1. i \in 1..(n - 1) /\ i + 1 # 0
          BY <1>1, <4>2
        <5> QED
          BY <1>1, <4>2, <5>1 DEF PopAt
      <4> QED
        BY <4>1, <4>2
    <3>3. Ahead(r) <= Ahead(PopAt(i + 1))
      BY <1>3, <3>1 DEF IInv, PopInOrder
    <3> QED
      BY <1>4, <1>7, <3>1, <3>2, <3>3
  <2>2. (PopAt(Len(popBuf)) = rown)'
    <3>1. PICK m \in 0..(n - 1) : m = n - 1
      BY <1>1
    <3>2. PopAt(m)' = PopAt(m + 1) /\ m + 1 = n
      BY <1>1, <2>1, <3>1
    <3>3. PopAt(m)' = rown
      BY <3>2 DEF IInv, PopInOrder
    <3> QED
      BY <1>1, <1>2, <3>1, <3>3 DEF PopAt
  <2>3. ASSUME NEW i \in 0..(n - 1), NEW j \in 0..(n - 1), i <= j
        PROVE  Distance(r, PopAt(i)') <= Distance(r, PopAt(j)')
    <3>1. i + 1 \in 0..n /\ j + 1 \in 0..n /\ i + 1 <= j + 1
      BY <1>1, <2>3
    <3>2. Ahead(PopAt(i + 1)) <= Ahead(PopAt(j + 1))
      BY <3>1 DEF IInv, PopInOrder
    <3> QED
      BY <1>5, <2>1, <3>2
  <2>4. /\ Distance(r, rown) <= Distance(r, wpos)
        /\ rpc \in {"copy", "store", "skip"} => Distance(r, rown) < Distance(r, wpos)
        /\ rpc = "flush" => Distance(r, rown) <= Distance(r, snap)
                             /\ Distance(r, snap) <= Distance(r, wpos)
    BY <1>5, <1>8, <1>10 DEF IInv, PopInOrder
  <2>5. (rpc \in {"copy", "store"} => \A k \in 1..Len(dst) : dst[k] = data[rown][k])'
    BY <1>2 DEF IInv, PopInOrder
  <2> QED
    BY <1>1, <1>2, <2>2, <2>3, <2>4, <2>5 DEF PopInOrder, Ahead, r
<1> QED
  BY <1>11, <1>12, <1>13 DEF IInv

-------------------------------------------------------------------------------
(* The calls of ring_push. *)

\* Issuing a store that goes where the pushing thread is, or to the next position.
LEMMA IssueKeeps ==
  ASSUME IInv, NEW st \in PushStores, pushBuf' = Append(pushBuf, st), wown' = Place(st),
         UNCHANGED <<memory, popVars>>, wpc # "idle",
         IF st.at = Position THEN wown' = NextPos(wown, Cap) /\ wpc' = "idle" ELSE wown' = wown
  PROVE  PushInOrder' /\ PopInOrder' /\ pushBuf' \in Seq(PushStores) /\ wown' \in Slot
<1> DEFINE n == Len(pushBuf)
<1>1. /\ n \in Nat /\ pushBuf \in Seq(PushStores)
      /\ pushBuf' \in Seq(PushStores) /\ Len(pushBuf') = n + 1
      /\ \A i \in 1..n : pushBuf'[i] = pushBuf[i]
      /\ pushBuf'[n + 1] = st
  BY DEF IInv, TSOTypeOK
<1>2. wown' \in Slot /\ wown \in Slot
  BY StoreTypes DEF IInv, TSOTypeOK
<1>3. UNCHANGED <<data, rpos, wpos, popBuf, rown, rpc, dst, snap, out>>
  BY DEF memory, popVars
<1>4. /\ \A i \in 0..n : PushAt(i) \in Slot
      /\ \A p \in Slot : Ahead(p) \in 0..Cap
  BY PlacesAreSlots DEF IInv
<1>5. Ahead(wown) < Cap /\ PushAt(n) = wown
  BY DEF IInv, PushInOrder
<1>6. Ahead(wown) <= Distance(rpos, wown') /\ Distance(rpos, wown') \in 0..Cap
  <2>1. Distance(rpos, wown') \in 0..Cap /\ Ahead(wown) \in 0..Cap
    BY <1>2, <1>4 DEF Ahead
  <2>2. CASE wown' = wown
    BY <2>1, <2>2 DEF Ahead
  <2>3. CASE wown' = NextPos(wown, Cap)
    <3>1. rpos \in Slot
      BY DEF IInv, TSOTypeOK
    <3>2. Distance(rpos, NextPos(wown, Cap)) = Distance(rpos, wown) + 1
      BY <1>2, <1>5, <3>1, NextFurther DEF Ahead
    <3> QED
      BY <2>1, <2>3, <3>2 DEF Ahead
  <2> QED
    BY <2>2, <2>3, <2>1
<1>7. ASSUME NEW i \in 0..(n + 1)
      PROVE  PushAt(i)' = IF i = n + 1 THEN wown' ELSE PushAt(i)
  BY <1>1, <1>3 DEF PushAt, Place
<1>8. ASSUME NEW i \in 0..n PROVE Ahead(PushAt(i)) <= Ahead(wown)
  <2>1. n \in 0..n /\ i <= n
    BY <1>1
  <2> QED
    BY <1>5, <2>1 DEF IInv, PushInOrder
<1>9. PushInOrder'
  <2>1. (PushAt(Len(pushBuf)) = wown)'
    BY <1>1 DEF PushAt, Place
  <2>2. ASSUME NEW i \in 1..(n + 1)
        PROVE  IF pushBuf'[i].at = Position
               THEN PushAt(i)' = NextPos(PushAt(i - 1)', Cap) /\ Distance(rpos', PushAt(i - 1)') < Cap
               ELSE PushAt(i)' = PushAt(i - 1)'
    <3>1. i \in 0..(n + 1) /\ i - 1 \in 0..(n + 1) /\ i - 1 # n + 1
      BY <1>1
    <3>2. PushAt(i - 1)' = PushAt(i - 1)
      BY <1>7, <3>1
    <3>3. CASE i = n + 1
      <4>1. PushAt(i)' = wown' /\ i - 1 = n /\ PushAt(i - 1) = wown /\ pushBuf'[i] = st
        BY <1>1, <1>5, <1>7, <3>1, <3>3
      <4> QED
        BY <1>3, <1>5, <3>2, <4>1 DEF Ahead
    <3>4. CASE i # n + 1
      <4>1. i \in 1..n /\ PushAt(i)' = PushAt(i) /\ pushBuf'[i] = pushBuf[i]
        BY <1>1, <1>7, <3>1, <3>4
      <4>2. IF pushBuf[i].at = Position
            THEN PushAt(i) = NextPos(PushAt(i - 1), Cap) /\ Ahead(PushAt(i - 1)) < Cap
            ELSE PushAt(i) = PushAt(i - 1)
        BY <4>1 DEF IInv, PushInOrder
      <4> QED
        BY <1>3, <3>2, <4>1, <4>2 DEF Ahead
    <3> QED
      BY <3>3, <3>4
  <2>3. ASSUME NEW i \in 0..(n + 1), NEW j \in 0..(n + 1), i <= j
        PROVE  Distance(rpos', PushAt(i)') <= Distance(rpos', PushAt(j)')
    <3>1. CASE i = n + 1
      <4>1. j = n + 1
        BY <1>1, <2>3, <3>1
      <4>2. PushAt(i)' = wown' /\ PushAt(j)' = wown'
        BY <1>7, <3>1, <4>1
      <4> QED
        BY <1>3, <1>6, <4>2
    <3>2. CASE i # n + 1 /\ j = n + 1
      <4>1. i \in 0..n /\ PushAt(i)' = PushAt(i) /\ PushAt(j)' = wown'
        BY <1>1, <1>7, <3>2
      <4>2. Ahead(PushAt(i)) <= Ahead(wown) /\ Ahead(PushAt(i)) \in 0..Cap /\ Ahead(wown) \in 0..Cap
        BY <1>2, <1>4, <1>8, <4>1
      <4> QED
        BY <1>3, <1>6, <4>1, <4>2 DEF Ahead
    <3>3. CASE i # n + 1 /\ j # n + 1
      <4>1. i \in 0..n /\ j \in 0..n /\ PushAt(i)' = PushAt(i) /\ PushAt(j)' = PushAt(j)
        BY <1>1, <1>7, <3>3
      <4>2. Ahead(PushAt(i)) <= Ahead(PushAt(j))
        BY <2>3, <4>1 DEF IInv, PushInOrder
      <4> QED
        BY <1>3, <4>1, <4>2 DEF Ahead
    <3> QED
      BY <3>1, <3>2, <3>3
  <2>4. wpc' # "idle" => Distance(rpos', wown') < Cap
    <3> SUFFICES ASSUME wpc' # "idle" PROVE Distance(rpos', wown') < Cap
      OBVIOUS
    <3>1. wown' = wown
      OBVIOUS
    <3> QED
      BY <1>3, <1>5, <3>1 DEF Ahead
  <2> QED
    BY <1>1, <2>1, <2>2, <2>3, <2>4 DEF PushInOrder, Ahead
<1>10. PopInOrder'
  BY <1>3 DEF IInv, PopInOrder, PopAt, Ahead
<1> QED
  BY <1>1, <1>2, <1>9, <1>10

LEMMA PushCopyKeeps ==
  ASSUME IInv, PushCopy
  PROVE  IInv'
<1> DEFINE st == [at |-> ByteAt(wown, wk + 1), val |-> src[wk + 1]]
<1>1. /\ wpc = "copy" /\ pushBuf' = Append(pushBuf, st) /\ wk' = wk + 1
      /\ wpc' = IF wk + 1 = ElemSize THEN "store" ELSE "copy"
      /\ UNCHANGED <<memory, wown, src, popVars>>
  BY DEF PushCopy
<1>2. wk \in Nat /\ src \in Elem /\ wk < ElemSize /\ wown \in Slot
  BY <1>1 DEF IInv, TSOTypeOK
<1>3. wk + 1 \in 1..ElemSize /\ wk + 1 \in Nat /\ src[wk + 1] \in Byte
  BY <1>2, RingTSOAssumption DEF Elem
<1>4. st \in PushStores
  BY <1>2, <1>3 DEF PushStores
<1>5. st.at # Position /\ Place(st) = wown
  <2>1. st.at.k = wk + 1 /\ Position.k = 0 /\ st.at.slot = wown
    BY DEF ByteAt, Position
  <2>2. st.at # Position
    BY <1>3, <2>1
  <2> QED
    BY <2>1, <2>2 DEF Place
<1> HIDE DEF st
<1>6. PushInOrder' /\ PopInOrder' /\ pushBuf' \in Seq(PushStores) /\ wown' \in Slot
  BY <1>1, <1>4, <1>5, IssueKeeps
<1>7. TSOTypeOK'
  BY <1>1, <1>2, <1>3, <1>6, RingTSOAssumption DEF IInv, TSOTypeOK, memory, popVars
<1> QED
  BY <1>6, <1>7 DEF IInv

LEMMA PushStoreKeeps ==
  ASSUME IInv, PushStore
  PROVE  IInv'
<1> DEFINE st == [at |-> Position, val |-> wown']
<1>1. /\ wpc = "store" /\ pushBuf' = Append(pushBuf, st) /\ wk' = 0 /\ wpc' = "idle"
      /\ wown' = NextPos(wown, Cap) /\ UNCHANGED <<memory, popVars>>
  BY DEF PushStore
<1>2. wown' \in Slot
  BY <1>1, NextSlot DEF IInv, TSOTypeOK
<1>3. st \in PushStores /\ st.at = Position /\ Place(st) = wown'
  BY <1>2 DEF PushStores, Place
<1> HIDE DEF st
<1>4. PushInOrder' /\ PopInOrder' /\ pushBuf' \in Seq(PushStores)
  BY <1>1, <1>3, IssueKeeps
<1>5. TSOTypeOK'
  BY <1>1, <1>2, <1>4 DEF IInv, TSOTypeOK, memory, popVars
<1> QED
  BY <1>4, <1>5 DEF IInv

\* The call that finds room: what it read of rpos may be old, and is then cautious.
LEMMA PushStartKeeps ==
  ASSUME IInv, NEW e \in Elem, PushStart(e)
  PROVE  IInv'
<1>1. /\ wpc = "idle" /\ ~ring_full(rpos, wown) /\ wpc' = "copy" /\ src' = e
      /\ UNCHANGED <<data, rpos, wpos, pushBuf, wown, wk, popBuf, rown, rpc, dst, snap, out>>
  BY DEF PushStart, memory, popVars
<1>2. Ahead(wown) < Cap
  <2>1. Distance(rpos, wown) = ring_nelem(rpos, wown, Cap) /\ Distance(rpos, wown) \in 0..Cap
    BY DistanceValue DEF IInv, TSOTypeOK
  <2> QED
    BY <1>1, <2>1, RingTSOAssumption DEF ring_full, Ahead
<1>3. TSOTypeOK'
  BY <1>1, RingTSOAssumption DEF IInv, TSOTypeOK
<1>4. PushInOrder'
  BY <1>1, <1>2 DEF IInv, PushInOrder, PushAt, Place, Ahead
<1>5. PopInOrder'
  BY <1>1 DEF IInv, PopInOrder, PopAt, Ahead
<1> QED
  BY <1>3, <1>4, <1>5 DEF IInv

-------------------------------------------------------------------------------
(* The calls of ring_pop and ring_flush. *)

\* A call that finds an element: the wpos it read may be old, its own rpos is not.
LEMMA PopStartKeeps ==
  ASSUME IInv, NEW wanted \in BOOLEAN, PopStart(wanted)
  PROVE  IInv'
<1>1. /\ rpc = "idle" /\ ~ring_empty(rown, wpos) /\ rpc' = IF wanted THEN "copy" ELSE "skip"
      /\ UNCHANGED <<data, rpos, wpos, pushBuf, wown, wpc, src, wk, popBuf, rown, dst, snap, out>>
  BY DEF PopStart, memory, pushVars
<1>2. Ahead(rown) < Ahead(wpos)
  <2>1. rpos \in Slot /\ rown \in Slot /\ wpos \in Slot /\ Ahead(rown) <= Ahead(wpos)
    BY WholeOrder DEF IInv, TSOTypeOK
  <2>2. Distance(rown, wpos) = ring_nelem(rown, wpos, Cap) /\ Distance(rown, wpos) # 0
    BY <1>1, <2>1, DistanceValue DEF ring_empty
  <2>3. Distance(rown, wpos) = Ahead(wpos) - Ahead(rown)
    BY <2>1, Rebase DEF Ahead
  <2>4. Ahead(rown) \in 0..Cap /\ Ahead(wpos) \in 0..Cap
    BY <2>1, DistanceValue DEF Ahead
  <2> QED
    BY <2>1, <2>2, <2>3, <2>4
<1>3. dst = <<>> /\ Len(dst) = 0 /\ Len(dst) < ElemSize
  BY <1>1, RingTSOAssumption DEF IInv, TSOTypeOK
<1>4. TSOTypeOK'
  BY <1>1, <1>3 DEF IInv, TSOTypeOK
<1>5. PushInOrder'
  BY <1>1 DEF IInv, PushInOrder, PushAt, Place, Ahead
<1>6. PopInOrder'
  BY <1>1, <1>2, <1>3 DEF IInv, PopInOrder, PopAt, Ahead
<1> QED
  BY <1>4, <1>5, <1>6 DEF IInv

LEMMA PopCopyKeeps ==
  ASSUME IInv, PopCopy
  PROVE  IInv'
<1> DEFINE n == Len(dst)
           b == data[rown][n + 1]
<1>1. /\ rpc = "copy" /\ dst' = Append(dst, b)
      /\ rpc' = IF n + 1 = ElemSize THEN "store" ELSE "copy"
      /\ UNCHANGED <<data, rpos, wpos, pushBuf, wown, wpc, src, wk, popBuf, rown, snap, out>>
  BY DEF PopCopy, memory, pushVars
<1>2. n \in Nat /\ n < ElemSize /\ dst \in Seq(Byte) /\ data[rown] \in Elem
  BY <1>1 DEF IInv, TSOTypeOK
<1>3. n + 1 \in 1..ElemSize /\ b \in Byte
  BY <1>2, RingTSOAssumption DEF Elem
<1>4. /\ dst' \in Seq(Byte) /\ Len(dst') = n + 1
      /\ \A k \in 1..(n + 1) : dst'[k] = IF k = n + 1 THEN b ELSE dst[k]
  <2> HIDE DEF b
  <2> QED
    BY <1>1, <1>2, <1>3
<1>5. \A k \in 1..(n + 1) : dst'[k] = data[rown][k]
  <2>1. \A k \in 1..n : dst[k] = data[rown][k]
    BY <1>1 DEF IInv, PopInOrder
  <2>2. \A k \in 1..(n + 1) : k # n + 1 => k \in 1..n
    BY <1>2
  <2> QED
    BY <1>4, <2>1, <2>2
<1>6. TSOTypeOK'
  <2>1. rpc' \in {"copy", "store"} /\ dst' \in Seq(Byte)
    BY <1>1, <1>4
  <2>2. (rpc' = "copy" => Len(dst') < ElemSize) /\ (rpc' = "store" => Len(dst') = ElemSize)
    <3> HIDE DEF n, b
    <3> QED
      BY <1>1, <1>2, <1>4, RingTSOAssumption
  <2> HIDE DEF b
  <2> QED
    BY <1>1, <2>1, <2>2 DEF IInv, TSOTypeOK
<1>7. PushInOrder'
  BY <1>1 DEF IInv, PushInOrder, PushAt, Place, Ahead
<1>8. PopInOrder'
  <2>1. /\ UNCHANGED <<PopAt(Len(popBuf)), rown, rpos, wpos>>
        /\ \A i, j \in 0..Len(popBuf) : i <= j => Ahead(PopAt(i)) <= Ahead(PopAt(j))
        /\ Ahead(rown) < Ahead(wpos) /\ Ahead(rown) <= Ahead(wpos)
    BY <1>1 DEF IInv, PopInOrder, PopAt
  <2> QED
    BY <1>1, <1>4, <1>5, <2>1 DEF IInv, PopInOrder, PopAt, Ahead
<1> QED
  BY <1>6, <1>7, <1>8 DEF IInv

\* Issuing a store of rpos, not beyond the published wpos.
LEMMA StoreRposKeeps ==
  ASSUME IInv, NEW pos \in Slot, NEW given, StoreRpos(pos, given),
         Ahead(rown) <= Ahead(pos), Ahead(pos) <= Ahead(wpos)
  PROVE  IInv'
<1> DEFINE n == Len(popBuf)
           st == [at |-> Position, val |-> pos]
<1>1. /\ rown' = pos /\ popBuf' = Append(popBuf, st) /\ rpc' = "idle" /\ dst' = <<>> /\ snap' = 0
      /\ UNCHANGED <<data, rpos, wpos, pushBuf, wown, wpc, src, wk>>
  BY DEF StoreRpos, memory, pushVars
<1>2. st \in PopStores /\ st.val = pos
  BY DEF PopStores
<1> HIDE DEF st
<1>3. /\ n \in Nat /\ popBuf \in Seq(PopStores)
      /\ popBuf' \in Seq(PopStores) /\ Len(popBuf') = n + 1
      /\ \A i \in 1..n : popBuf'[i] = popBuf[i]
      /\ popBuf'[n + 1] = st
  BY <1>1, <1>2 DEF IInv, TSOTypeOK
<1>4. ASSUME NEW i \in 0..(n + 1) PROVE PopAt(i)' = IF i = n + 1 THEN pos ELSE PopAt(i)
  BY <1>1, <1>2, <1>3 DEF PopAt
<1>5. /\ \A i \in 0..n : PopAt(i) \in Slot /\ Ahead(PopAt(i)) <= Ahead(rown)
      /\ \A p \in Slot : Ahead(p) \in 0..Cap
      /\ rown \in Slot
  BY PlacesAreSlots, WholeOrder DEF IInv, TSOTypeOK
<1>6. TSOTypeOK'
  <2>1. 0 \in Slot /\ <<>> \in Seq(Byte)
    BY RingTSOAssumption DEF Slot
  <2> QED
    BY <1>1, <1>3, <2>1 DEF IInv, TSOTypeOK
<1>7. PushInOrder'
  BY <1>1 DEF IInv, PushInOrder, PushAt, Place, Ahead
<1>8. PopInOrder'
  <2>1. (PopAt(Len(popBuf)) = rown)'
    BY <1>1, <1>2, <1>3 DEF PopAt
  <2>2. ASSUME NEW i \in 0..(n + 1), NEW j \in 0..(n + 1), i <= j
        PROVE  Distance(rpos', PopAt(i)') <= Distance(rpos', PopAt(j)')
    <3>1. CASE i = n + 1
      <4>1. j = n + 1
        BY <1>3, <2>2, <3>1
      <4>2. PopAt(i)' = pos /\ PopAt(j)' = pos /\ Ahead(pos) \in Int
        BY <1>4, <1>5, <3>1, <4>1
      <4> QED
        BY <1>1, <4>2 DEF Ahead
    <3>2. CASE i # n + 1 /\ j = n + 1
      <4>1. i \in 0..n /\ PopAt(i)' = PopAt(i) /\ PopAt(j)' = pos
        BY <1>3, <1>4, <3>2
      <4>2. /\ Ahead(PopAt(i)) <= Ahead(rown) /\ Ahead(PopAt(i)) \in 0..Cap
            /\ Ahead(rown) \in 0..Cap /\ Ahead(pos) \in 0..Cap
        BY <1>5, <4>1
      <4>3. Ahead(PopAt(i)) <= Ahead(pos)
        BY <4>2
      <4> QED
        BY <1>1, <4>1, <4>3 DEF Ahead
    <3>3. CASE i # n + 1 /\ j # n + 1
      <4>1. i \in 0..n /\ j \in 0..n /\ PopAt(i)' = PopAt(i) /\ PopAt(j)' = PopAt(j)
        BY <1>3, <1>4, <3>3
      <4>2. Ahead(PopAt(i)) <= Ahead(PopAt(j))
        BY <2>2, <4>1 DEF IInv, PopInOrder
      <4> QED
        BY <1>1, <4>1, <4>2 DEF Ahead
    <3> QED
      BY <3>1, <3>2, <3>3
  <2> QED
    BY <1>1, <1>3, <2>1, <2>2 DEF PopInOrder, Ahead
<1> QED
  BY <1>6, <1>7, <1>8 DEF IInv

\* The end of a pop that found something.
LEMMA PopStoreKeeps ==
  ASSUME IInv, PopStore
  PROVE  /\ IInv'
         /\ rown' = NextPos(rown, Cap) /\ Distance(rpos, rown') = Ahead(rown) + 1
         /\ Distance(rpos, rown') <= Ahead(wpos)
<1> DEFINE pos == NextPos(rown, Cap)
           given == IF rpc = "store" THEN <<dst>> ELSE <<>>
<1>1. /\ StoreRpos(pos, given) /\ rpc \in {"store", "skip"}
      /\ rpos \in Slot /\ rown \in Slot /\ wpos \in Slot /\ pos \in Slot
  BY NextSlot DEF PopStore, IInv, TSOTypeOK
<1>2. /\ Ahead(rown) < Ahead(wpos) /\ Ahead(rown) \in 0..Cap /\ Ahead(wpos) \in 0..Cap
      /\ Cap \in Nat
  BY <1>1, DistanceValue, RingTSOAssumption DEF IInv, PopInOrder, Ahead
<1>3. Ahead(pos) = Ahead(rown) + 1
  BY <1>1, <1>2, NextFurther DEF Ahead
<1>4. Ahead(rown) <= Ahead(pos) /\ Ahead(pos) <= Ahead(wpos)
  BY <1>2, <1>3
<1>5. rown' = pos
  BY <1>1 DEF StoreRpos
<1> HIDE DEF pos, given
<1>6. IInv'
  BY <1>1, <1>4, StoreRposKeeps
<1> QED
  BY <1>3, <1>4, <1>5, <1>6 DEF Ahead, pos

LEMMA FlushKeeps ==
  ASSUME IInv, FlushLoad \/ FlushStore
  PROVE  IInv'
<1>1. CASE FlushLoad
  <2>1. /\ rpc = "idle" /\ snap' = wpos /\ rpc' = "flush"
        /\ UNCHANGED <<data, rpos, wpos, pushBuf, wown, wpc, src, wk, popBuf, rown, dst, out>>
    BY <1>1 DEF FlushLoad, memory, pushVars
  <2>2. Ahead(wpos) \in 0..Cap
    BY DistanceValue DEF Ahead, IInv, TSOTypeOK
  <2>3. TSOTypeOK'
    BY <2>1 DEF IInv, TSOTypeOK
  <2>4. PushInOrder'
    BY <2>1 DEF IInv, PushInOrder, PushAt, Place, Ahead
  <2>5. PopInOrder'
    BY <2>1, <2>2 DEF IInv, PopInOrder, PopAt, Ahead
  <2> QED
    BY <2>3, <2>4, <2>5 DEF IInv
<1>2. CASE FlushStore
  <2>1. StoreRpos(snap, <<>>) /\ rpc = "flush" /\ snap \in Slot
    BY <1>2 DEF FlushStore, IInv, TSOTypeOK
  <2>2. Ahead(rown) <= Ahead(snap) /\ Ahead(snap) <= Ahead(wpos)
    BY <2>1 DEF IInv, PopInOrder
  <2> QED
    BY <2>1, <2>2, StoreRposKeeps
<1> QED
  BY <1>1, <1>2

-------------------------------------------------------------------------------
(* The theorems. *)

LEMMA Stutter ==
  ASSUME IInv, UNCHANGED vars
  PROVE  IInv'
<1>1. UNCHANGED <<data, rpos, wpos, pushBuf, popBuf, wown, rown, wpc, src, wk, rpc, dst, snap>>
  BY DEF vars
<1>2. TSOTypeOK'
  BY <1>1 DEF IInv, TSOTypeOK
<1>3. PushInOrder'
  BY <1>1 DEF IInv, PushInOrder, PushAt, Place, Ahead
<1>4. PopInOrder'
  BY <1>1 DEF IInv, PopInOrder, PopAt, Ahead
<1> QED
  BY <1>2, <1>3, <1>4 DEF IInv

LEMMA NextKeeps ==
  ASSUME KeepsOrder, IInv, [Next]_vars
  PROVE  IInv'
<1>1. CASE PushCall
  BY <1>1, Stutter, PushStartKeeps, PushCopyKeeps, PushStoreKeeps DEF PushCall, PushFull
<1>2. CASE PopCall
  BY <1>2, Stutter, PopStartKeeps, PopCopyKeeps, PopStoreKeeps, FlushKeeps DEF PopCall, PopEmpty
<1>3. CASE PushCommit \/ PopCommit
  BY <1>3, PushCommitKeeps, PopCommitKeeps
<1>4. CASE UNCHANGED vars
  BY <1>4, Stutter
<1> QED
  BY <1>1, <1>2, <1>3, <1>4 DEF Next

\* The invariant holds throughout, for every depth of the store buffers.
THEOREM Invariance == ASSUME KeepsOrder PROVE Spec => []IInv
<1>1. IInv /\ [Next]_vars => IInv'
  BY NextKeeps
<1> QED
  BY InitIInv, <1>1, PTL DEF Spec

\* However far either thread's knowledge of the other lags behind, no byte on its
\* way to memory (the memcpy of ring_push, cmn_ring.c:70) goes to an element
\* ring_pop may be reading.
THEOREM StoresStayBehind == ASSUME KeepsOrder PROVE Spec => []NoStoreIntoUnread
<1>1. ASSUME IInv PROVE NoStoreIntoUnread
  <2> SUFFICES ASSUME NEW i \in DOMAIN pushBuf, pushBuf[i].at # Position
               PROVE  Distance(rown, pushBuf[i].at.slot) >= Distance(rown, wpos)
    BY DEF NoStoreIntoUnread
  <2> DEFINE s == pushBuf[i].at.slot
  <2>1. i \in 1..Len(pushBuf) /\ i \in 0..Len(pushBuf) /\ i # 0
    BY <1>1 DEF IInv, TSOTypeOK
  <2>2. s = PushAt(i)
    BY <2>1 DEF PushAt, Place
  <2> HIDE DEF s
  <2>3. /\ s \in Slot /\ rpos \in Slot /\ rown \in Slot /\ wpos \in Slot
        /\ Ahead(s) \in 0..Cap /\ Ahead(wpos) \in 0..Cap /\ Ahead(rown) \in 0..Cap
    BY <1>1, <2>1, <2>2, PlacesAreSlots DEF IInv, TSOTypeOK
  <2>4. Ahead(wpos) <= Ahead(s) /\ Ahead(rown) <= Ahead(wpos)
    BY <1>1, <2>1, <2>2, WholeOrder
  <2>5. Distance(rown, s) = Ahead(s) - Ahead(rown)
    <3>1. Ahead(rown) <= Ahead(s)
      BY <2>3, <2>4
    <3> QED
      BY <2>3, <3>1, Rebase DEF Ahead
  <2>6. Distance(rown, wpos) = Ahead(wpos) - Ahead(rown)
    BY <2>3, <2>4, Rebase DEF Ahead
  <2>7. Distance(rown, s) >= Distance(rown, wpos)
    BY <2>3, <2>4, <2>5, <2>6
  <2> QED
    BY <2>7 DEF s
<1>2. IInv => NoStoreIntoUnread
  BY <1>1
<1> QED
  BY Invariance, <1>2, PTL

-------------------------------------------------------------------------------
(* The ring implements the bounded queue. *)

\* The queue of a state that satisfies the invariant.
LEMMA QueueType ==
  ASSUME IInv
  PROVE  /\ Queue \in Seq(Elem) /\ Len(Queue) = Distance(rown, wpos)
         /\ Distance(rown, wpos) \in 0..Cap
         /\ Distance(rown, wpos) = Ahead(wpos) - Ahead(rown)
         /\ Ahead(rown) \in 0..Cap /\ Ahead(wpos) \in 0..Cap
         /\ data \in [Slot -> Elem] /\ rown \in Slot /\ wpos \in Slot /\ rpos \in Slot
<1>1. data \in [Slot -> Elem] /\ rown \in Slot /\ wpos \in Slot /\ rpos \in Slot
  BY DEF IInv, TSOTypeOK
<1>2. Ahead(rown) <= Ahead(wpos)
  BY WholeOrder
<1>3. Ahead(rown) \in 0..Cap /\ Ahead(wpos) \in 0..Cap
  BY <1>1, DistanceValue DEF Ahead
<1>4. Distance(rown, wpos) = Ahead(wpos) - Ahead(rown)
  BY <1>1, <1>2, Rebase DEF Ahead
<1>5. /\ Queue \in Seq(Elem) /\ Len(Queue) = Distance(rown, wpos)
      /\ Distance(rown, wpos) \in 0..Cap
  BY <1>1, BetweenSeq, QueueIsBetween
<1> QED
  BY <1>1, <1>3, <1>4, <1>5

LEMMA InitRefines == Init => Fifo!Init
<1> SUFFICES ASSUME Init PROVE Fifo!Init
  OBVIOUS
<1>1. IInv /\ rown = 0 /\ wpos = 0 /\ out = <<>> /\ rpc = "idle"
  BY InitIInv DEF Init
<1>2. Distance(rown, wpos) = 0
  BY <1>1, NoDistance DEF IInv, TSOTypeOK
<1>3. Queue = <<>>
  BY <1>1, <1>2, QueueType
<1> QED
  BY <1>1, <1>3 DEF Fifo!Init, Marked

\* A byte that reaches memory is unseen; a wpos adds the element behind it.
LEMMA PushCommitRefines ==
  ASSUME KeepsOrder, IInv, PushCommit
  PROVE  [Fifo!Next]_Fifo!vars
<1>1. /\ Queue \in Seq(Elem) /\ Len(Queue) = Distance(rown, wpos) /\ Distance(rown, wpos) \in 0..Cap
      /\ data \in [Slot -> Elem] /\ rown \in Slot /\ wpos \in Slot /\ rpos \in Slot
      /\ Distance(rown, wpos) = Ahead(wpos) - Ahead(rown)
      /\ Ahead(rown) \in 0..Cap /\ Ahead(wpos) \in 0..Cap
  BY QueueType
<1>2. UNCHANGED <<rpos, rown, rpc, snap, out>>
  BY DEF PushCommit, popVars
<1>3. Marked' = Marked /\ out' = out
  BY <1>2 DEF Marked, Distance
<1>4. /\ pushBuf[1].at = Position => wpos' = NextPos(wpos, Cap) /\ data' = data
      /\ pushBuf[1].at = Position => Ahead(wpos) < Cap
      /\ pushBuf[1].at # Position => wpos' = wpos
      /\ data' \in [Slot -> Elem] /\ \A s \in Slot \ {wpos} : data'[s] = data[s]
  BY OldestCommits
<1>5. Queue' = Between(data', rown, wpos')
  BY <1>2 DEF Queue, Between
<1>6. CASE pushBuf[1].at # Position
  <2>1. Queue' = Queue
    BY <1>1, <1>4, <1>5, <1>6, BetweenElsewhere, QueueIsBetween
  <2> QED
    BY <1>3, <2>1 DEF Fifo!vars
<1>7. CASE pushBuf[1].at = Position
  <2> DEFINE s == [i \in 1..1 |-> data[wpos]]
  <2>1. Distance(rown, wpos) < Cap /\ Cap \in Nat
    BY <1>1, <1>4, <1>7, RingTSOAssumption
  <2>2. Queue' = Append(Queue, data[wpos])
    BY <1>1, <1>4, <1>5, <1>7, <2>1, BetweenAppend, QueueIsBetween
  <2>3. data[wpos] \in Elem
    BY <1>1
  <2>4. s \in [1..1 -> Elem] /\ Len(s) = 1 /\ Queue' = Queue \o s
    BY <1>1, <2>2, <2>3
  <2>5. 1 \in 1..Cap /\ Len(Queue) + Len(s) <= Cap
    BY <1>1, <2>1, <2>4
  <2> HIDE DEF s
  <2>6. Fifo!Put(s)
    BY <1>3, <2>4, <2>5 DEF Fifo!Put
  <2> QED
    BY <2>4, <2>5, <2>6 DEF Fifo!Next
<1> QED
  BY <1>6, <1>7

\* A pop that returns has taken or dropped the oldest element.
LEMMA PopStoreRefines ==
  ASSUME IInv, PopStore
  PROVE  Fifo!Next
<1>1. /\ Queue \in Seq(Elem) /\ Len(Queue) = Distance(rown, wpos) /\ Distance(rown, wpos) \in 0..Cap
      /\ data \in [Slot -> Elem] /\ rown \in Slot /\ wpos \in Slot /\ rpos \in Slot
      /\ Distance(rown, wpos) = Ahead(wpos) - Ahead(rown)
      /\ Ahead(rown) \in 0..Cap /\ Ahead(wpos) \in 0..Cap
  BY QueueType
<1>2. /\ rpc \in {"store", "skip"} /\ rpc' = "idle" /\ UNCHANGED <<data, wpos>>
      /\ out' = IF rpc = "store" THEN <<dst>> ELSE <<>>
  BY DEF PopStore, StoreRpos, memory
<1>3. Ahead(rown) < Ahead(wpos) /\ Distance(rown, wpos) \in 1..Cap
  BY <1>1, <1>2 DEF IInv, PopInOrder
<1>4. Marked = 0 /\ Marked' = 0
  BY <1>2 DEF Marked
<1>5. Queue' = SubSeq(Queue, 2, Len(Queue))
  <2> DEFINE pos == NextPos(rown, Cap)
  <2>1. rown' = pos /\ pos \in Slot
    BY <1>1, PopStoreKeeps, NextSlot
  <2>2. Distance(rown, rown) = 0 /\ Cap \in Nat /\ 0 < Cap
    BY <1>1, <1>3, NoDistance, RingTSOAssumption
  <2>3. Distance(rown, pos) = 0 + 1
    BY <1>1, <2>2, NextFurther
  <2> HIDE DEF pos
  <2>4. Distance(rown, pos) <= Distance(rown, wpos)
    BY <1>3, <2>3
  <2>5. Between(data, pos, wpos) = SubSeq(Queue, Distance(rown, pos) + 1, Len(Queue))
    BY <1>1, <2>1, <2>4, BetweenDrop, QueueIsBetween
  <2>6. Queue' = Between(data, pos, wpos)
    BY <1>2, <2>1 DEF Queue, Between
  <2>7. Distance(rown, pos) + 1 = 2
    BY <2>3
  <2> QED
    BY <2>5, <2>6, <2>7
<1>6. CASE rpc = "store"
  <2>1. dst \in Seq(Byte) /\ Len(dst) = ElemSize /\ \A k \in 1..Len(dst) : dst[k] = data[rown][k]
    BY <1>6 DEF IInv, TSOTypeOK, PopInOrder
  <2>2. dst = data[rown]
    <3>1. data[rown] \in Elem
      BY <1>1
    <3>2. dst \in [1..ElemSize -> Byte]
      BY <2>1
    <3> QED
      BY <2>1, <3>1, <3>2 DEF Elem
  <2>3. Queue[1] = data[rown]
    <3>1. 1 \in 1..Distance(rown, wpos) /\ 1 \in 1..Slots
      BY <1>1, <1>3, BetweenSeq
    <3>2. /\ (rown + 1 - 1) % Slots \in Slot
          /\ Distance(rown, (rown + 1 - 1) % Slots) = 1 - 1
      BY <1>1, <3>1, SlotAt
    <3>3. Distance(rown, rown) = 1 - 1
      BY <1>1, NoDistance
    <3>4. (rown + 1 - 1) % Slots = rown
      BY <1>1, <3>2, <3>3, SamePosition
    <3> QED
      BY <3>1, <3>4 DEF Queue
  <2>4. out' = SubSeq(Queue, 1, 1)
    <3>1. 1 \in 1..Len(Queue)
      BY <1>1, <1>3
    <3>2. SubSeq(Queue, 1, 1) = <<Queue[1]>>
      <4> DEFINE q == Queue
      <4>1. q \in Seq(Elem) /\ 1 \in 1..Len(q)
        BY <1>1, <3>1
      <4> HIDE DEF q
      <4>2. SubSeq(q, 1, 1) = <<q[1]>> \o SubSeq(q, 2, 1)
        BY <4>1, SubSeqRecursiveFirst
      <4>3. SubSeq(q, 2, 1) = <<>> /\ <<q[1]>> \in Seq(Elem)
        BY <4>1, SubSeqEmpty
      <4>4. <<q[1]>> \o <<>> = <<q[1]>>
        BY <4>3, ConcatEmptySeq
      <4> QED
        BY <4>2, <4>3, <4>4 DEF q
    <3> QED
      BY <1>2, <1>6, <2>2, <2>3, <3>2
  <2>5. 1 \in 0..Len(Queue)
    BY <1>1, <1>3
  <2>6. Fifo!Take(1)
    BY <1>4, <1>5, <2>4 DEF Fifo!Take, Fifo!Without
  <2> QED
    BY <2>5, <2>6 DEF Fifo!Next
<1>7. CASE rpc = "skip"
  <2>1. Queue # <<>> /\ out' = <<>>
    BY <1>1, <1>2, <1>3, <1>7
  <2>2. Fifo!Skip
    BY <1>4, <1>5, <2>1 DEF Fifo!Skip, Fifo!Without
  <2> QED
    BY <2>2 DEF Fifo!Next
<1> QED
  BY <1>2, <1>6, <1>7

\* A flush drops what was published when it read wpos, and no more.
LEMMA FlushRefines ==
  ASSUME IInv, FlushLoad \/ FlushStore
  PROVE  Fifo!Next
<1>1. /\ Queue \in Seq(Elem) /\ Len(Queue) = Distance(rown, wpos)
      /\ data \in [Slot -> Elem] /\ rown \in Slot /\ wpos \in Slot /\ rpos \in Slot
      /\ Distance(rown, wpos) = Ahead(wpos) - Ahead(rown)
      /\ Ahead(rown) \in 0..Cap /\ Ahead(wpos) \in 0..Cap
  BY QueueType
<1>2. CASE FlushLoad
  <2>1. /\ rpc = "idle" /\ snap' = wpos /\ rpc' = "flush" /\ UNCHANGED <<data, wpos, rown, out>>
    BY <1>2 DEF FlushLoad, memory
  <2>2. Queue' = Queue
    BY <2>1 DEF Queue, Distance
  <2>3. Marked = 0 /\ Marked' = Len(Queue)
    BY <1>1, <2>1 DEF Marked, Distance
  <2>4. Fifo!FlushBegin
    BY <2>1, <2>2, <2>3 DEF Fifo!FlushBegin
  <2> QED
    BY <2>4 DEF Fifo!Next
<1>3. CASE FlushStore
  <2>1. /\ rpc = "flush" /\ rown' = snap /\ out' = <<>> /\ rpc' = "idle" /\ UNCHANGED <<data, wpos>>
    BY <1>3 DEF FlushStore, StoreRpos, memory
  <2>2. snap \in Slot /\ Ahead(rown) <= Ahead(snap) /\ Ahead(snap) <= Ahead(wpos)
    BY <2>1 DEF IInv, TSOTypeOK, PopInOrder
  <2>3. Distance(rown, snap) <= Distance(rown, wpos)
    <3>1. Ahead(snap) \in 0..Cap
      BY <1>1, <2>2, DistanceValue DEF Ahead
    <3>2. Distance(rown, snap) = Ahead(snap) - Ahead(rown)
      BY <1>1, <2>2, Rebase DEF Ahead
    <3> QED
      BY <1>1, <2>2, <3>1, <3>2
  <2>4. Between(data, snap, wpos) = SubSeq(Queue, Distance(rown, snap) + 1, Len(Queue))
    BY <1>1, <2>2, <2>3, BetweenDrop, QueueIsBetween
  <2>5. Queue' = Between(data, snap, wpos)
    BY <2>1 DEF Queue, Between
  <2>6. Marked = Distance(rown, snap) /\ Marked' = 0
    BY <2>1 DEF Marked
  <2>7. Fifo!FlushEnd
    BY <2>1, <2>4, <2>5, <2>6 DEF Fifo!FlushEnd, Fifo!Without
  <2> QED
    BY <2>7 DEF Fifo!Next
<1> QED
  BY <1>2, <1>3

\* Every step maps to a step or a stutter.
LEMMA NextRefines ==
  ASSUME KeepsOrder, IInv, [Next]_vars
  PROVE  [Fifo!Next]_Fifo!vars
<1>1. ASSUME UNCHANGED <<data, wpos, rown, snap, out>>, (rpc = "flush") = (rpc' = "flush")
      PROVE  UNCHANGED Fifo!vars
  BY <1>1 DEF Fifo!vars, Queue, Marked, Distance
<1>2. CASE PushCall
  BY <1>1, <1>2 DEF PushCall, PushFull, PushStart, PushCopy, PushStore, memory, popVars, vars
<1>3. CASE PopEmpty \/ (\E wanted \in BOOLEAN : PopStart(wanted)) \/ PopCopy \/ PopCommit
  BY <1>1, <1>3 DEF PopEmpty, PopStart, PopCopy, PopCommit, memory, vars
<1>4. CASE PopStore \/ FlushLoad \/ FlushStore
  BY <1>4, PopStoreRefines, FlushRefines
<1>5. CASE PushCommit
  BY <1>5, PushCommitRefines
<1>6. CASE UNCHANGED vars
  BY <1>1, <1>6 DEF vars
<1> QED
  BY <1>2, <1>3, <1>4, <1>5, <1>6 DEF Next, PopCall

\* On a machine that keeps the stores of a processor in order, the relaxed atomics
\* of cmn_ring.c are enough: an element is in the queue from the moment its wpos
\* is in memory, and comes out once, whole and in order.
THEOREM Refinement == ASSUME KeepsOrder PROVE Spec => FifoSpec
<1>1. IInv /\ [Next]_vars => [Fifo!Next]_Fifo!vars
  BY NextRefines
<1> QED
  BY Invariance, InitRefines, <1>1, PTL DEF Spec, FifoSpec, Fifo!Spec
=============================================================================
