------------------------------ MODULE RingProofs ------------------------------
(***************************************************************************)
(* Proofs about Ring for every capacity, element size and byte alphabet:   *)
(* the invariants of the two concurrent calls, that what is published is   *)
(* what was pushed, and that the ring implements BoundedFifo.              *)
(***************************************************************************)
EXTENDS Ring, SequenceTheorems, TLAPS

-------------------------------------------------------------------------------
(* Positions. *)

\* Remainders of the numbers one lap of the ring can produce.
LEMMA OneLap ==
  ASSUME NEW m \in Nat \ {0}, NEW x \in 0..(2 * m - 1)
  PROVE  x % m = IF x < m THEN x ELSE x - m
<1>1. CASE x < m
  BY <1>1, SMT
<1>2. CASE ~(x < m)
  BY <1>2, SMT
<1> QED
  BY <1>1, <1>2

\* The same for the number of slots: one subtraction brings a sum of two
\* positions back into the array.
LEMMA Wrap ==
  ASSUME NEW x \in 0..(2 * Cap + 1)
  PROVE  /\ x % (Cap + 1) = IF x <= Cap THEN x ELSE x - (Cap + 1)
         /\ x % (Cap + 1) \in Slot
<1>1. Cap + 1 \in Nat \ {0} /\ x \in 0..(2 * (Cap + 1) - 1)
  BY RingAssumption
<1>2. x % (Cap + 1) = IF x < Cap + 1 THEN x ELSE x - (Cap + 1)
  BY <1>1, OneLap
<1> QED
  BY <1>2, RingAssumption DEF Slot

\* The position after a slot, with the wrap written out.
LEMMA NextPosValue ==
  ASSUME NEW p \in Slot
  PROVE  /\ NextPos(p, Cap) = IF p = Cap THEN 0 ELSE p + 1
         /\ NextPos(p, Cap) \in Slot
<1> DEFINE x == p + 1
<1>1. p \in Int /\ 0 <= p /\ p <= Cap /\ x \in 0..(2 * Cap + 1)
  BY RingAssumption DEF Slot
<1>2. /\ x % (Cap + 1) = IF x <= Cap THEN x ELSE x - (Cap + 1)
      /\ x % (Cap + 1) \in Slot
  BY <1>1, Wrap
<1> QED
  BY <1>1, <1>2, RingAssumption DEF NextPos

\* The slots from one position to another are what ring_nelem counts.
LEMMA DistanceValue ==
  ASSUME NEW r \in Slot, NEW w \in Slot
  PROVE  /\ Distance(r, w) = ring_nelem(r, w, Cap)
         /\ Distance(r, w) = IF r <= w THEN w - r ELSE w + (Cap - r + 1)
         /\ Distance(r, w) \in 0..Cap
<1> DEFINE x == w + (Cap + 1) - r
<1>1. /\ r \in Int /\ 0 <= r /\ r <= Cap
      /\ w \in Int /\ 0 <= w /\ w <= Cap
      /\ x \in 0..(2 * Cap + 1)
  BY RingAssumption DEF Slot
<1>2. x % (Cap + 1) = IF x <= Cap THEN x ELSE x - (Cap + 1)
  BY <1>1, Wrap
<1> QED
  BY <1>1, <1>2, RingAssumption DEF Slots, Distance, ring_nelem

\* The slot of the i-th element from position r, with the wrap written out.
LEMMA SlotAt ==
  ASSUME NEW r \in Slot, NEW i \in 1..Slots
  PROVE  /\ (r + i - 1) % Slots = IF r + i - 1 <= Cap THEN r + i - 1 ELSE r + i - 2 - Cap
         /\ (r + i - 1) % Slots \in Slot
<1> DEFINE x == r + i - 1
<1>1. r \in Int /\ i \in Int /\ x \in 0..(2 * Cap + 1)
  BY RingAssumption DEF Slot, Slots
<1>2. /\ x % (Cap + 1) = IF x <= Cap THEN x ELSE x - (Cap + 1)
      /\ x % (Cap + 1) \in Slot
  BY <1>1, Wrap
<1> QED
  BY <1>1, <1>2, RingAssumption DEF Slots

-------------------------------------------------------------------------------
(* The contents between two positions. *)

\* They are a sequence of elements.
LEMMA ContentsSeq ==
  ASSUME NEW d \in [Slot -> Elem], NEW r \in Slot, NEW w \in Slot
  PROVE  /\ Contents(d, r, w) \in Seq(Elem)
         /\ Len(Contents(d, r, w)) = Distance(r, w)
<1> DEFINE n == Distance(r, w)
<1>1. n \in 0..Cap
  BY DistanceValue
<1>2. \A i \in 1..n : d[(r + i - 1) % Slots] \in Elem
  BY <1>1, SlotAt, RingAssumption DEF Slots
<1> QED
  BY <1>1, <1>2, RingAssumption DEF Contents

\* Writing a slot outside of them does not change them.
LEMMA ContentsElsewhere ==
  ASSUME NEW d \in [Slot -> Elem], NEW e, NEW r \in Slot, NEW w \in Slot,
         \A s \in Slot \ {w} : e[s] = d[s]
  PROVE  Contents(e, r, w) = Contents(d, r, w)
<1>1. SUFFICES ASSUME NEW i \in 1..Distance(r, w)
               PROVE  e[(r + i - 1) % Slots] = d[(r + i - 1) % Slots]
  BY DEF Contents
<1>2. /\ Distance(r, w) \in 0..Cap
      /\ Distance(r, w) = IF r <= w THEN w - r ELSE w + (Cap - r + 1)
  BY DistanceValue
<1>3. i \in 1..Slots
  BY <1>2, RingAssumption DEF Slots
<1>4. /\ (r + i - 1) % Slots = IF r + i - 1 <= Cap THEN r + i - 1 ELSE r + i - 2 - Cap
      /\ (r + i - 1) % Slots \in Slot
  BY <1>3, SlotAt
<1>5. (r + i - 1) % Slots # w
  BY <1>2, <1>3, <1>4, RingAssumption DEF Slot
<1> QED
  BY <1>4, <1>5

\* Advancing the end by one slot, the ring not being full, appends that slot.
LEMMA ContentsAppend ==
  ASSUME NEW d \in [Slot -> Elem], NEW r \in Slot, NEW w \in Slot,
         ring_nelem(r, w, Cap) < Cap
  PROVE  /\ Distance(r, NextPos(w, Cap)) = Distance(r, w) + 1
         /\ Contents(d, r, NextPos(w, Cap)) = Append(Contents(d, r, w), d[w])
<1> DEFINE n == Distance(r, w)
           v == NextPos(w, Cap)
<1>1. /\ n \in 0..(Cap - 1)
      /\ n = IF r <= w THEN w - r ELSE w + (Cap - r + 1)
  BY DistanceValue, RingAssumption
<1>2. /\ v \in Slot
      /\ v = IF w = Cap THEN 0 ELSE w + 1
  BY NextPosValue
<1>3. Distance(r, v) = n + 1
  <2>1. Distance(r, v) = IF r <= v THEN v - r ELSE v + (Cap - r + 1)
    BY <1>2, DistanceValue
  <2> QED
    BY <1>1, <1>2, <2>1, RingAssumption DEF Slot
<1>4. (r + (n + 1) - 1) % Slots = w
  <2>1. n + 1 \in 1..Slots
    BY <1>1, RingAssumption DEF Slots
  <2>2. (r + (n + 1) - 1) % Slots =
          IF r + (n + 1) - 1 <= Cap THEN r + (n + 1) - 1 ELSE r + (n + 1) - 2 - Cap
    BY <2>1, SlotAt
  <2> QED
    BY <1>1, <2>2, RingAssumption DEF Slot
<1>5. Contents(d, r, v) = [i \in 1..(n + 1) |-> d[(r + i - 1) % Slots]]
  BY <1>3 DEF Contents
<1>6. Append(Contents(d, r, w), d[w]) = [i \in 1..(n + 1) |-> d[(r + i - 1) % Slots]]
  <2>1. /\ Contents(d, r, w) \in Seq(Elem)
        /\ Len(Contents(d, r, w)) = n
    BY ContentsSeq
  <2>2. \A i \in 1..n : Contents(d, r, w)[i] = d[(r + i - 1) % Slots]
    BY DEF Contents
  <2> QED
    BY <1>1, <1>4, <2>1, <2>2, RingAssumption
<1> QED
  BY <1>3, <1>5, <1>6

\* Advancing the start to a position on the way drops what it passes.
LEMMA ContentsDrop ==
  ASSUME NEW d \in [Slot -> Elem], NEW r \in Slot, NEW s \in Slot, NEW w \in Slot,
         ring_nelem(r, s, Cap) <= ring_nelem(r, w, Cap)
  PROVE  Contents(d, s, w) =
           SubSeq(Contents(d, r, w), Distance(r, s) + 1, Len(Contents(d, r, w)))
<1> DEFINE k == Distance(r, s)
           n == Distance(r, w)
<1>1. /\ k \in 0..Cap
      /\ k = IF r <= s THEN s - r ELSE s + (Cap - r + 1)
      /\ n \in 0..Cap
      /\ n = IF r <= w THEN w - r ELSE w + (Cap - r + 1)
      /\ k <= n
  BY DistanceValue
<1>2. Distance(s, w) = n - k
  <2>1. Distance(s, w) = IF s <= w THEN w - s ELSE w + (Cap - s + 1)
    BY DistanceValue
  <2> QED
    BY <1>1, <2>1, RingAssumption DEF Slot
<1>3. \A i \in 1..(n - k) : (s + i - 1) % Slots = (r + (i + k) - 1) % Slots
  <2>1. SUFFICES ASSUME NEW i \in 1..(n - k)
                 PROVE  (s + i - 1) % Slots = (r + (i + k) - 1) % Slots
    OBVIOUS
  <2>2. i \in 1..Slots /\ i + k \in 1..Slots
    BY <1>1, RingAssumption DEF Slots
  <2>3. (s + i - 1) % Slots = IF s + i - 1 <= Cap THEN s + i - 1 ELSE s + i - 2 - Cap
    BY <2>2, SlotAt
  <2>4. (r + (i + k) - 1) % Slots =
          IF r + (i + k) - 1 <= Cap THEN r + (i + k) - 1 ELSE r + (i + k) - 2 - Cap
    BY <2>2, SlotAt
  <2> QED
    BY <1>1, <2>2, <2>3, <2>4, RingAssumption DEF Slot, Slots
<1>4. /\ Contents(d, r, w) \in Seq(Elem)
      /\ Len(Contents(d, r, w)) = n
      /\ Contents(d, s, w) \in Seq(Elem)
      /\ Len(Contents(d, s, w)) = n - k
  BY <1>2, ContentsSeq
<1>5. \A i \in 1..(n - k) : Contents(d, s, w)[i] = Contents(d, r, w)[i + k]
  BY <1>1, <1>2, <1>3 DEF Contents
<1> DEFINE c == Contents(d, r, w)
           t == SubSeq(c, k + 1, n)
<1>6. /\ t \in Seq(Elem)
      /\ Len(t) = n - k
      /\ \A i \in 1..(n - k) : t[i] = c[i + k]
  <2>1. c \in Seq(Elem) /\ Len(c) = n /\ k \in Nat /\ n \in Nat /\ k <= n
    BY <1>1, <1>4, RingAssumption
  <2> HIDE DEF k, n, c
  <2> QED
    BY ONLY <2>1 DEF t
<1> QED
  <2> HIDE DEF k, n, c, t
  <2>1. t = Contents(d, s, w)
    BY <1>4, <1>5, <1>6, SeqEqual DEF c
  <2> QED
    BY <2>1, <1>4 DEF t, c, k

-------------------------------------------------------------------------------
(* The invariant. *)

\* It is inductive as the two halves of a call's knowledge stand: the exclusion
\* of the two memcpys alone would not be, since it says nothing of what a pop
\* has found before its first byte.
IInv == TypeOK /\ SnapshotsStayGood

\* The initial state satisfies it.
LEMMA InvInit == Init => IInv
<1> SUFFICES ASSUME Init PROVE IInv
  OBVIOUS
<1>1. TypeOK
  BY RingAssumption DEF Init, TypeOK, Slot, Result
<1>2. PushConsistent
  BY <1>1 DEF Init, PushConsistent
<1>3. PopConsistent
  BY <1>1 DEF Init, PopConsistent
<1> QED
  BY <1>1, <1>2, <1>3 DEF IInv, SnapshotsStayGood

\* A whole element read byte by byte is an element.
LEMMA WholeElem ==
  ASSUME NEW d \in Seq(Byte), Len(d) = ElemSize
  PROVE  d \in Elem
BY RingAssumption DEF Elem

\* Every step of either thread keeps the types.
LEMMA TypeStep == IInv /\ [Next]_vars => TypeOK'
<1> SUFFICES ASSUME IInv, [Next]_vars PROVE TypeOK'
  OBVIOUS
<1> USE RingAssumption DEF IInv, SnapshotsStayGood, Result
<1>1. CASE PushFull
  BY <1>1 DEF PushFull, TypeOK, ringVars, popVars
<1>2. CASE \E e \in Elem : PushStart(e)
  BY <1>2 DEF PushStart, TypeOK, ringVars, popVars
<1>3. CASE PushCopy
  <2>1. wk < ElemSize /\ src \in Elem
    BY <1>3 DEF PushCopy, PushConsistent
  <2>2. wk + 1 \in 1..ElemSize
    BY <2>1 DEF TypeOK
  <2>3. src[wk + 1] \in Byte
    BY <2>1, <2>2 DEF Elem
  <2>4. data' \in [Slot -> Elem]
    BY <1>3, <2>2, <2>3 DEF PushCopy, TypeOK, Elem
  <2> QED
    BY <1>3, <2>2, <2>4 DEF PushCopy, TypeOK, popVars
<1>4. CASE PushStore
  BY <1>4, NextPosValue DEF PushStore, PushReturn, TypeOK, popVars
<1>5. CASE PushCrash
  BY <1>5 DEF PushCrash, PushReturn, TypeOK, ringVars, popVars
<1>6. CASE PopEmpty
  BY <1>6 DEF PopEmpty, TypeOK, ringVars, pushVars
<1>7. CASE \E wanted \in BOOLEAN : PopStart(wanted)
  BY <1>7 DEF PopStart, TypeOK, ringVars, pushVars
<1>8. CASE PopCopy
  <2>1. Len(dst) < ElemSize /\ Len(dst) \in Nat
    BY <1>8 DEF PopCopy, PopConsistent, TypeOK
  <2>2. data[rpos][Len(dst) + 1] \in Byte
    BY <2>1 DEF TypeOK, Elem
  <2>3. dst' \in Seq(Byte)
    BY <1>8, <2>2 DEF PopCopy, TypeOK
  <2> QED
    BY <1>8, <2>3 DEF PopCopy, TypeOK, ringVars, pushVars
<1>9. CASE PopStore
  <2>1. rpc = "store" => dst \in Elem
    BY WholeElem DEF TypeOK, PopConsistent
  <2>2. out' \in Seq(Elem)
    BY <1>9, <2>1 DEF PopStore
  <2>3. NextPos(rpos, Cap) \in Slot
    BY NextPosValue DEF TypeOK
  <2> QED
    BY <1>9, <2>2, <2>3 DEF PopStore, PopReturn, TypeOK, Slot, pushVars
<1>10. CASE FlushLoad
  BY <1>10 DEF FlushLoad, TypeOK, ringVars, pushVars
<1>11. CASE FlushStore
  BY <1>11 DEF FlushStore, PopReturn, TypeOK, Slot, pushVars
<1>12. CASE PopCrash
  BY <1>12 DEF PopCrash, PopReturn, TypeOK, Slot, ringVars, pushVars
<1>13. CASE UNCHANGED vars
  BY <1>13 DEF vars, TypeOK
<1> QED
  BY <1>1, <1>2, <1>3, <1>4, <1>5, <1>6, <1>7, <1>8, <1>9, <1>10, <1>11, <1>12, <1>13
     DEF Next, PushStep, PopStep, Poll

\* Every step keeps what a push in progress knows: its own steps by what they
\* do, the other thread's because they only make room.
LEMMA PushStepKeeps == IInv /\ [Next]_vars => PushConsistent'
<1> SUFFICES ASSUME IInv, [Next]_vars PROVE PushConsistent'
  OBVIOUS
<1> USE RingAssumption DEF IInv, SnapshotsStayGood
<1>1. CASE PushFull
  BY <1>1 DEF PushFull, PushConsistent, TypeOK, ringVars, popVars
<1>2. CASE \E e \in Elem : PushStart(e)
  <2>1. ring_nelem(rpos, wpos, Cap) < Cap
    <3>1. ring_nelem(rpos, wpos, Cap) # Cap
      BY <1>2 DEF PushStart, ring_full
    <3>2. ring_nelem(rpos, wpos, Cap) \in 0..Cap
      BY DistanceValue DEF TypeOK
    <3> QED
      BY <3>1, <3>2
  <2> QED
    BY <1>2, <2>1 DEF PushStart, PushConsistent, TypeOK, ringVars, popVars
<1>3. CASE PushCopy
  <2>1. wk < ElemSize /\ src \in Elem /\ wk \in Nat
    BY <1>3 DEF PushCopy, PushConsistent, TypeOK
  <2>2. /\ data'[wpos][wk + 1] = src[wk + 1]
        /\ \A j \in 1..wk : data'[wpos][j] = data[wpos][j]
    BY <1>3, <2>1 DEF PushCopy, TypeOK, Elem
  <2>3. \A j \in 1..(wk + 1) : data'[wpos][j] = src[j]
    BY <2>1, <2>2 DEF PushConsistent
  <2> QED
    BY <1>3, <2>1, <2>3 DEF PushCopy, PushConsistent, TypeOK
<1>4. CASE PushStore
  BY <1>4 DEF PushStore, PushReturn, PushConsistent
<1>5. CASE PushCrash
  BY <1>5 DEF PushCrash, PushReturn, PushConsistent
<1>6. CASE PopEmpty
  BY <1>6 DEF PopEmpty, PushConsistent, ringVars, pushVars
<1>7. CASE \E wanted \in BOOLEAN : PopStart(wanted)
  BY <1>7 DEF PopStart, PushConsistent, ringVars, pushVars
<1>8. CASE PopCopy
  BY <1>8 DEF PopCopy, PushConsistent, ringVars, pushVars
<1>9. CASE PopStore
  <2>1. rpos # wpos
    BY <1>9 DEF PopStore, PopConsistent
  <2>2. rpos' = IF rpos = Cap THEN 0 ELSE rpos + 1
    BY <1>9, NextPosValue DEF PopStore, TypeOK
  <2>3. wpc # "idle" => ring_nelem(rpos', wpos, Cap) < Cap
    BY <2>1, <2>2 DEF PushConsistent, ring_nelem, TypeOK, Slot
  <2> QED
    BY <1>9, <2>3 DEF PopStore, PushConsistent, pushVars
<1>10. CASE FlushLoad
  BY <1>10 DEF FlushLoad, PushConsistent, ringVars, pushVars
<1>11. CASE FlushStore
  <2>1. ring_nelem(rpos, snap, Cap) <= ring_nelem(rpos, wpos, Cap)
    BY <1>11 DEF FlushStore, PopConsistent
  <2>2. wpc # "idle" => ring_nelem(snap, wpos, Cap) < Cap
    BY <2>1 DEF PushConsistent, ring_nelem, TypeOK, Slot
  <2> QED
    BY <1>11, <2>2 DEF FlushStore, PushConsistent, pushVars
<1>12. CASE PopCrash
  BY <1>12 DEF PopCrash, PushConsistent, ringVars, pushVars
<1>13. CASE UNCHANGED vars
  BY <1>13 DEF vars, PushConsistent
<1> QED
  BY <1>1, <1>2, <1>3, <1>4, <1>5, <1>6, <1>7, <1>8, <1>9, <1>10, <1>11, <1>12, <1>13
     DEF Next, PushStep, PopStep, Poll

\* Every step keeps what a pop or flush in progress knows: the other thread's
\* steps because they only add elements, and copy into the free slot at wpos.
LEMMA PopStepKeeps == IInv /\ [Next]_vars => PopConsistent'
<1> SUFFICES ASSUME IInv, [Next]_vars PROVE PopConsistent'
  OBVIOUS
<1> USE RingAssumption DEF IInv, SnapshotsStayGood
<1>1. CASE PushFull
  BY <1>1 DEF PushFull, PopConsistent, ringVars, popVars
<1>2. CASE \E e \in Elem : PushStart(e)
  BY <1>2 DEF PushStart, PopConsistent, ringVars, popVars
<1>3. CASE PushCopy
  <2>1. rpos # wpos => data'[rpos] = data[rpos]
    BY <1>3 DEF PushCopy, TypeOK
  <2>2. dst # <<>> => rpos # wpos
    BY DEF PopConsistent
  <2>3. \A j \in 1..Len(dst) : dst[j] = data'[rpos][j]
    BY <2>1, <2>2 DEF PopConsistent
  <2> QED
    BY <1>3, <2>3 DEF PushCopy, PopConsistent, popVars
<1>4. CASE PushStore
  <2>1. ring_nelem(rpos, wpos, Cap) < Cap
    BY <1>4 DEF PushStore, PushConsistent
  <2>2. wpos' = IF wpos = Cap THEN 0 ELSE wpos + 1
    BY <1>4, NextPosValue DEF PushStore, TypeOK
  <2>3. ring_nelem(rpos, wpos', Cap) = ring_nelem(rpos, wpos, Cap) + 1
    BY <2>1, <2>2 DEF ring_nelem, TypeOK, Slot
  <2>4. rpos # wpos'
    BY <2>1, <2>2 DEF ring_nelem, TypeOK, Slot
  <2>5. ring_nelem(rpos, snap, Cap) \in Int /\ ring_nelem(rpos, wpos, Cap) \in Int
    BY DEF ring_nelem, TypeOK, Slot
  <2> QED
    BY <1>4, <2>3, <2>4, <2>5 DEF PushStore, PopConsistent, popVars
<1>5. CASE PushCrash
  BY <1>5 DEF PushCrash, PopConsistent, ringVars, popVars
<1>6. CASE PopEmpty
  BY <1>6 DEF PopEmpty, PopConsistent, ringVars
<1>7. CASE \E wanted \in BOOLEAN : PopStart(wanted)
  <2>1. rpos # wpos
    BY <1>7 DEF PopStart, ring_empty, ring_nelem, TypeOK, Slot
  <2> QED
    BY <1>7, <2>1 DEF PopStart, PopConsistent, ringVars
<1>8. CASE PopCopy
  <2>1. Len(dst) < ElemSize /\ Len(dst) \in Nat
    BY <1>8 DEF PopCopy, PopConsistent, TypeOK
  <2>2. /\ Len(dst') = Len(dst) + 1
        /\ \A j \in 1..Len(dst) : dst'[j] = dst[j]
        /\ dst'[Len(dst) + 1] = data[rpos][Len(dst) + 1]
    BY <1>8 DEF PopCopy, TypeOK
  <2>3. \A j \in 1..Len(dst') : dst'[j] = data[rpos][j]
    BY <2>1, <2>2 DEF PopConsistent
  <2> QED
    BY <1>8, <2>1, <2>2, <2>3 DEF PopCopy, PopConsistent, ringVars
<1>9. CASE PopStore
  BY <1>9 DEF PopStore, PopReturn, PopConsistent
<1>10. CASE FlushLoad
  BY <1>10 DEF FlushLoad, PopConsistent, ringVars, ring_nelem, TypeOK, Slot
<1>11. CASE FlushStore
  BY <1>11 DEF FlushStore, PopReturn, PopConsistent
<1>12. CASE PopCrash
  BY <1>12 DEF PopCrash, PopReturn, PopConsistent
<1>13. CASE UNCHANGED vars
  BY <1>13 DEF vars, PopConsistent
<1> QED
  BY <1>1, <1>2, <1>3, <1>4, <1>5, <1>6, <1>7, <1>8, <1>9, <1>10, <1>11, <1>12, <1>13
     DEF Next, PushStep, PopStep, Poll

\* The two calls never lose what they know of each other, whatever the capacity,
\* the element size and the order in which they step, fail and restart.
THEOREM Invariance == Spec => []IInv
<1>1. IInv /\ [Next]_vars => IInv'
  BY TypeStep, PushStepKeeps, PopStepKeeps DEF IInv, SnapshotsStayGood
<1> QED
  BY InvInit, <1>1, PTL DEF Spec

\* Type correctness.
THEOREM TypeCorrect == Spec => []TypeOK
<1>1. IInv => TypeOK
  BY DEF IInv
<1> QED
  BY Invariance, <1>1, PTL

\* A call's snapshot of the other side's position stays good.
THEOREM Snapshots == Spec => []SnapshotsStayGood
<1>1. IInv => SnapshotsStayGood
  BY DEF IInv
<1> QED
  BY Invariance, <1>1, PTL

\* The two memcpys never work on the same slot.
THEOREM Exclusion == Spec => []SlotExclusive
<1>1. IInv => SlotExclusive
  BY DEF IInv, SnapshotsStayGood, PopConsistent, SlotExclusive
<1> QED
  BY Invariance, <1>1, PTL

-------------------------------------------------------------------------------
(* What the queue sees of each step. *)

\* The queue holds elements, at most Cap of them.
LEMMA QueueType ==
  ASSUME IInv
  PROVE  /\ Queue \in Seq(Elem)
         /\ Len(Queue) = ring_nelem(rpos, wpos, Cap)
         /\ Len(Queue) \in 0..Cap
BY ContentsSeq, DistanceValue DEF IInv, TypeOK, Queue

\* Copying into the slot at wpos is invisible.
LEMMA CopyUnseen ==
  ASSUME IInv, PushCopy
  PROVE  Queue' = Queue
<1>1. \A s \in Slot \ {wpos} : data'[s] = data[s]
  BY DEF PushCopy, IInv, TypeOK
<1>2. Contents(data', rpos, wpos) = Contents(data, rpos, wpos)
  BY <1>1, ContentsElsewhere DEF IInv, TypeOK
<1> QED
  BY <1>2 DEF PushCopy, Queue

\* The store of wpos appends the caller's element.
LEMMA StoreAppends ==
  ASSUME IInv, PushStore
  PROVE  /\ src \in Elem
         /\ Len(Queue) < Cap
         /\ Queue' = Append(Queue, src)
<1>1. /\ src \in Elem /\ wk = ElemSize /\ ring_nelem(rpos, wpos, Cap) < Cap
      /\ \A j \in 1..ElemSize : data[wpos][j] = src[j]
  BY DEF PushStore, IInv, SnapshotsStayGood, PushConsistent
<1>2. data[wpos] = src
  BY <1>1 DEF IInv, TypeOK, Elem
<1>3. Contents(data, rpos, NextPos(wpos, Cap)) = Append(Contents(data, rpos, wpos), data[wpos])
  BY <1>1, ContentsAppend DEF IInv, TypeOK
<1> QED
  BY <1>1, <1>2, <1>3, QueueType DEF PushStore, Queue

\* The store of rpos drops the oldest element, which is the one copied out.
LEMMA PopDrops ==
  ASSUME IInv, PopStore
  PROVE  /\ Queue # <<>>
         /\ Queue' = SubSeq(Queue, 2, Len(Queue))
         /\ rpc = "store" => out' = SubSeq(Queue, 1, 1)
         /\ rpc = "skip" => out' = <<>>
<1> USE RingAssumption
<1>1. rpos # wpos /\ rpos \in Slot /\ wpos \in Slot /\ data \in [Slot -> Elem]
  BY DEF PopStore, IInv, TypeOK, SnapshotsStayGood, PopConsistent
<1>2. /\ NextPos(rpos, Cap) = IF rpos = Cap THEN 0 ELSE rpos + 1
      /\ NextPos(rpos, Cap) \in Slot
  BY <1>1, NextPosValue
<1>3. /\ ring_nelem(rpos, NextPos(rpos, Cap), Cap) = 1
      /\ 1 <= ring_nelem(rpos, wpos, Cap)
      /\ ring_nelem(rpos, NextPos(rpos, Cap), Cap) <= ring_nelem(rpos, wpos, Cap)
  BY <1>1, <1>2 DEF ring_nelem, Slot
<1>4. Distance(rpos, NextPos(rpos, Cap)) = 1
  BY <1>1, <1>2, <1>3, DistanceValue
<1>5. Queue' = SubSeq(Queue, 2, Len(Queue))
  <2> DEFINE s == NextPos(rpos, Cap)
  <2>1. s \in Slot /\ Distance(rpos, s) = 1
        /\ ring_nelem(rpos, s, Cap) <= ring_nelem(rpos, wpos, Cap)
    BY <1>2, <1>3, <1>4
  <2> HIDE DEF s
  <2>2. Contents(data, s, wpos) =
          SubSeq(Contents(data, rpos, wpos), Distance(rpos, s) + 1, Len(Contents(data, rpos, wpos)))
    BY <1>1, <2>1, ContentsDrop
  <2>3. Distance(rpos, s) + 1 = 2
    BY <2>1
  <2>4. Contents(data, s, wpos) = SubSeq(Contents(data, rpos, wpos), 2, Len(Contents(data, rpos, wpos)))
    BY <2>2, <2>3
  <2> QED
    BY <2>4 DEF PopStore, Queue, s
<1>6. Queue \in Seq(Elem) /\ Len(Queue) >= 1
  BY <1>3, QueueType
<1>7. Queue[1] = data[rpos]
  <2>1. (rpos + 1 - 1) % Slots = rpos
    <3>1. 1 \in 1..Slots
      BY DEF Slots
    <3>2. (rpos + 1 - 1) % Slots = IF rpos + 1 - 1 <= Cap THEN rpos + 1 - 1 ELSE rpos + 1 - 2 - Cap
      BY <1>1, <3>1, SlotAt
    <3> QED
      BY <1>1, <3>2 DEF Slot
  <2>2. 1 \in 1..Distance(rpos, wpos)
    BY <1>1, <1>3, DistanceValue
  <2> QED
    BY <2>1, <2>2 DEF Queue, Contents
<1>8. rpc = "store" => dst = data[rpos]
  <2> SUFFICES ASSUME rpc = "store" PROVE dst = data[rpos]
    OBVIOUS
  <2>1. /\ dst \in Elem
        /\ \A j \in 1..ElemSize : dst[j] = data[rpos][j]
    BY WholeElem DEF IInv, TypeOK, SnapshotsStayGood, PopConsistent
  <2> QED
    BY <1>1, <2>1 DEF Elem
<1>9. SubSeq(Queue, 1, 1) = <<Queue[1]>>
  <2> DEFINE a == SubSeq(Queue, 1, 1)
             b == <<Queue[1]>>
  <2>1. a \in Seq(Elem) /\ Len(a) = 1 /\ a[1] = Queue[1]
    BY <1>6
  <2>2. b \in Seq(Elem) /\ Len(b) = 1 /\ b[1] = Queue[1]
    BY <1>6
  <2> HIDE DEF a, b
  <2>3. Len(a) = Len(b) /\ \A i \in 1..Len(a) : a[i] = b[i]
    BY <2>1, <2>2
  <2>4. a = b
    BY <2>1, <2>2, <2>3, SeqEqual
  <2> QED
    BY <2>4 DEF a, b
<1> QED
  BY <1>5, <1>6, <1>7, <1>8, <1>9 DEF PopStore

\* The store of rpos at the end of a flush drops what was there at its load.
LEMMA FlushDrops ==
  ASSUME IInv, FlushStore
  PROVE  Queue' = SubSeq(Queue, Marked + 1, Len(Queue))
<1>1. /\ ring_nelem(rpos, snap, Cap) <= ring_nelem(rpos, wpos, Cap)
      /\ rpos \in Slot /\ wpos \in Slot /\ snap \in Slot /\ data \in [Slot -> Elem]
  BY DEF FlushStore, IInv, TypeOK, SnapshotsStayGood, PopConsistent
<1>2. Contents(data, snap, wpos) =
        SubSeq(Contents(data, rpos, wpos), Distance(rpos, snap) + 1, Len(Contents(data, rpos, wpos)))
  BY <1>1, ContentsDrop
<1> QED
  BY <1>2 DEF FlushStore, Marked, Queue

-------------------------------------------------------------------------------
(* What a step may do to the queue. *)

\* Only PushStore makes the queue longer, and it appends the caller's element.
LEMMA PushedIntactStep ==
  IInv /\ [Next]_vars => (Len(Queue') > Len(Queue) => Queue' = Append(Queue, src))
<1> SUFFICES ASSUME IInv, [Next]_vars, Len(Queue') > Len(Queue)
             PROVE  Queue' = Append(Queue, src)
  OBVIOUS
<1>1. Queue \in Seq(Elem) /\ Len(Queue) \in Nat
  BY QueueType
<1>2. CASE PushStore
  BY <1>2, StoreAppends
<1>3. CASE PushCopy
  BY <1>1, <1>3, CopyUnseen
<1>4. CASE PopStore
  <2>1. Queue' = SubSeq(Queue, 2, Len(Queue))
    BY <1>4, PopDrops
  <2>2. Len(Queue') <= Len(Queue)
    BY <1>1, <2>1
  <2> QED
    BY <1>1, <2>1, <2>2
<1>5. CASE FlushStore
  <2>1. Queue' = SubSeq(Queue, Marked + 1, Len(Queue))
    BY <1>5, FlushDrops
  <2>2. Marked \in Nat
    BY DistanceValue DEF Marked, IInv, TypeOK
  <2>3. Len(Queue') \in Nat /\ Len(Queue') <= Len(Queue)
    BY <1>1, <2>1, <2>2
  <2> QED
    BY <1>1, <2>3
<1>6. CASE UNCHANGED ringVars
  <2>1. Queue' = Queue
    BY <1>6 DEF ringVars, Queue
  <2>2. ~(Len(Queue) > Len(Queue))
    BY <1>1
  <2> QED
    BY <2>1, <2>2
<1> QED
  BY <1>2, <1>3, <1>4, <1>5, <1>6
     DEF Next, PushStep, PopStep, Poll, PushFull, PushStart, PushCrash, PopEmpty, PopStart,
         PopCopy, FlushLoad, PopCrash, vars, ringVars

\* What becomes readable is what the caller passed.
THEOREM PublishedIntact == Spec => PushedIntact
<1>1. IInv /\ [Next]_vars => [Len(Queue') > Len(Queue) => Queue' = Append(Queue, src)]_vars
  BY PushedIntactStep
<1> QED
  BY Invariance, <1>1, PTL DEF Spec, PushedIntact

\* A refusal means exactly that the queue is full, or empty.
THEOREM Honesty == Spec => ErrorsHonest
<1>1. ASSUME IInv, PushFull
      PROVE  Len(Queue) = Cap
  BY <1>1, QueueType DEF PushFull, ring_full
<1>2. ASSUME IInv, PopEmpty
      PROVE  Queue = <<>>
  BY <1>2, QueueType DEF PopEmpty, ring_empty
<1>3. IInv /\ [Next]_vars => [ /\ (PushFull => Len(Queue) = Cap)
                             /\ (PopEmpty => Queue = <<>>) ]_vars
  BY <1>1, <1>2
<1> QED
  BY Invariance, <1>3, PTL DEF Spec, ErrorsHonest

-------------------------------------------------------------------------------
(* The ring implements the bounded queue. *)

\* Initial states map to initial states.
LEMMA RefineInit == Init => Fifo!Init
<1> SUFFICES ASSUME Init PROVE Fifo!Init
  OBVIOUS
<1>1. IInv /\ ring_nelem(rpos, wpos, Cap) = 0
  BY InvInit, RingAssumption DEF Init, ring_nelem
<1>2. Queue = <<>>
  BY <1>1, QueueType
<1> QED
  BY <1>2 DEF Init, Fifo!Init, Marked

\* Every step maps to a step or a stutter.
LEMMA RefineStep == IInv /\ [Next]_vars => [Fifo!Next]_Fifo!vars
<1> SUFFICES ASSUME IInv, [Next]_vars PROVE [Fifo!Next]_Fifo!vars
  OBVIOUS
<1>1. Queue \in Seq(Elem) /\ Len(Queue) \in 0..Cap /\ Cap \in Nat
  BY QueueType, RingAssumption
<1>2. CASE PushStore
  <2> DEFINE s == [i \in 1..1 |-> src]
  <2>1. src \in Elem /\ Len(Queue) < Cap /\ Queue' = Append(Queue, src)
    BY <1>2, StoreAppends
  <2>2. s \in [1..1 -> Elem] /\ Len(s) = 1 /\ Queue' = Queue \o s
    BY <1>1, <2>1
  <2>3. 1 \in 1..Cap /\ Len(Queue) + Len(s) <= Cap
    BY <1>1, <2>1, <2>2
  <2>4. Marked' = Marked /\ out' = out
    BY <1>2 DEF PushStore, Marked, popVars
  <2>5. Fifo!Put(s)
    <3> HIDE DEF s
    <3> QED
      BY <2>2, <2>3, <2>4 DEF Fifo!Put
  <2> HIDE DEF s
  <2> QED
    BY <2>2, <2>3, <2>5 DEF Fifo!Next
<1>3. CASE PushCopy
  <2>1. Queue' = Queue
    BY <1>3, CopyUnseen
  <2> QED
    BY <1>3, <2>1 DEF PushCopy, Marked, popVars, Fifo!vars
<1>4. CASE PopStore
  <2>1. /\ Queue # <<>>
        /\ Queue' = SubSeq(Queue, 2, Len(Queue))
        /\ rpc = "store" => out' = SubSeq(Queue, 1, 1)
        /\ rpc = "skip" => out' = <<>>
    BY <1>4, PopDrops
  <2>2. Marked = 0 /\ Marked' = 0 /\ rpc \in {"store", "skip"}
    BY <1>4 DEF PopStore, PopReturn, Marked
  <2>3. CASE rpc = "store"
    <3>1. 1 \in 1..Len(Queue)
      BY <1>1, <2>1
    <3>2. Fifo!Take(1)
      BY <2>1, <2>2, <2>3 DEF Fifo!Take, Fifo!Without
    <3> QED
      BY <3>1, <3>2 DEF Fifo!Next
  <2>4. CASE rpc = "skip"
    <3>1. Fifo!Skip
      BY <2>1, <2>2, <2>4 DEF Fifo!Skip, Fifo!Without
    <3> QED
      BY <3>1 DEF Fifo!Next
  <2> QED
    BY <2>2, <2>3, <2>4
<1>5. CASE FlushLoad
  <2>1. Queue' = Queue /\ out' = out /\ Marked = 0
    BY <1>5 DEF FlushLoad, ringVars, Queue, Marked
  <2>2. Marked' = Len(Queue)
    BY <1>5, QueueType, DistanceValue DEF FlushLoad, ringVars, Marked, IInv, TypeOK
  <2>3. Fifo!FlushBegin
    BY <2>1, <2>2 DEF Fifo!FlushBegin
  <2> QED
    BY <2>3 DEF Fifo!Next
<1>6. CASE FlushStore
  <2>1. Queue' = SubSeq(Queue, Marked + 1, Len(Queue))
    BY <1>6, FlushDrops
  <2>2. Fifo!FlushEnd
    BY <1>6, <2>1 DEF FlushStore, PopReturn, Marked, Fifo!FlushEnd, Fifo!Without
  <2> QED
    BY <2>2 DEF Fifo!Next
<1>7. CASE PopCrash
  <2>1. Fifo!FlushAbort
    BY <1>7 DEF PopCrash, PopReturn, ringVars, Queue, Marked, Fifo!FlushAbort
  <2> QED
    BY <2>1 DEF Fifo!Next
<1>8. CASE /\ UNCHANGED <<ringVars, out, snap>>
           /\ (rpc = "flush") = (rpc' = "flush")
  BY <1>8 DEF ringVars, Queue, Marked, Fifo!vars
<1>9. CASE PushFull \/ (\E e \in Elem : PushStart(e)) \/ PushCrash
  BY <1>8, <1>9 DEF PushFull, PushStart, PushCrash, popVars
<1>10. CASE PopEmpty \/ (\E wanted \in BOOLEAN : PopStart(wanted)) \/ PopCopy
  BY <1>8, <1>10 DEF PopEmpty, PopStart, PopCopy
<1>11. CASE UNCHANGED vars
  BY <1>8, <1>11 DEF vars, ringVars
<1> QED
  BY <1>2, <1>3, <1>4, <1>5, <1>6, <1>7, <1>9, <1>10, <1>11 DEF Next, PushStep, PopStep, Poll

\* Nothing is lost, duplicated, reordered or torn, for every capacity and element
\* size and every interleaving, flush and death of either side.
THEOREM Refinement == Spec => FifoSpec
BY Invariance, RefineInit, RefineStep, PTL DEF Spec, FifoSpec, Fifo!Spec
=============================================================================
