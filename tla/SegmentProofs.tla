---------------------------- MODULE SegmentProofs ----------------------------
(***************************************************************************)
(* Proofs about Segment for every configuration, every size of the         *)
(* records and every array in use: that the three computations of the      *)
(* layout agree, that no bucket reaches into another one, that what the    *)
(* array stores stays in its bucket, and that the array is a stack.        *)
(***************************************************************************)
EXTENDS Segment, FiniteSetTheorems, SequenceTheorems, TLAPS

\* What the caller of sms_init keeps to: no bucket is larger than a uint32_t can say,
\* and there are no more of them than the table has entries.
Fitting ==
  /\ \A c \in Config : HdrSize + c.elem_size * (c.cap + 1) < Modulus
  /\ MaxConfigs <= MaxBuckets

allVars == <<vars, arrayVars>>

-------------------------------------------------------------------------------
(* The inductive invariant. *)

\* The array: elements are values, and the element popped last, if its slot was not
\* stored to since, is behind them.
ArrayOK ==
  /\ nalloc \in {0, NAlloc} /\ nelem \in 0..nalloc
  /\ data \in [Indices -> Value \cup {Junk, 0}]
  /\ \A k \in 0..(nelem - 1) : data[k] \in Value
  /\ popped = None \/ popped \in nelem..(nalloc - 1)

\* The iteration: unless the callback did more than push, the elements counted at its
\* start are there as they were.
EachOK ==
  /\ epc \in {"idle", "each"}
  /\ first = <<>> => visited = <<>>
  /\ epc = "each" /\ first # <<>> =>
       /\ nlocal \in 1..nelem /\ i \in 0..(nlocal - 1)
       /\ first \in Seq(Value) /\ Len(first) = nlocal
       /\ \A k \in 1..nlocal : first[k] = data[k - 1]
       /\ visited \in Seq(Value) /\ Len(visited) = i + 1
       /\ \A k \in 1..(i + 1) : visited[k] = first[k]

\* The layout: each bucket is behind those before it, whether or not the loop of
\* this start has come to it.
LayoutOK ==
  /\ cfg \in Seq(Config) /\ Len(cfg) <= MaxConfigs
  /\ pc \in {"called", "placing", "done"}
  /\ buckets \in Seq([type : {"ARRAY", "RING"}, cap : Nat, offset : Nat, size : Nat])
  /\ placed \in Seq(Nat)
  /\ Len(buckets) = Len(placed) /\ Len(placed) <= Len(cfg)
  /\ \A k \in 1..Len(placed) : /\ placed[k] = BASE_DATA_AREA + Total(cfg)[k - 1]
                               /\ buckets[k].offset = placed[k]
  /\ pc # "called" =>
       /\ position = Total(cfg)[Len(buckets)]
       /\ offset = BASE_DATA_AREA + Total(cfg)[Len(buckets)]
       /\ root.data_offset = BASE_DATA_AREA
       /\ root.data_size = Total(cfg)[Len(cfg)]
  /\ pc = "placing" => Len(buckets) < Len(cfg)
  /\ pc = "done" => Len(buckets) = Len(cfg)

\* The array is empty from the turn of the loop that sets it up until the loop is over.
StartOK == InUse /\ pc = "placing" /\ Len(buckets) >= At => nelem = 0 /\ nalloc = NAlloc

-------------------------------------------------------------------------------
(* Sums of sizes.  The library's theorems on induction take an operator, which the *)
(* provers cannot instantiate; a set of numbers does as well.                      *)

\* A set with 0, and with the number after each of its own, has every number up to n.
LEMMA SetInduction ==
  ASSUME NEW n \in Nat, NEW P, 0 \in P,
         \A k \in 0..(n - 1) : k \in P => k + 1 \in P
  PROVE  0..n \subseteq P
<1> DEFINE T == {S \in SUBSET (0..n) : \E k \in 0..n : k \notin P /\ S = 0..k}
           R == StrictSubsetOrdering(0..n)
<1> SUFFICES ASSUME NEW m \in 0..n, m \notin P PROVE FALSE
  OBVIOUS
<1>1. T # {} /\ T \subseteq FiniteSubsetsOf(0..n)
  <2>1. 0..m \in T
    OBVIOUS
  <2>2. ASSUME NEW S \in T PROVE S \in FiniteSubsetsOf(0..n)
    BY FS_Interval DEF FiniteSubsetsOf
  <2> QED
    BY <2>1, <2>2
<1>2. IsWellFoundedOn(R, FiniteSubsetsOf(0..n))
  BY FS_StrictSubsetOrderingWellFounded
<1>3. PICK S \in T : \A U \in T : <<U, S>> \notin R
  <2> HIDE DEF T, R
  <2> QED
    BY <1>1, <1>2, WFMin
<1>4. PICK k \in 0..n : k \notin P /\ S = 0..k
  BY <1>3
<1>5. k # 0 /\ k - 1 \in 0..(n - 1) /\ k - 1 \notin P
  BY <1>4
<1>6. 0..(k - 1) \in T
  BY <1>5
<1>7. <<0..(k - 1), S>> \in R
  <2>1. 0..(k - 1) \subseteq S /\ k \in S /\ k \notin 0..(k - 1) /\ S \subseteq 0..n
    BY <1>4, <1>5
  <2> QED
    BY <2>1 DEF StrictSubsetOrdering
<1> QED
  BY <1>3, <1>6, <1>7

\* The sums of the first n of m numbers, for every n.
IsSum(f, size, m) ==
  /\ f \in [0..m -> Nat]
  /\ f[0] = 0
  /\ \A k \in 1..m : f[k] = f[k - 1] + size[k]

LEMMA SumExists ==
  ASSUME NEW m \in Nat, NEW size \in [1..m -> Nat]
  PROVE  \E f : IsSum(f, size, m)
<1> DEFINE P == {n \in 0..m : \E f : IsSum(f, size, n)}
<1>1. 0 \in P
  <2>1. IsSum([k \in 0..0 |-> 0], size, 0)
    BY DEF IsSum
  <2> QED
    BY <2>1
<1>2. ASSUME NEW n \in 0..(m - 1), n \in P PROVE n + 1 \in P
  <2>1. PICK f : IsSum(f, size, n)
    BY <1>2
  <2> DEFINE g == [k \in 0..(n + 1) |-> IF k = n + 1 THEN f[n] + size[n + 1] ELSE f[k]]
  <2>2. size[n + 1] \in Nat /\ n + 1 \in 0..m
    OBVIOUS
  <2>3. g \in [0..(n + 1) -> Nat] /\ g[0] = 0
    BY <2>1, <2>2 DEF IsSum
  <2>4. ASSUME NEW k \in 1..(n + 1) PROVE g[k] = g[k - 1] + size[k]
    <3>1. CASE k = n + 1
      BY <2>1, <3>1 DEF IsSum
    <3>2. CASE k # n + 1
      <4>1. k \in 1..n /\ k - 1 \in 0..n
        BY <3>2
      <4>2. g[k] = f[k] /\ g[k - 1] = f[k - 1]
        BY <4>1
      <4> QED
        BY <2>1, <4>1, <4>2 DEF IsSum
    <3> QED
      BY <3>1, <3>2
  <2> HIDE DEF g
  <2>5. IsSum(g, size, n + 1)
    BY <2>3, <2>4 DEF IsSum
  <2> QED
    BY <2>2, <2>5
<1> HIDE DEF P
<1>3. 0..m \subseteq P
  BY <1>1, <1>2, SetInduction
<1> QED
  BY <1>3 DEF P

\* A larger position of the sum is not before a smaller one.
LEMMA SumGrows ==
  ASSUME NEW m \in Nat, NEW size \in [1..m -> Nat], NEW f, IsSum(f, size, m),
         NEW j \in 0..m, NEW k \in j..m
  PROVE  f[j] <= f[k]
<1> DEFINE P == {n \in 0..(m - j) : f[j] <= f[j + n]}
<1>1. f \in [0..m -> Nat] /\ m - j \in Nat
  BY DEF IsSum
<1>2. 0 \in P
  BY <1>1
<1>3. ASSUME NEW n \in 0..((m - j) - 1), n \in P PROVE n + 1 \in P
  <2>1. j + (n + 1) \in 1..m /\ (j + (n + 1)) - 1 = j + n /\ j + n \in 0..m
    OBVIOUS
  <2>2. f[j + (n + 1)] = f[j + n] + size[j + (n + 1)]
    BY <2>1 DEF IsSum
  <2>3. size[j + (n + 1)] \in Nat /\ f[j + n] \in Nat /\ f[j] \in Nat
    BY <1>1, <2>1
  <2> QED
    BY <1>3, <2>2, <2>3
<1> HIDE DEF P
<1>4. 0..(m - j) \subseteq P
  BY <1>1, <1>2, <1>3, SetInduction
<1>5. k - j \in P /\ j + (k - j) = k
  BY <1>4
<1> QED
  BY <1>5 DEF P

\* The size of a bucket of the segment.
BucketBytes(c) == ALIGN_BLOCK_SIZE(AllocSize(c))

LEMMA AlignValue ==
  ASSUME NEW d \in Nat
  PROVE  ALIGN_BLOCK_SIZE(d) \in Nat /\ ALIGN_BLOCK_SIZE(d) >= d
BY DEF ALIGN_BLOCK_SIZE

LEMMA BytesValue ==
  ASSUME NEW c \in Config
  PROVE  AllocSize(c) \in Nat /\ BucketBytes(c) \in Nat
<1>1. Modulus \in Nat \ {0} /\ HdrSize \in Nat /\ c.elem_size \in Nat /\ c.cap \in Nat
  BY SmsAssumption
<1>2. HdrSize + c.elem_size * (c.cap + 1) \in Nat
  BY <1>1
<1>3. AllocSize(c) \in Nat
  <2> DEFINE x == HdrSize + c.elem_size * (c.cap + 1)
  <2> HIDE DEF x
  <2>1. x \in Nat
    BY <1>2 DEF x
  <2>2. x % Modulus \in Nat
    BY <1>1, <2>1
  <2> QED
    BY <2>2 DEF AllocSize, x
<1> QED
  BY <1>3, AlignValue DEF BucketBytes

\* The loop of sms_calc_data_size adds up the sizes of the buckets.
LEMMA TotalValue ==
  ASSUME NEW cs \in Seq(Config)
  PROVE  IsSum(Total(cs), [k \in 1..Len(cs) |-> BucketBytes(cs[k])], Len(cs))
<1> DEFINE m == Len(cs)
           size == [k \in 1..m |-> BucketBytes(cs[k])]
           t == Total(cs)
           Step(f) == [n \in 0..m |-> IF n = 0 THEN 0
                                      ELSE f[n - 1] + ALIGN_BLOCK_SIZE(AllocSize(cs[n]))]
<1>1. m \in Nat /\ size \in [1..m -> Nat]
  BY BytesValue
<1>2. PICK f : IsSum(f, size, m)
  <2> HIDE DEF m, size
  <2> QED
    BY <1>1, SumExists
<1>3. f = Step(f)
  <2>1. f \in [0..m -> Nat] /\ f[0] = 0
    BY <1>2 DEF IsSum
  <2>2. ASSUME NEW n \in 0..m PROVE f[n] = Step(f)[n]
    <3>1. CASE n = 0
      BY <2>1, <3>1
    <3>2. CASE n # 0
      <4>1. n \in 1..m
        BY <3>2
      <4>2. f[n] = f[n - 1] + size[n]
        BY <1>2, <4>1 DEF IsSum
      <4> QED
        BY <3>2, <4>1, <4>2 DEF BucketBytes
    <3> QED
      BY <3>1, <3>2
  <2> QED
    BY <2>1, <2>2
<1>4. t = CHOOSE g : g = Step(g)
  BY DEF Total
<1>5. t = Step(t)
  <2> HIDE DEF t, Step
  <2> QED
    BY <1>3, <1>4
<1>6. t[0] = 0 /\ \A k \in 1..m : t[k] = t[k - 1] + size[k]
  <2> HIDE DEF t
  <2>1. \A n \in 0..m : t[n] = IF n = 0 THEN 0 ELSE t[n - 1] + ALIGN_BLOCK_SIZE(AllocSize(cs[n]))
    BY <1>5
  <2> QED
    BY <1>1, <2>1 DEF BucketBytes
<1>7. t \in [0..m -> Nat]
  <2> DEFINE P == {n \in 0..m : t[n] \in Nat}
  <2>1. 0 \in P
    BY <1>1, <1>6
  <2>2. ASSUME NEW n \in 0..(m - 1), n \in P PROVE n + 1 \in P
    <3>1. n + 1 \in 1..m /\ (n + 1) - 1 = n
      BY <1>1
    <3> HIDE DEF t, size, m
    <3>2. t[n + 1] = t[n] + size[n + 1] /\ size[n + 1] \in Nat
      BY <1>1, <1>6, <3>1
    <3> QED
      BY <2>2, <3>1, <3>2
  <2> HIDE DEF P, m
  <2>3. 0..m \subseteq P
    BY <1>1, <2>1, <2>2, SetInduction
  <2> HIDE DEF t
  <2>4. t = [n \in 0..m |-> t[n]]
    BY <1>5
  <2> QED
    BY <2>3, <2>4 DEF P
<1> HIDE DEF t, size, m
<1>8. IsSum(t, size, m)
  BY <1>6, <1>7 DEF IsSum
<1> QED
  BY <1>8 DEF t, size, m

-------------------------------------------------------------------------------
(* The array. *)

LEMMA ArrayTypes ==
  NAlloc \in Nat \ {0} /\ Value \subseteq Nat /\ None = -1 /\ Indices = 0..(NAlloc + 1)
BY ArrayAssumption DEF None, Indices

\* An index has a slot, or stands for those further behind.
LEMMA IndexValue == \A k \in Indices : k \in Nat /\ k <= NAlloc + 1
BY ArrayTypes

\* Rearranging the elements leaves values where they were.
LEMMA SortKeeps ==
  ASSUME ArrayOK, array_sort
  PROVE  ArrayOK' /\ \A k \in Indices : k >= nelem => data'[k] = data[k]
<1>1. nelem \in 0..NAlloc /\ nalloc \in Nat
  BY ArrayTypes DEF ArrayOK
<1>2. PICK order \in Bijection(0..(nelem - 1), 0..(nelem - 1)) :
        data' = [k \in Indices |-> data[IF k < nelem THEN order[k] ELSE k]]
  BY DEF array_sort, qsort
<1>3. order \in [0..(nelem - 1) -> 0..(nelem - 1)]
  BY DEF Bijection, Injection
<1>4. \A k \in Indices : data'[k] \in Value \cup {Junk, 0} /\ (k >= nelem => data'[k] = data[k])
  BY <1>1, <1>2, <1>3, ArrayTypes DEF ArrayOK
<1>5. \A k \in 0..(nelem - 1) : data'[k] \in Value
  BY <1>1, <1>2, <1>3, ArrayTypes DEF ArrayOK
<1>6. data' \in [Indices -> Value \cup {Junk, 0}]
  BY <1>2, <1>4
<1> QED
  BY <1>4, <1>5, <1>6 DEF array_sort, ArrayOK

LEMMA ArrayInitOK == ArrayInit => ArrayOK
BY ArrayTypes DEF ArrayInit, ArrayOK

LEMMA ArrayCallOK == ArrayOK /\ ArrayNext => ArrayOK'
<1> SUFFICES ASSUME ArrayOK, ArrayNext PROVE ArrayOK'
  OBVIOUS
<1>1. ASSUME NEW v \in Value, array_push(v) PROVE ArrayOK'
  <2>1. nelem \in 0..(nalloc - 1) /\ nelem \in Indices
    BY <1>1, ArrayTypes DEF array_push, Full, ArrayOK
  <2>2. data' \in [Indices -> Value \cup {Junk, 0}] /\ \A k \in 0..nelem : data'[k] \in Value
    BY <1>1, <2>1, ArrayTypes DEF array_push, ArrayOK
  <2>3. popped' = None \/ popped' \in (nelem + 1)..(nalloc - 1)
    <3>1. popped = None \/ popped \in nelem..(nalloc - 1)
      BY DEF ArrayOK
    <3>2. popped' = IF popped = nelem THEN None ELSE popped
      BY <1>1 DEF array_push
    <3>3. nelem \in Nat /\ nalloc \in Nat
      BY <2>1, ArrayTypes DEF ArrayOK
    <3> QED
      BY <3>1, <3>2, <3>3
  <2>4. nelem' = nelem + 1 /\ nelem' - 1 = nelem /\ nelem' \in 0..nalloc /\ nalloc' = nalloc
    BY <1>1, <2>1, ArrayTypes DEF array_push, eachVars, ArrayOK
  <2> QED
    BY <2>2, <2>3, <2>4 DEF ArrayOK
<1>2. ASSUME NEW v \in Value, NEW idx \in Indices, array_add(idx, v) PROVE ArrayOK'
  <2>2. data' \in [Indices -> Value \cup {Junk, 0}] /\ \A k \in 0..(nelem - 1) : data'[k] \in Value
    BY <1>2, ArrayTypes DEF array_add, ArrayOK
  <2>3. popped' = None \/ popped' = popped
    BY <1>2 DEF array_add
  <2> QED
    BY <1>2, <2>2, <2>3 DEF array_add, ArrayOK
<1>3. CASE array_pop
  <2>1. nelem \in 1..nalloc /\ nalloc \in Nat
    BY <1>3, ArrayTypes DEF array_pop, ArrayOK
  <2> QED
    BY <1>3, <2>1 DEF array_pop, ArrayOK
<1>4. CASE array_sort
  BY <1>4, SortKeeps
<1>5. CASE array_free
  BY <1>5, ArrayTypes DEF array_free, ArrayOK
<1>6. CASE array_setup
  BY <1>6, ArrayTypes DEF array_setup, ArrayOK
<1>7. CASE UNCHANGED <<nelem, nalloc, data, popped>>
  BY <1>7 DEF ArrayOK
<1> QED
  BY <1>1, <1>2, <1>3, <1>4, <1>5, <1>6, <1>7
     DEF ArrayNext, PushRefused, AddNothing, EachStart, EachNext, EachEnd, arrayVars

\* The steps of the segment, as the array sees them.
LEMMA ArraySteps ==
  [SegmentNext]_allVars =>
    \/ InUse /\ pc = "done" /\ ArrayNext /\ UNCHANGED vars
    \/ PlaceBucket /\ array_setup
    \/ RestartUsers
    \/ (PlaceBucket \/ InitBase \/ UNCHANGED vars) /\ UNCHANGED arrayVars
BY DEF SegmentNext, PlaceBucket, Use, allVars

LEMMA ArrayNextOK == ArrayOK /\ [SegmentNext]_allVars => ArrayOK'
<1> SUFFICES ASSUME ArrayOK, [SegmentNext]_allVars PROVE ArrayOK'
  OBVIOUS
<1>1. CASE ArrayNext
  BY <1>1, ArrayCallOK
<1>2. CASE array_setup
  BY <1>2, ArrayTypes DEF array_setup, ArrayOK
<1>3. CASE RestartUsers
  BY <1>3 DEF RestartUsers, ArrayOK
<1>4. CASE UNCHANGED arrayVars
  BY <1>4 DEF arrayVars, ArrayOK
<1> QED
  BY <1>1, <1>2, <1>3, <1>4, ArraySteps

LEMMA ArrayInvariant == SegmentSpec => []ArrayOK
<1>1. SegmentInit => ArrayOK
  BY ArrayInitOK DEF SegmentInit
<1> QED
  BY <1>1, ArrayNextOK, PTL DEF SegmentSpec, allVars

\* The element that array_pop returned a pointer to keeps its value until something is
\* stored in its slot: sorting, freeing and iterating leave it alone or take the
\* pointer's validity with them (cmn_array.c:43-142).
THEOREM PoppedKept == SegmentSpec => PoppedIntact
<1>1. ArrayOK /\ [SegmentNext]_allVars =>
        [popped # None /\ popped' = popped => data'[popped] = data[popped]]_arrayVars
  <2> SUFFICES ASSUME ArrayOK, [SegmentNext]_allVars, popped # None, popped' = popped,
                      data'[popped] # data[popped]
               PROVE  FALSE
    OBVIOUS
  <2>1. popped \in nelem..(nalloc - 1) /\ popped \in Indices /\ nelem \in Nat /\ popped \in Nat
    BY ArrayTypes DEF ArrayOK
  <2>2. ASSUME NEW v \in Value, array_push(v) PROVE FALSE
    BY <2>1, <2>2, ArrayTypes DEF array_push, ArrayOK
  <2>3. ASSUME NEW v \in Value, NEW idx \in Indices, array_add(idx, v) PROVE FALSE
    BY <2>1, <2>3, ArrayTypes DEF array_add, ArrayOK
  <2>4. CASE array_sort
    BY <2>1, <2>4, SortKeeps
  <2>5. CASE array_free
    BY <2>5 DEF array_free
  <2>6. CASE UNCHANGED data
    BY <2>6
  <2>7. CASE ArrayNext
    BY <2>2, <2>3, <2>4, <2>5, <2>6, <2>7
       DEF ArrayNext, PushRefused, AddNothing, array_pop, array_setup, EachStart, EachNext, EachEnd,
           arrayVars
  <2> QED
    BY <2>6, <2>7, ArraySteps DEF array_setup, RestartUsers, arrayVars
<1> QED
  BY <1>1, ArrayInvariant, PTL DEF SegmentSpec, allVars, PoppedIntact

\* The elements, as a sequence.
LEMMA ContentsValue ==
  ASSUME ArrayOK
  PROVE  /\ Contents \in Seq(Value) /\ Len(Contents) = nelem /\ nelem \in Nat
         /\ \A k \in 1..nelem : Contents[k] = data[k - 1]
<1>1. nelem \in Nat
  BY ArrayTypes DEF ArrayOK
<1>2. \A k \in 1..nelem : data[k - 1] \in Value
  BY <1>1 DEF ArrayOK
<1> QED
  BY <1>1, <1>2 DEF Contents

LEMMA EachCallOK ==
  ASSUME ArrayOK, EachOK, ArrayNext
  PROVE  EachOK'
<1>1. ASSUME NEW v \in Value, array_push(v) PROVE EachOK'
  <2>1. nelem \in Nat /\ nelem' = nelem + 1 /\ UNCHANGED <<epc, i, nlocal, first, visited>>
    BY <1>1, ArrayTypes DEF array_push, eachVars, ArrayOK
  <2>2. ASSUME epc = "each", first # <<>>, NEW k \in 1..nlocal PROVE data'[k - 1] = data[k - 1]
    <3>1. nlocal \in 1..nelem
      BY <2>2 DEF EachOK
    <3>2. k - 1 \in Indices /\ k - 1 # nelem
      BY <2>1, <3>1, ArrayTypes DEF ArrayOK
    <3> QED
      BY <1>1, <3>2 DEF array_push, ArrayOK
  <2>3. ASSUME epc = "each", first # <<>> PROVE nlocal \in 1..nelem'
    BY <2>1, <2>3 DEF EachOK
  <2> QED
    BY <2>1, <2>2, <2>3 DEF EachOK
<1>2. CASE ForgetEach
  BY <1>2 DEF ForgetEach, EachOK
<1>3. CASE EachStart
  <2>1. nelem \in Nat \ {0} /\ data[0] \in Value
    BY <1>3, ArrayTypes DEF EachStart, ArrayOK
  <2>2. visited' \in Seq(Value) /\ Len(visited') = 1 /\ visited'[1] = data[0]
    BY <1>3, <2>1 DEF EachStart
  <2> QED
    BY <1>3, <2>1, <2>2, ContentsValue DEF EachStart, array_n, EachOK
<1>4. CASE EachNext /\ first # <<>>
  <2>1. /\ epc = "each" /\ nlocal \in 1..nelem /\ i \in 0..(nlocal - 1) /\ nelem \in Nat
        /\ visited \in Seq(Value) /\ Len(visited) = i + 1
        /\ i + 1 \in 0..(nlocal - 1) /\ i + 2 \in 1..nlocal
    BY <1>4, ArrayTypes DEF EachNext, EachOK, ArrayOK
  <2>2. first[i + 2] = data[i + 1] /\ data[i + 1] \in Value
    BY <2>1 DEF EachOK, ArrayOK
  <2>3. /\ visited' = Append(visited, data[i + 1]) /\ i' = i + 1
        /\ UNCHANGED <<nelem, data, epc, nlocal, first>>
    BY <1>4 DEF EachNext, Visit
  <2>4. /\ visited' \in Seq(Value) /\ Len(visited') = (i + 1) + 1
        /\ visited'[i + 2] = data[i + 1] /\ \A k \in 1..(i + 1) : visited'[k] = visited[k]
    BY <2>1, <2>2, <2>3
  <2>5. \A k \in 1..((i + 1) + 1) : visited'[k] = first[k]
    <3> SUFFICES ASSUME NEW k \in 1..((i + 1) + 1) PROVE visited'[k] = first[k]
      OBVIOUS
    <3>1. k = i + 2 \/ k \in 1..(i + 1)
      BY <2>1
    <3> QED
      BY <2>1, <2>2, <2>4, <3>1 DEF EachOK
  <2> QED
    BY <2>1, <2>3, <2>4, <2>5 DEF EachOK
<1>5. CASE EachEnd
  BY <1>5 DEF EachEnd, EachOK
<1>6. CASE UNCHANGED arrayVars
  BY <1>6 DEF arrayVars, EachOK
<1>7. CASE EachNext /\ first = <<>>
  BY <1>7 DEF EachNext, Visit, EachOK
<1> QED
  BY <1>1, <1>2, <1>3, <1>4, <1>5, <1>6, <1>7
     DEF ArrayNext, PushRefused, AddNothing, array_pop, array_add, array_sort, array_free, array_setup

LEMMA EachNextOK == ArrayOK /\ EachOK /\ [SegmentNext]_allVars => EachOK'
<1> SUFFICES ASSUME ArrayOK, EachOK, [SegmentNext]_allVars PROVE EachOK'
  OBVIOUS
<1>1. CASE ArrayNext
  BY <1>1, EachCallOK
<1>2. CASE array_setup
  BY <1>2 DEF array_setup, ForgetEach, EachOK
<1>3. CASE RestartUsers
  BY <1>3 DEF RestartUsers, EachOK
<1>4. CASE UNCHANGED arrayVars
  BY <1>4 DEF arrayVars, EachOK
<1> QED
  BY <1>1, <1>2, <1>3, <1>4, ArraySteps

\* array_each hands out what the array held when it began, in order and no more than
\* that, as long as the callback does nothing to the array but push
\* (cmn_array.c:144-163).
THEOREM VisitsInOrder == SegmentSpec => []VisitsWhatWasThere
<1>1. SegmentInit => EachOK
  BY DEF SegmentInit, ArrayInit, EachOK
<1>2. EachOK => VisitsWhatWasThere
  <2> SUFFICES ASSUME EachOK, epc = "each", first # <<>> PROVE IsPrefix(visited, first)
    BY DEF VisitsWhatWasThere, EachOK, IsPrefix
  <2>1. /\ nlocal \in Int /\ i \in 0..(nlocal - 1) /\ i \in Nat
        /\ first \in Seq(Value) /\ Len(first) = nlocal
        /\ visited \in Seq(Value) /\ Len(visited) = i + 1
        /\ \A k \in 1..(i + 1) : visited[k] = first[k]
    BY DEF EachOK
  <2>2. SubSeq(visited, 1, i + 1) = SubSeq(first, 1, i + 1)
    BY <2>1
  <2> QED
    BY <2>1, <2>2 DEF IsPrefix
<1> QED
  BY <1>1, <1>2, EachNextOK, ArrayInvariant, PTL DEF SegmentSpec, allVars

-------------------------------------------------------------------------------
(* The layout. *)

\* The record of a bucket table.
BucketRecord == [type : {"ARRAY", "RING"}, cap : Nat, offset : Nat, size : Nat]

LEMMA Sizes ==
  /\ BaseSize \in Nat \ {0} /\ StatSize \in Nat \ {0} /\ HdrSize \in Nat \ {0}
  /\ BASE_DATA_AREA = ALIGN_BLOCK_SIZE(BaseSize) + ALIGN_BLOCK_SIZE(StatSize)
  /\ BASE_DATA_AREA \in Nat
<1>1. BaseSize \in Nat \ {0} /\ StatSize \in Nat \ {0} /\ HdrSize \in Nat \ {0}
  BY SmsAssumption
<1>2. ALIGN_BLOCK_SIZE(BaseSize) \in Nat /\ ALIGN_BLOCK_SIZE(StatSize) \in Nat
  BY <1>1, AlignValue
<1>3. BaseSize % 8 \in Nat /\ StatSize % 8 \in Nat
  BY <1>1
<1>4. BASE_DATA_AREA = ALIGN_BLOCK_SIZE(BaseSize) + ALIGN_BLOCK_SIZE(StatSize)
  BY <1>1, <1>3 DEF BASE_DATA_AREA, BASE_STATISTICAL_AREA, ALIGN_BLOCK_SIZE
<1> QED
  BY <1>1, <1>2, <1>4

\* The sums are those of the loop of sms_init_statistics.
LEMMA TotalSteps ==
  ASSUME NEW cs \in Seq(Config)
  PROVE  /\ Total(cs)[0] = 0
         /\ \A n \in 0..Len(cs) : Total(cs)[n] \in Nat
         /\ \A n \in 1..Len(cs) : Total(cs)[n] = Total(cs)[n - 1] + BucketBytes(cs[n])
BY TotalValue DEF IsSum

\* The loop of sms_calc_size comes to the same sums, behind the records at the front.
LEMMA SegmentTotalValue ==
  ASSUME NEW cs \in Seq(Config)
  PROVE  sms_calc_size(cs) = BASE_DATA_AREA + Total(cs)[Len(cs)]
<1> DEFINE m == Len(cs)
           t == SegmentTotal(cs)
           Step(f) == [n \in 0..m |->
                         IF n = 0 THEN ALIGN_BLOCK_SIZE(BaseSize) + ALIGN_BLOCK_SIZE(StatSize)
                                  ELSE f[n - 1] + ALIGN_BLOCK_SIZE(AllocSize(cs[n]))]
           g == [n \in 0..m |-> BASE_DATA_AREA + Total(cs)[n]]
<1>1. m \in Nat /\ BASE_DATA_AREA \in Nat
      /\ BASE_DATA_AREA = ALIGN_BLOCK_SIZE(BaseSize) + ALIGN_BLOCK_SIZE(StatSize)
  BY Sizes
<1>2. /\ Total(cs)[0] = 0
      /\ \A n \in 0..m : Total(cs)[n] \in Nat
      /\ \A n \in 1..m : Total(cs)[n] = Total(cs)[n - 1] + BucketBytes(cs[n])
  BY TotalSteps
<1>3. g = Step(g)
  <2>1. ASSUME NEW n \in 0..m PROVE g[n] = Step(g)[n]
    <3>1. CASE n = 0
      BY <1>1, <1>2, <3>1
    <3>2. CASE n # 0
      <4>1. n \in 1..m /\ n - 1 \in 0..m
        BY <1>1, <3>2
      <4>2. Total(cs)[n] = Total(cs)[n - 1] + BucketBytes(cs[n]) /\ cs[n] \in Config
        BY <1>2, <4>1
      <4>3. Total(cs)[n - 1] \in Nat /\ BucketBytes(cs[n]) \in Nat
        BY <1>2, <4>1, <4>2, BytesValue
      <4>4. g[n] = g[n - 1] + BucketBytes(cs[n])
        BY <1>1, <4>1, <4>2, <4>3
      <4> QED
        BY <3>2, <4>1, <4>4 DEF BucketBytes
    <3> QED
      BY <3>1, <3>2
  <2> QED
    BY <2>1
<1>4. t = CHOOSE f : f = Step(f)
  BY DEF SegmentTotal
<1>5. t = Step(t)
  <2> HIDE DEF t, Step, g
  <2> QED
    BY <1>3, <1>4
<1> DEFINE P == {n \in 0..m : t[n] = g[n]}
<1> HIDE DEF t
<1>6. \A n \in 0..m : t[n] = IF n = 0 THEN BASE_DATA_AREA
                                       ELSE t[n - 1] + ALIGN_BLOCK_SIZE(AllocSize(cs[n]))
  BY <1>1, <1>5
<1>7. 0 \in P
  BY <1>1, <1>2, <1>6
<1>8. ASSUME NEW n \in 0..(m - 1), n \in P PROVE n + 1 \in P
  <2>1. n + 1 \in 0..m /\ n \in 0..m /\ n + 1 # 0 /\ (n + 1) - 1 = n
    BY <1>1
  <2>2. t[n + 1] = t[n] + ALIGN_BLOCK_SIZE(AllocSize(cs[n + 1]))
    BY <1>6, <2>1
  <2>3. g[n + 1] = g[n] + ALIGN_BLOCK_SIZE(AllocSize(cs[n + 1]))
    BY <1>3, <2>1
  <2> QED
    BY <1>8, <2>1, <2>2, <2>3
<1>9. m \in P
  <2> HIDE DEF P, m
  <2>1. 0..m \subseteq P
    BY <1>1, <1>7, <1>8, SetInduction
  <2> QED
    BY <1>1, <2>1
<1> QED
  BY <1>1, <1>9 DEF sms_calc_size, t

LEMMA LayoutInitOK == Init => LayoutOK
<1> SUFFICES ASSUME Init PROVE LayoutOK
  OBVIOUS
<1>1. PICK n \in 0..MaxConfigs : cfg \in [1..n -> Config]
  BY DEF Init
<1>2. n \in Nat /\ n <= MaxConfigs
  BY SmsAssumption
<1>3. cfg \in Seq(Config) /\ Len(cfg) = n
  BY <1>1, <1>2
<1>4. buckets = <<>> /\ placed = <<>> /\ pc = "called"
  BY DEF Init
<1> QED
  BY <1>2, <1>3, <1>4 DEF LayoutOK

LEMMA InitBaseOK == LayoutOK /\ InitBase => LayoutOK'
<1> SUFFICES ASSUME LayoutOK, InitBase PROVE LayoutOK'
  OBVIOUS
<1>1. cfg \in Seq(Config) /\ Len(cfg) \in Nat /\ cfg' = cfg /\ buckets' = <<>> /\ placed' = <<>>
  BY DEF LayoutOK, InitBase
<1>2. Len(buckets') = 0 /\ Len(placed') = 0
  BY <1>1
<1>3. /\ root'.data_offset = BASE_DATA_AREA /\ root'.data_size = Total(cfg)[Len(cfg)]
      /\ offset' = BASE_DATA_AREA /\ position' = 0
  BY Sizes DEF InitBase, sms_calc_data_size
<1>4. Total(cfg)[0] = 0
  BY <1>1, TotalSteps
<1>5. /\ pc' \in {"placing", "done"}
      /\ pc' = "placing" => 0 < Len(cfg)
      /\ pc' = "done" => Len(cfg) = 0
  BY <1>1 DEF InitBase
<1> QED
  BY <1>1, <1>2, <1>3, <1>4, <1>5, Sizes DEF LayoutOK

LEMMA InitBucketOK == LayoutOK /\ InitBucket => LayoutOK'
<1> SUFFICES ASSUME LayoutOK, InitBucket PROVE LayoutOK'
  OBVIOUS
<1> DEFINE n == Len(buckets)
           c == cfg[n + 1]
           size == ALIGN_BLOCK_SIZE(AllocSize(c))
           b == [type |-> c.type, cap |-> c.cap, offset |-> offset, size |-> size]
           at == BASE_DATA_AREA + position
<1>1. /\ cfg \in Seq(Config) /\ Len(cfg) \in Nat /\ n \in Nat /\ n < Len(cfg) /\ n = Len(placed)
      /\ position = Total(cfg)[n] /\ offset = BASE_DATA_AREA + Total(cfg)[n]
      /\ buckets \in Seq(BucketRecord) /\ placed \in Seq(Nat)
  BY DEF LayoutOK, InitBucket, BucketRecord
<1>2. /\ buckets' = Append(buckets, b) /\ placed' = Append(placed, at)
      /\ offset' = offset + size /\ position' = position + size
      /\ pc' = (IF Len(buckets') = Len(cfg) THEN "done" ELSE "placing")
      /\ cfg' = cfg /\ root' = root
  BY DEF InitBucket
<1>3. c \in Config /\ n + 1 \in 1..Len(cfg)
  BY <1>1
<1>4. /\ Total(cfg)[n + 1] = Total(cfg)[n] + size /\ Total(cfg)[n] \in Nat /\ size \in Nat
      /\ Total(cfg)[n + 1] \in Nat
  BY <1>1, <1>3, TotalSteps, BytesValue DEF BucketBytes
<1>5. at = offset /\ at \in Nat /\ at = BASE_DATA_AREA + Total(cfg)[n]
  BY <1>1, <1>4, Sizes
<1>6. b \in BucketRecord /\ b.offset = at
  BY <1>3, <1>4, <1>5, SmsAssumption DEF BucketRecord
<1> HIDE DEF b, at, size, c
<1>7. /\ buckets' \in Seq(BucketRecord) /\ Len(buckets') = n + 1 /\ buckets'[n + 1] = b
      /\ \A k \in 1..n : buckets'[k] = buckets[k]
  BY <1>1, <1>2, <1>6
<1>8. /\ placed' \in Seq(Nat) /\ Len(placed') = n + 1 /\ placed'[n + 1] = at
      /\ \A k \in 1..n : placed'[k] = placed[k]
  BY <1>1, <1>2, <1>5
<1>9. ASSUME NEW k \in 1..(n + 1)
      PROVE  placed'[k] = BASE_DATA_AREA + Total(cfg)[k - 1] /\ buckets'[k].offset = placed'[k]
  <2>1. CASE k = n + 1
    BY <1>1, <1>5, <1>6, <1>7, <1>8, <2>1
  <2>2. CASE k # n + 1
    <3>1. k \in 1..n
      BY <1>1, <2>2
    <3> QED
      BY <1>1, <1>7, <1>8, <3>1 DEF LayoutOK
  <2> QED
    BY <2>1, <2>2
<1>10. /\ position' = Total(cfg)[n + 1] /\ offset' = BASE_DATA_AREA + Total(cfg)[n + 1]
  <2>1. position' = Total(cfg)[n] + size /\ offset' = (BASE_DATA_AREA + Total(cfg)[n]) + size
    BY <1>1, <1>2
  <2> QED
    BY ONLY <1>4, <2>1, Sizes
<1>11. root.data_offset = BASE_DATA_AREA /\ root.data_size = Total(cfg)[Len(cfg)]
  BY DEF LayoutOK, InitBucket
<1>12. /\ pc' \in {"placing", "done"} /\ n + 1 <= Len(cfg)
       /\ pc' = "placing" => n + 1 < Len(cfg)
       /\ pc' = "done" => n + 1 = Len(cfg)
  BY <1>1, <1>2, <1>7
<1>13. Len(cfg) <= MaxConfigs
  BY DEF LayoutOK
<1> HIDE DEF n
<1> QED
  BY <1>1, <1>2, <1>7, <1>8, <1>9, <1>10, <1>11, <1>12, <1>13 DEF LayoutOK, BucketRecord

LEMMA LayoutNextOK == LayoutOK /\ [SegmentNext]_allVars => LayoutOK'
<1> SUFFICES ASSUME LayoutOK, [SegmentNext]_allVars PROVE LayoutOK'
  OBVIOUS
<1>1. CASE InitBase
  BY <1>1, InitBaseOK
<1>2. CASE InitBucket
  BY <1>2, InitBucketOK
<1>3. CASE Restart
  BY <1>3 DEF Restart, LayoutOK
<1>4. CASE UNCHANGED vars
  BY <1>4 DEF vars, LayoutOK
<1> QED
  BY <1>1, <1>2, <1>3, <1>4 DEF SegmentNext, PlaceBucket, Use, RestartUsers, allVars

LEMMA LayoutInvariant == SegmentSpec => []LayoutOK
<1>1. SegmentInit => LayoutOK
  BY LayoutInitOK DEF SegmentInit
<1> QED
  BY <1>1, LayoutNextOK, PTL DEF SegmentSpec, allVars

\* sms_calc_size, the offsets in the bucket table and the addresses that the buckets are
\* set up at agree, for every configuration (sms_bucket.c:5-136).
THEOREM ComputationsAgree == SegmentSpec => []LayoutAgrees
<1>1. LayoutOK => LayoutAgrees
  <2> SUFFICES ASSUME LayoutOK PROVE LayoutAgrees
    OBVIOUS
  <2>1. sms_calc_size(cfg) = BASE_DATA_AREA + Total(cfg)[Len(cfg)]
    BY SegmentTotalValue DEF LayoutOK
  <2>2. DOMAIN buckets = 1..Len(placed)
    BY DEF LayoutOK
  <2> QED
    BY <2>1, <2>2 DEF LayoutOK, LayoutAgrees
<1> QED
  BY <1>1, LayoutInvariant, PTL

\* Products of larger numbers are larger.
LEMMA ProductGrows ==
  ASSUME NEW a \in Nat, NEW b \in Nat, a <= b, NEW c \in Nat
  PROVE  a * c <= b * c
OBVIOUS

LEMMA ProductValue ==
  ASSUME NEW a \in Nat, NEW b \in Nat
  PROVE  a * b \in Nat /\ a * (b + 1) \in Nat /\ a * (b + 1) = a * b + a
<1>1. a * b \in Nat /\ a * (b + 1) \in Nat
  OBVIOUS
<1>2. a * (b + 1) = a * b + a
  OBVIOUS
<1> QED
  BY <1>1, <1>2

\* What the owner of a bucket touches fits into the bytes the layout gives it.
LEMMA FootprintFits ==
  ASSUME Fitting, LayoutOK, NEW k \in 1..Len(placed)
  PROVE  Footprint(k) \subseteq
           (BASE_DATA_AREA + Total(cfg)[k - 1])..(BASE_DATA_AREA + Total(cfg)[k] - 1)
<1> DEFINE c == cfg[k]
           need == HdrSize + c.elem_size * (c.cap + 1)
<1>1. c \in Config /\ k \in 1..Len(cfg) /\ placed[k] = BASE_DATA_AREA + Total(cfg)[k - 1]
      /\ cfg \in Seq(Config)
  BY DEF LayoutOK
<1>2. c.elem_size \in Nat /\ c.cap \in Nat /\ Modulus \in Nat \ {0} /\ HdrSize \in Nat
  BY <1>1, SmsAssumption
<1>3. /\ c.elem_size * c.cap \in Nat /\ c.elem_size * (c.cap + 1) \in Nat
      /\ c.elem_size * (c.cap + 1) = c.elem_size * c.cap + c.elem_size
  BY <1>2, ProductValue
<1>4. need \in 0..(Modulus - 1)
  <2>1. need < Modulus
    BY <1>1 DEF Fitting
  <2>2. need \in Nat
    BY <1>2, <1>3
  <2> HIDE DEF need
  <2> QED
    BY <1>2, <2>1, <2>2
<1>5. AllocSize(c) = need
  <2>1. AllocSize(c) = need % Modulus
    BY DEF AllocSize
  <2> HIDE DEF need
  <2> QED
    BY <1>2, <1>4, <2>1
<1>6. need <= BucketBytes(c) /\ BucketBytes(c) \in Nat
  <2> HIDE DEF need
  <2> QED
    BY <1>4, <1>5, <1>1, AlignValue, BytesValue DEF BucketBytes
<1>7. /\ Total(cfg)[k] = Total(cfg)[k - 1] + BucketBytes(c)
      /\ Total(cfg)[k - 1] \in Nat /\ BASE_DATA_AREA \in Nat
  BY <1>1, TotalSteps, Sizes
<1> DEFINE room == c.elem_size * (IF c.type = "RING" THEN c.cap + 1 ELSE c.cap)
<1>8. room \in Nat /\ HdrSize + room <= need
  <2>1. CASE c.type = "RING"
    <3>1. room = c.elem_size * (c.cap + 1)
      BY <2>1
    <3> QED
      BY <1>2, <1>3, <3>1
  <2>2. CASE c.type # "RING"
    <3>1. room = c.elem_size * c.cap
      BY <2>2
    <3> QED
      BY <1>2, <1>3, <3>1
  <2> QED
    BY <2>1, <2>2
<1>9. Footprint(k) = placed[k]..(placed[k] + HdrSize + room - 1)
  BY DEF Footprint
<1> HIDE DEF room, need, c
<1>10. /\ placed[k] \in Int /\ placed[k] + HdrSize + room - 1 \in Int
       /\ placed[k] + HdrSize + room - 1 <= BASE_DATA_AREA + Total(cfg)[k] - 1
  <2> DEFINE before == Total(cfg)[k - 1]
             bytes == BucketBytes(c)
  <2>1. /\ placed[k] = BASE_DATA_AREA + before /\ Total(cfg)[k] = before + bytes
        /\ before \in Nat /\ bytes \in Nat /\ BASE_DATA_AREA \in Nat
        /\ need <= bytes /\ need \in Int
    BY <1>1, <1>4, <1>6, <1>7
  <2> HIDE DEF before, bytes
  <2>2. HdrSize + room <= bytes /\ HdrSize \in Nat /\ room \in Nat
    BY <1>2, <1>8, <2>1
  <2> QED
    BY ONLY <2>1, <2>2
<1>11. Total(cfg)[k] \in Int
  BY <1>6, <1>7
<1> QED
  BY <1>1, <1>7, <1>9, <1>10, <1>11

\* The buckets before one end where it begins, at the latest.
LEMMA FootprintsApart ==
  ASSUME Fitting, LayoutOK, NEW j \in 1..Len(placed), NEW k \in 1..Len(placed), j < k
  PROVE  Footprint(j) \cap Footprint(k) = {}
<1>1. Total(cfg)[j] <= Total(cfg)[k - 1]
  <2> DEFINE size == [n \in 1..Len(cfg) |-> BucketBytes(cfg[n])]
  <2>1. cfg \in Seq(Config) /\ Len(cfg) \in Nat /\ Len(placed) \in Nat /\ Len(placed) <= Len(cfg)
    BY DEF LayoutOK
  <2>2. size \in [1..Len(cfg) -> Nat] /\ IsSum(Total(cfg), size, Len(cfg))
    <3>1. \A n \in 1..Len(cfg) : BucketBytes(cfg[n]) \in Nat
      <4> SUFFICES ASSUME NEW n \in 1..Len(cfg) PROVE BucketBytes(cfg[n]) \in Nat
        OBVIOUS
      <4>1. cfg[n] \in Config
        BY <2>1
      <4> QED
        BY <4>1, BytesValue, Zenon
    <3>2. IsSum(Total(cfg), size, Len(cfg))
      BY <2>1, TotalValue, Zenon
    <3> QED
      BY <3>1, <3>2, Zenon
  <2>3. j \in 0..Len(cfg) /\ k - 1 \in j..Len(cfg)
    BY <2>1
  <2> HIDE DEF size
  <2> QED
    BY <2>1, <2>2, <2>3, SumGrows
<1>2. Total(cfg)[j] \in Nat /\ Total(cfg)[k - 1] \in Nat /\ BASE_DATA_AREA \in Nat
  <2>1. /\ cfg \in Seq(Config) /\ Len(cfg) \in Nat /\ Len(placed) \in Nat
        /\ Len(placed) <= Len(cfg)
    BY DEF LayoutOK
  <2>2. j \in 0..Len(cfg) /\ k - 1 \in 0..Len(cfg)
    BY <2>1
  <2> QED
    BY <2>1, <2>2, TotalSteps, Sizes
<1>3. \A x \in Footprint(j) : x \in Int /\ x < BASE_DATA_AREA + Total(cfg)[j]
  <2>1. Total(cfg)[j - 1] \in Nat
    BY TotalSteps DEF LayoutOK
  <2> QED
    BY <1>2, <2>1, FootprintFits
<1>4. \A x \in Footprint(k) : x \in Int /\ x >= BASE_DATA_AREA + Total(cfg)[k - 1]
  <2>1. Total(cfg)[k] \in Nat
    BY TotalSteps DEF LayoutOK
  <2> QED
    BY <1>2, <2>1, FootprintFits
<1> QED
  BY <1>1, <1>2, <1>3, <1>4

\* The entries that describe a bucket are inside the statistics record, and that is
\* between the base record and the first bucket.
LEMMA TablesFit ==
  ASSUME NEW k \in 1..MaxBuckets
  PROVE  /\ Statistics \subseteq BaseSize..(BASE_DATA_AREA - 1)
         /\ TableEntry(k) \subseteq Statistics /\ ConfigEntry(k) \subseteq Statistics
<1>1. /\ BucketSize \in Nat \ {0} /\ CfgSize \in Nat \ {0} /\ MaxBuckets \in Nat \ {0}
      /\ StatSize = 8 + MaxBuckets * (BucketSize + CfgSize)
  BY SmsAssumption
<1> DEFINE mb == MaxBuckets * BucketSize
           mc == MaxBuckets * CfgSize
           kb == (k - 1) * BucketSize
           kc == (k - 1) * CfgSize
<1>2. mb \in Nat /\ mc \in Nat /\ kb \in Nat /\ kc \in Nat
  BY <1>1
<1>3. StatSize = 8 + mb + mc
  BY <1>1
<1>4. kb + BucketSize <= mb /\ kc + CfgSize <= mc
  <2>1. k * BucketSize = kb + BucketSize /\ k * CfgSize = kc + CfgSize
    BY <1>1
  <2>2. k * BucketSize <= mb /\ k * CfgSize <= mc
    BY <1>1, ProductGrows
  <2> QED
    BY <2>1, <2>2
<1>5. BASE_STATISTICAL_AREA \in Nat /\ BASE_STATISTICAL_AREA >= BaseSize
  BY Sizes, AlignValue DEF BASE_STATISTICAL_AREA, ALIGN_BLOCK_SIZE
<1>6. BASE_DATA_AREA >= BASE_STATISTICAL_AREA + StatSize /\ BASE_DATA_AREA \in Nat
  <2>1. StatSize % 8 \in Nat /\ StatSize \in Nat
    BY Sizes
  <2> QED
    BY <1>5, <2>1, Sizes DEF BASE_DATA_AREA
<1> HIDE DEF mb, mc, kb, kc
<1>7. /\ TableEntry(k) = (BASE_STATISTICAL_AREA + 8 + kb)..(BASE_STATISTICAL_AREA + 8 + kb + BucketSize - 1)
      /\ ConfigEntry(k) = (BASE_STATISTICAL_AREA + 8 + mb + kc)
                            ..(BASE_STATISTICAL_AREA + 8 + mb + kc + CfgSize - 1)
  BY DEF TableEntry, ConfigEntry, kb, kc, mb
<1>8. Statistics = BASE_STATISTICAL_AREA..(BASE_STATISTICAL_AREA + 8 + mb + mc - 1)
  BY <1>1, <1>2, <1>3, <1>5 DEF Statistics
<1>9. Statistics \subseteq BaseSize..(BASE_DATA_AREA - 1)
  BY <1>2, <1>3, <1>5, <1>6, <1>8, Sizes
<1> QED
  BY <1>1, <1>2, <1>4, <1>5, <1>7, <1>8, <1>9

\* Every bucket keeps to bytes of its own, for every configuration whose buckets fit
\* into uint32_t and into the table: no two overlap, none reaches into the records at the
\* front or past the end of the segment (sms_bucket.c:5-136).
THEOREM BucketsApart ==
  ASSUME Fitting
  PROVE  SegmentSpec => []BytesOfItsOwn
<1>1. LayoutOK => BytesOfItsOwn
  <2> SUFFICES ASSUME LayoutOK, NEW k \in DOMAIN buckets
               PROVE  /\ Footprint(k) \subseteq BASE_DATA_AREA..(sms_calc_size(cfg) - 1)
                      /\ \A j \in DOMAIN buckets : j # k => Footprint(j) \cap Footprint(k) = {}
                      /\ Statistics \subseteq BaseSize..(BASE_DATA_AREA - 1)
                      /\ TableEntry(k) \subseteq Statistics /\ ConfigEntry(k) \subseteq Statistics
    BY DEF BytesOfItsOwn
  <2>1. /\ DOMAIN buckets = 1..Len(placed) /\ Len(placed) \in Nat /\ Len(placed) <= Len(cfg)
        /\ cfg \in Seq(Config) /\ Len(cfg) \in Nat /\ Len(cfg) <= MaxConfigs
    BY DEF LayoutOK
  <2>2. Footprint(k) \subseteq BASE_DATA_AREA..(sms_calc_size(cfg) - 1)
    <3> DEFINE size == [n \in 1..Len(cfg) |-> BucketBytes(cfg[n])]
    <3>1. sms_calc_size(cfg) = BASE_DATA_AREA + Total(cfg)[Len(cfg)]
      BY <2>1, SegmentTotalValue
    <3>2. size \in [1..Len(cfg) -> Nat] /\ IsSum(Total(cfg), size, Len(cfg))
      BY <2>1, BytesValue, TotalValue
    <3>3. k \in 0..Len(cfg) /\ Len(cfg) \in k..Len(cfg) /\ k - 1 \in 0..Len(cfg)
      BY <2>1
    <3> HIDE DEF size
    <3>4. Total(cfg)[k] <= Total(cfg)[Len(cfg)]
      BY <2>1, <3>2, <3>3, SumGrows
    <3>5. /\ Total(cfg)[k] \in Nat /\ Total(cfg)[k - 1] \in Nat /\ Total(cfg)[Len(cfg)] \in Nat
          /\ BASE_DATA_AREA \in Nat
      BY <2>1, <3>3, TotalSteps, Sizes
    <3>6. Footprint(k) \subseteq
            (BASE_DATA_AREA + Total(cfg)[k - 1])..(BASE_DATA_AREA + Total(cfg)[k] - 1)
      BY <2>1, FootprintFits
    <3> QED
      BY <3>1, <3>4, <3>5, <3>6
  <2>3. ASSUME NEW j \in DOMAIN buckets, j # k PROVE Footprint(j) \cap Footprint(k) = {}
    <3>1. j < k \/ k < j
      BY <2>1, <2>3
    <3> QED
      BY <2>1, <3>1, FootprintsApart
  <2>4. k \in 1..MaxBuckets
    BY <2>1, SmsAssumption DEF Fitting
  <2> QED
    BY <2>2, <2>3, <2>4, TablesFit
<1> QED
  BY <1>1, LayoutInvariant, PTL

-------------------------------------------------------------------------------
(* The array in its bucket. *)

\* Where the array is in the configurations in which it is used.
LEMMA InUseValue ==
  ASSUME LayoutOK, InUse
  PROVE  /\ At \in 1..Len(cfg) /\ cfg[At] \in Config
         /\ cfg[At].type = "ARRAY" /\ cfg[At].cap = NAlloc /\ cfg[At].elem_size \in Nat
<1>1. cfg \in Seq(Config) /\ At \in DOMAIN cfg /\ cfg[At].type = "ARRAY" /\ cfg[At].cap = NAlloc
  BY SegmentAssumption DEF LayoutOK, InUse
<1>2. At \in 1..Len(cfg) /\ cfg[At] \in Config
  BY <1>1
<1> QED
  BY <1>1, <1>2, SmsAssumption

LEMMA StartNextOK == LayoutOK /\ StartOK /\ [SegmentNext]_allVars => StartOK'
<1> SUFFICES ASSUME LayoutOK, StartOK, [SegmentNext]_allVars,
                    InUse', pc' = "placing", Len(buckets') >= At
             PROVE  nelem' = 0 /\ nalloc' = NAlloc
  BY DEF StartOK
<1>1. At \in Nat \ {0} /\ Len(buckets) \in Nat
  BY SegmentAssumption DEF LayoutOK
<1>2. CASE InitBase
  <2>1. Len(buckets') = 0
    BY <1>2 DEF InitBase
  <2> QED
    BY <1>1, <2>1
<1>3. CASE PlaceBucket
  <2>1. Len(buckets') = Len(buckets) + 1 /\ pc = "placing" /\ InUse
    BY <1>3 DEF PlaceBucket, InitBucket, InUse, LayoutOK
  <2>2. CASE Len(buckets) = At - 1
    BY <1>1, <1>3, <2>1, <2>2 DEF PlaceBucket, array_setup
  <2>3. CASE Len(buckets) # At - 1
    <3>1. Len(buckets) >= At
      BY <1>1, <2>1, <2>3
    <3> QED
      BY <1>3, <2>1, <2>3, <3>1 DEF PlaceBucket, StartOK, arrayVars
  <2> QED
    BY <2>2, <2>3
<1>4. CASE RestartUsers
  BY <1>4 DEF RestartUsers, Restart
<1>5. CASE Use
  BY <1>5 DEF Use, vars
<1>6. CASE UNCHANGED allVars
  BY <1>6 DEF allVars, vars, arrayVars, StartOK, InUse
<1> QED
  BY <1>2, <1>3, <1>4, <1>5, <1>6 DEF SegmentNext

\* A new start finds the array in place and empty, whatever the one before left in the
\* segment and wherever it ended (sms_bucket.c:57-113, cmn_array.c:33-41).
THEOREM FreshStart == SegmentSpec => StartsEmpty
<1>1. SegmentInit => StartOK
  BY DEF SegmentInit, Init, StartOK
<1>2. LayoutOK /\ StartOK /\ [SegmentNext]_allVars =>
        [InUse /\ pc = "placing" /\ pc' = "done" => nelem' = 0 /\ nalloc' = NAlloc]_allVars
  <2> SUFFICES ASSUME LayoutOK, StartOK, [SegmentNext]_allVars,
                      InUse, pc = "placing", pc' = "done"
               PROVE  nelem' = 0 /\ nalloc' = NAlloc
    OBVIOUS
  <2>1. PlaceBucket
    BY DEF SegmentNext, InitBase, Use, RestartUsers, Restart, allVars, vars
  <2>2. Len(buckets') = Len(buckets) + 1 /\ Len(buckets') = Len(cfg) /\ Len(buckets) \in Nat
    BY <2>1 DEF PlaceBucket, InitBucket, LayoutOK
  <2>3. At \in 1..Len(cfg)
    BY InUseValue
  <2>4. CASE Len(buckets) = At - 1
    BY <2>1, <2>2, <2>3, <2>4 DEF PlaceBucket, array_setup
  <2>5. CASE Len(buckets) # At - 1
    <3>1. Len(buckets) >= At
      BY <2>2, <2>3, <2>5
    <3> QED
      BY <2>1, <2>5, <3>1 DEF PlaceBucket, StartOK, arrayVars
  <2> QED
    BY <2>4, <2>5
<1> QED
  BY <1>1, <1>2, StartNextOK, LayoutInvariant, PTL DEF SegmentSpec, allVars, StartsEmpty

\* Stores change elements that there is room for, but for those of array_add.
LEMMA StoresCounted ==
  ASSUME ArrayOK, ArrayNext, NEW k \in Indices, data'[k] # data[k],
         ~(k > nalloc /\ \E v \in Value : array_add(k, v))
  PROVE  k \in 0..(NAlloc - 1)
<1>1. nelem \in Nat /\ nalloc \in Nat /\ nalloc <= NAlloc /\ nelem <= nalloc /\ k \in Nat
  BY ArrayTypes DEF ArrayOK
<1>2. ASSUME NEW v \in Value, array_push(v) PROVE k < NAlloc
  <2>1. k = nelem
    BY <1>2 DEF array_push, ArrayOK
  <2>2. nelem # nalloc
    BY <1>2 DEF array_push, Full
  <2> QED
    BY <1>1, <2>1, <2>2, ArrayTypes
<1>3. ASSUME NEW v \in Value, NEW idx \in Indices, array_add(idx, v) PROVE k < NAlloc
  <2>1. k = idx /\ idx # nalloc
    BY <1>3 DEF array_add, ArrayOK
  <2>2. ~(k > nalloc)
    BY <1>3, <2>1
  <2> QED
    BY <1>1, <2>1, <2>2, ArrayTypes
<1>4. ASSUME array_sort PROVE k < NAlloc
  <2>1. ~(k >= nelem)
    BY <1>4, SortKeeps
  <2> QED
    BY <1>1, <2>1, ArrayTypes
<1>5. ASSUME array_free PROVE k < NAlloc
  <2>1. data'[k] = IF k < nalloc THEN 0 ELSE data[k]
    BY <1>5 DEF array_free
  <2>2. k < nalloc
    BY <2>1
  <2> QED
    BY <1>1, <2>2, ArrayTypes
<1>6. UNCHANGED data => FALSE
  OBVIOUS
<1>7. k < NAlloc
  <2>1. \/ \E v \in Value : array_push(v) \/ \E idx \in Indices : array_add(idx, v)
        \/ array_sort \/ array_free \/ UNCHANGED data
    BY DEF ArrayNext, PushRefused, AddNothing, array_pop, array_setup, EachStart, EachNext, EachEnd,
           arrayVars
  <2>2. CASE \E v \in Value : array_push(v) \/ \E idx \in Indices : array_add(idx, v)
    BY <1>2, <1>3, <2>2
  <2>3. CASE array_sort \/ array_free
    BY <1>4, <1>5, <2>3
  <2> QED
    BY <1>6, <2>1, <2>2, <2>3
<1> QED
  BY <1>1, <1>7, ArrayTypes

\* The bytes of an element that there is room for are in the bucket.
LEMMA SlotInside ==
  ASSUME LayoutOK, InUse, pc = "done", NEW k \in 0..(NAlloc - 1)
  PROVE  Slot(k) \subseteq Footprint(At)
<1> DEFINE size == cfg[At].elem_size
           here == placed[At] + HdrSize
<1>1. /\ size \in Nat /\ NAlloc \in Nat \ {0} /\ k \in Nat /\ HdrSize \in Nat
      /\ At \in 1..Len(placed) /\ placed \in Seq(Nat)
      /\ cfg[At].type = "ARRAY" /\ cfg[At].cap = NAlloc
  BY InUseValue, ArrayTypes, Sizes DEF LayoutOK
<1>2. placed[At] \in Nat /\ here \in Nat
  BY <1>1
<1>3. /\ Slot(k) = (here + k * size)..(here + k * size + size - 1)
      /\ Footprint(At) = placed[At]..(here + size * NAlloc - 1)
  BY <1>1 DEF Slot, Footprint
<1>4. k * size \in Nat /\ k * size + size <= size * NAlloc /\ size * NAlloc \in Nat
  <2>1. (k + 1) * size <= NAlloc * size
    <3>1. k + 1 \in Nat /\ k + 1 <= NAlloc /\ NAlloc \in Nat
      BY <1>1
    <3> HIDE DEF size
    <3> QED
      BY <1>1, <3>1, ProductGrows
  <2>2. size * (k + 1) = size * k + size /\ size * k \in Nat
    BY <1>1, ProductValue
  <2>3. (k + 1) * size = size * (k + 1) /\ NAlloc * size = size * NAlloc /\ k * size = size * k
    BY <1>1
  <2>4. size * NAlloc \in Nat
    BY <1>1, ProductValue
  <2> QED
    BY <2>1, <2>2, <2>3, <2>4
<1> HIDE DEF here, size
<1>5. placed[At] <= here
  BY <1>1, <1>2 DEF here
<1> DEFINE from == k * size
           all == size * NAlloc
<1>6. from \in Nat /\ from + size <= all /\ all \in Nat
  BY <1>4
<1>7. Slot(k) = (here + from)..(here + from + size - 1) /\ Footprint(At) = placed[At]..(here + all - 1)
  BY <1>3
<1> HIDE DEF from, all
<1>8. placed[At] <= here + from /\ here + from + size - 1 <= here + all - 1
  BY <1>1, <1>2, <1>5, <1>6
<1>9. here + from \in Int /\ here + from + size - 1 \in Int /\ here + all - 1 \in Int
  BY <1>1, <1>2, <1>6
<1> QED
  BY <1>2, <1>7, <1>8, <1>9

\* The array stores into the bytes that the layout gives its bucket, and only array_add
\* with an index beyond nalloc, which it does not refuse, stores outside
\* (sms_bucket.c:57-113, cmn_array.c:71-142).
THEOREM NeighboursUntouched == SegmentSpec => StoresInside
<1>1. ArrayOK /\ LayoutOK /\ [SegmentNext]_allVars =>
        [\A k \in Indices :
           data'[k] # data[k] => \/ Slot(k) \subseteq Footprint(At)
                                 \/ k > nalloc /\ \E v \in Value : array_add(k, v)]_data
  <2> SUFFICES ASSUME ArrayOK, LayoutOK, [SegmentNext]_allVars,
                      NEW k \in Indices, data'[k] # data[k],
                      ~(k > nalloc /\ \E v \in Value : array_add(k, v))
               PROVE  Slot(k) \subseteq Footprint(At)
    OBVIOUS
  <2>1. ~ UNCHANGED data
    OBVIOUS
  <2>2. InUse /\ pc = "done" /\ ArrayNext
    BY <2>1, ArraySteps DEF array_setup, RestartUsers, arrayVars
  <2>3. k \in 0..(NAlloc - 1)
    BY <2>2, StoresCounted
  <2> QED
    BY <2>2, <2>3, SlotInside
<1> QED
  BY <1>1, ArrayInvariant, LayoutInvariant, PTL DEF SegmentSpec, allVars, StoresInside

-------------------------------------------------------------------------------
(* The refinement of Stack. *)

\* The positions of s, up to n, that hold v.
Count(s, n, v) == Cardinality({k \in 1..n : s[k] = v})

\* A bijection of the elements' positions, from the one of their indices: as many
\* elements have any one value before and after.
LEMMA SameCounts ==
  ASSUME NEW n \in Nat, NEW s \in [1..n -> Value], NEW t \in [1..n -> Value], NEW v,
         NEW order \in Bijection(0..(n - 1), 0..(n - 1)),
         \A k \in 1..n : t[k] = s[order[k - 1] + 1]
  PROVE  Count(s, n, v) = Count(t, n, v)
<1> DEFINE A == {k \in 1..n : t[k] = v}
           B == {k \in 1..n : s[k] = v}
           f == [k \in A |-> order[k - 1] + 1]
<1>1. /\ order \in [0..(n - 1) -> 0..(n - 1)]
      /\ \A j, k \in 0..(n - 1) : order[j] = order[k] => j = k
      /\ \A k \in 0..(n - 1) : \E j \in 0..(n - 1) : order[j] = k
  BY DEF Bijection, Injection, Surjection, IsInjective
<1>2. f \in [A -> B]
  <2> SUFFICES ASSUME NEW k \in A PROVE order[k - 1] + 1 \in B
    OBVIOUS
  <2>1. k - 1 \in 0..(n - 1) /\ k \in 1..n /\ t[k] = v
    OBVIOUS
  <2>2. order[k - 1] \in 0..(n - 1)
    BY <1>1, <2>1
  <2>3. order[k - 1] + 1 \in 1..n
    BY <2>2
  <2> QED
    BY <2>1, <2>3
<1>3. ASSUME NEW j \in A, NEW k \in A, f[j] = f[k] PROVE j = k
  <2>1. j - 1 \in 0..(n - 1) /\ k - 1 \in 0..(n - 1) /\ j \in Int /\ k \in Int
    OBVIOUS
  <2>2. order[j - 1] \in 0..(n - 1) /\ order[k - 1] \in 0..(n - 1)
    BY <1>1, <2>1
  <2>3. order[j - 1] + 1 = order[k - 1] + 1
    BY <1>3
  <2>4. order[j - 1] = order[k - 1]
    <3> DEFINE x == order[j - 1]
               y == order[k - 1]
    <3>1. x \in Int /\ y \in Int /\ x + 1 = y + 1
      BY <2>2, <2>3
    <3> HIDE DEF x, y
    <3>2. x = y
      BY <3>1
    <3> QED
      BY <3>2 DEF x, y
  <2>5. j - 1 = k - 1
    BY <1>1, <2>1, <2>4
  <2> QED
    BY <2>1, <2>5
<1>4. ASSUME NEW b \in B PROVE \E a \in A : f[a] = b
  <2>1. b - 1 \in 0..(n - 1) /\ b \in 1..n /\ s[b] = v
    OBVIOUS
  <2>2. PICK j \in 0..(n - 1) : order[j] = b - 1
    BY <1>1, <2>1
  <2>3. j + 1 \in 1..n /\ (j + 1) - 1 = j /\ order[j] + 1 = b
    BY <2>1, <2>2
  <2>4. t[j + 1] = s[order[j] + 1]
    BY <2>3
  <2>5. j + 1 \in A
    BY <2>1, <2>3, <2>4
  <2>6. f[j + 1] = b
    BY <2>3, <2>5
  <2> QED
    BY <2>5, <2>6
<1>5. IsFiniteSet(A)
  <2>1. IsFiniteSet(1..n)
    BY FS_Interval
  <2> QED
    BY <2>1, FS_Subset
<1> HIDE DEF A, B, f
<1>6. f \in Bijection(A, B)
  BY <1>2, <1>3, <1>4 DEF Bijection, Injection, Surjection, IsInjective
<1>7. ExistsBijection(A, B)
  BY <1>6 DEF ExistsBijection
<1>8. Cardinality(B) = Cardinality(A)
  BY <1>5, <1>7, FS_Bijection
<1> QED
  BY <1>8 DEF A, B, Count

\* Sorting the block's elements sorts the stack.
LEMMA SortRefines ==
  ASSUME ArrayOK, array_sort
  PROVE  StackSpec!Sort
<1>1. nelem \in Nat /\ nelem' = nelem /\ nelem <= NAlloc
  BY ArrayTypes DEF ArrayOK, array_sort
<1>2. ArrayOK'
  BY SortKeeps
<1>3. PICK order \in Bijection(0..(nelem - 1), 0..(nelem - 1)) :
        /\ \A j, k \in 0..(nelem - 1) : j < k => data[order[j]] <= data[order[k]]
        /\ data' = [k \in Indices |-> data[IF k < nelem THEN order[k] ELSE k]]
  BY DEF array_sort, qsort
<1>4. order \in [0..(nelem - 1) -> 0..(nelem - 1)]
  BY DEF Bijection, Injection
<1>5. \A k \in 0..(nelem - 1) : data'[k] = data[order[k]]
  BY <1>1, <1>3, ArrayTypes
<1> DEFINE s == Contents
           t == [k \in 1..nelem |-> data'[k - 1]]
<1>6. Contents' = t
  BY <1>1 DEF Contents
<1>7. /\ s \in [1..nelem -> Value] /\ Len(s) = nelem /\ DOMAIN s = 1..nelem
      /\ \A k \in 1..nelem : s[k] = data[k - 1]
  BY ContentsValue
<1>8. t \in [1..nelem -> Value]
  BY <1>1, <1>2 DEF ArrayOK
<1>9. \A k \in 1..nelem : t[k] = s[order[k - 1] + 1]
  <2> SUFFICES ASSUME NEW k \in 1..nelem PROVE t[k] = s[order[k - 1] + 1]
    OBVIOUS
  <2>1. k - 1 \in 0..(nelem - 1)
    BY <1>1
  <2>2. order[k - 1] \in 0..(nelem - 1) /\ order[k - 1] + 1 \in 1..nelem
        /\ (order[k - 1] + 1) - 1 = order[k - 1]
    BY <1>1, <1>4, <2>1
  <2>3. s[order[k - 1] + 1] = data[order[k - 1]]
    BY <1>7, <2>2
  <2> QED
    BY <1>5, <2>1, <2>3
<1>10. ASSUME NEW j \in 1..nelem, NEW k \in 1..nelem, j < k PROVE t[j] <= t[k]
  <2>1. j - 1 \in 0..(nelem - 1) /\ k - 1 \in 0..(nelem - 1) /\ j - 1 < k - 1
    BY <1>1, <1>10
  <2>2. data[order[j - 1]] <= data[order[k - 1]]
    BY <1>3, <2>1
  <2> QED
    BY <1>5, <2>1, <2>2
<1> HIDE DEF s, t
<1>11. \A v \in Value : Count(s, nelem, v) = Count(t, nelem, v)
  <2> SUFFICES ASSUME NEW v \in Value PROVE Count(s, nelem, v) = Count(t, nelem, v)
    OBVIOUS
  <2>1. /\ nelem \in Nat /\ s \in [1..nelem -> Value] /\ t \in [1..nelem -> Value]
        /\ order \in Bijection(0..(nelem - 1), 0..(nelem - 1))
        /\ \A k \in 1..nelem : t[k] = s[order[k - 1] + 1]
    BY <1>1, <1>7, <1>8, <1>9, Zenon
  <2> QED
    BY ONLY <2>1, SameCounts, Zenon
<1>12. s = Contents
  BY DEF s
<1>13. \A v \in Value : Cardinality({k \in DOMAIN s : s[k] = v}) = Cardinality({k \in DOMAIN s : t[k] = v})
  <2>1. DOMAIN s = 1..nelem
    BY <1>7
  <2> QED
    BY <1>11, <2>1 DEF Count
<1>14. t \in [1..Len(s) -> Value]
  BY <1>7, <1>8
<1>15. \A j, k \in DOMAIN s : j < k => t[j] <= t[k]
  BY <1>7, <1>10
<1>16. \A S : StackSpec!Cardinality(S) = Cardinality(S)
  BY DEF StackSpec!Cardinality, Cardinality
<1> QED
  BY <1>6, <1>12, <1>13, <1>14, <1>15, <1>16 DEF StackSpec!Sort

LEMMA StackCalls ==
  ASSUME ArrayOK, ArrayNext
  PROVE  [StackSpec!Next]_Contents
<1>1. /\ Contents \in Seq(Value) /\ Len(Contents) = nelem /\ nelem \in Nat
      /\ DOMAIN Contents = 1..nelem
      /\ \A k \in 1..nelem : Contents[k] = data[k - 1]
  BY ContentsValue
<1>2. nalloc \in Nat /\ nalloc <= NAlloc /\ nelem <= nalloc /\ data \in [Indices -> Value \cup {Junk, 0}]
  BY ArrayTypes DEF ArrayOK
<1>3. Contents' = [k \in 1..nelem' |-> data'[k - 1]]
  BY DEF Contents
<1>4. ASSUME NEW v \in Value, array_push(v) PROVE StackSpec!Push(v)
  <2>1. nelem < nalloc /\ nelem' = nelem + 1 /\ nelem \in Indices
    BY <1>1, <1>2, <1>4, ArrayTypes DEF array_push, Full
  <2>2. data' = [data EXCEPT ![nelem] = v]
    BY <1>4 DEF array_push
  <2> DEFINE q == Append(Contents, v)
             c == [k \in 1..(nelem + 1) |-> data'[k - 1]]
  <2>3. q \in Seq(Value) /\ Len(q) = nelem + 1
        /\ \A k \in 1..(nelem + 1) : q[k] = IF k = nelem + 1 THEN v ELSE Contents[k]
    BY <1>1
  <2>4. \A k \in 1..(nelem + 1) : c[k] = IF k = nelem + 1 THEN v ELSE Contents[k]
    <3> SUFFICES ASSUME NEW k \in 1..(nelem + 1)
                 PROVE  c[k] = IF k = nelem + 1 THEN v ELSE Contents[k]
      OBVIOUS
    <3>1. CASE k = nelem + 1
      <4>1. k - 1 = nelem
        BY <1>1, <3>1
      <4> QED
        BY <1>2, <2>1, <2>2, <3>1, <4>1
    <3>2. CASE k # nelem + 1
      <4>1. k \in 1..nelem /\ k - 1 # nelem /\ k - 1 \in Indices
        BY <1>1, <1>2, <3>2, ArrayTypes
      <4> QED
        BY <1>1, <1>2, <2>2, <3>2, <4>1
    <3> QED
      BY <3>1, <3>2
  <2>5. c \in Seq(Value) /\ Len(c) = nelem + 1
    <3>1. nelem + 1 \in Nat
      BY <1>1
    <3>2. \A k \in 1..(nelem + 1) : c[k] \in Value
      <4>1. \A k \in 1..(nelem + 1) : k # nelem + 1 => Contents[k] \in Value
        BY <1>1
      <4> QED
        BY <2>4, <4>1
    <3> QED
      BY <3>1, <3>2
  <2>6. Contents' = c
    BY <1>3, <2>1
  <2> HIDE DEF c, q
  <2>7. c = q
    BY <1>1, <2>3, <2>4, <2>5, SeqEqual
  <2>8. Contents' = Append(Contents, v)
    BY <2>6, <2>7 DEF q
  <2>9. Len(Contents) < NAlloc
    BY <1>1, <1>2, <2>1, ArrayTypes
  <2> QED
    BY <2>8, <2>9 DEF StackSpec!Push
<1>5. ASSUME NEW v \in Value, NEW idx \in Indices, array_add(idx, v)
      PROVE  Contents' = Contents \/ \E k \in DOMAIN Contents : StackSpec!Overwrite(k, v)
  <2>1. nelem' = nelem /\ idx \in Indices /\ data' = [data EXCEPT ![idx] = v]
    BY <1>2, <1>5, ArrayTypes DEF array_add
  <2>2. Contents' = [k \in 1..nelem |-> data'[k - 1]]
    BY <1>3, <2>1
  <2>3. Contents = [k \in 1..nelem |-> data[k - 1]]
    BY DEF Contents
  <2>4. \A k \in 1..nelem : data'[k - 1] = IF k - 1 = idx THEN v ELSE data[k - 1]
    BY <1>1, <1>2, <2>1, ArrayTypes
  <2>5. CASE idx < nelem
    <3>1. idx + 1 \in 1..nelem
      BY <1>1, <2>5, IndexValue
    <3>2. \A k \in 1..nelem : k - 1 = idx <=> k = idx + 1
      BY <2>1, ArrayTypes
    <3>3. Contents' = [Contents EXCEPT ![idx + 1] = v]
      BY <2>2, <2>3, <2>4, <3>1, <3>2
    <3> QED
      BY <1>1, <3>1, <3>3 DEF StackSpec!Overwrite
  <2>6. CASE ~(idx < nelem)
    <3>1. \A k \in 1..nelem : data'[k - 1] = data[k - 1]
      BY <1>1, <2>1, <2>4, <2>6, ArrayTypes
    <3> QED
      BY <2>2, <2>3, <3>1
  <2> QED
    BY <2>5, <2>6
<1>6. ASSUME array_pop PROVE StackSpec!Pop
  <2>1. nelem # 0 /\ nelem' = nelem - 1 /\ data' = data /\ nelem - 1 \in Nat
    BY <1>1, <1>6 DEF array_pop
  <2> DEFINE q == SubSeq(Contents, 1, nelem - 1)
             c == [k \in 1..(nelem - 1) |-> data[k - 1]]
  <2>2. q \in Seq(Value) /\ Len(q) = nelem - 1 /\ \A k \in 1..(nelem - 1) : q[k] = Contents[k]
    BY <1>1, <2>1
  <2>3. \A k \in 1..(nelem - 1) : k \in 1..nelem /\ c[k] = Contents[k] /\ c[k] \in Value
    <3> SUFFICES ASSUME NEW k \in 1..(nelem - 1)
                 PROVE  k \in 1..nelem /\ c[k] = Contents[k] /\ c[k] \in Value
      OBVIOUS
    <3>1. k \in 1..nelem
      BY <1>1
    <3>2. Contents[k] = data[k - 1] /\ Contents[k] \in Value
      BY <1>1, <3>1
    <3> QED
      BY <3>1, <3>2
  <2>4. c \in Seq(Value) /\ Len(c) = nelem - 1
    BY <2>1, <2>3
  <2>5. Contents' = c
    BY <1>3, <2>1
  <2> HIDE DEF c, q
  <2>6. c = q
    BY <2>1, <2>2, <2>3, <2>4, SeqEqual
  <2>7. Contents # <<>>
    BY <1>1, <2>1
  <2>8. Contents' = SubSeq(Contents, 1, Len(Contents) - 1)
    BY <1>1, <2>5, <2>6 DEF q
  <2> QED
    BY <2>7, <2>8 DEF StackSpec!Pop, StackSpec!Front
<1>7. ASSUME nelem' = 0 PROVE StackSpec!Clear
  <2>1. Contents' = [k \in 1..0 |-> data'[k - 1]]
    BY <1>3, <1>7
  <2> QED
    BY <2>1 DEF StackSpec!Clear
<1>8. ASSUME UNCHANGED <<nelem, data>> PROVE Contents' = Contents
  BY <1>8 DEF Contents
<1>9. CASE \E v \in Value : array_push(v) \/ \E idx \in Indices : array_add(idx, v)
  BY <1>4, <1>5, <1>9 DEF StackSpec!Next
<1>10. CASE array_sort
  BY <1>10, SortRefines DEF StackSpec!Next
<1>11. CASE array_pop
  BY <1>6, <1>11 DEF StackSpec!Next
<1>12. CASE array_free \/ array_setup
  BY <1>7, <1>12 DEF StackSpec!Next, array_free, array_setup
<1>13. CASE PushRefused \/ AddNothing \/ EachStart \/ EachNext \/ EachEnd
  BY <1>8, <1>13 DEF PushRefused, AddNothing, EachStart, EachNext, EachEnd, arrayVars
<1> QED
  BY <1>9, <1>10, <1>11, <1>12, <1>13 DEF ArrayNext

\* The array is a stack whose elements can be overwritten and sorted, for every capacity
\* and through every restart of the program (cmn_array.c:33-142).
THEOREM IsStack == SegmentSpec => ImplementsStack
<1>1. SegmentInit => StackSpec!Init
  BY DEF SegmentInit, ArrayInit, Contents, StackSpec!Init
<1>2. ArrayOK /\ [SegmentNext]_allVars => [StackSpec!Next]_Contents
  <2> SUFFICES ASSUME ArrayOK, [SegmentNext]_allVars PROVE [StackSpec!Next]_Contents
    OBVIOUS
  <2>1. CASE ArrayNext
    BY <2>1, StackCalls
  <2>2. CASE array_setup
    <3>1. Contents' = <<>>
      BY <2>2 DEF array_setup, Contents
    <3> QED
      BY <3>1 DEF StackSpec!Next, StackSpec!Clear
  <2>3. CASE UNCHANGED <<nelem, data>>
    BY <2>3 DEF Contents
  <2> QED
    BY <2>1, <2>2, <2>3, ArraySteps DEF RestartUsers, arrayVars
<1> QED
  BY <1>1, <1>2, ArrayInvariant, PTL DEF SegmentSpec, allVars, ImplementsStack, StackSpec!Spec
===============================================================================
