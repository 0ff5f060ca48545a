--------------------------- MODULE EventLoopProofs ---------------------------
(***************************************************************************)
(* Proofs about EventLoop for any descriptors, pointers and conditions and *)
(* for batches of every size: what a callback is told has a cause, and its *)
(* pointer was registered when the batch was fetched, whatever callbacks   *)
(* of the same batch register and unregister.                              *)
(***************************************************************************)
EXTENDS EventLoop, FiniteSetTheorems, SequenceTheorems, TLAPS

-------------------------------------------------------------------------------
(* The inductive invariant. *)

Interest == [events : {"IN", "OUT"}, ptr : Ptr]

LoopTypeOK ==
  /\ interest \in [Fd -> Interest \cup {Unregistered}]
  /\ cond \in [Fd -> SUBSET Condition]
  /\ order \in Seq(Fd)
  /\ pc \in {"none", "idle", "poll", "callback"}

\* epoll has each registered descriptor in its queue, once, and no other one.
Lists(seq, D) ==
  /\ \A j, k \in 1..Len(seq) : seq[j] = seq[k] => j = k
  /\ D = {seq[k] : k \in 1..Len(seq)}

ListsRegistered == Lists(order, {fd \in Fd : Registered(fd)})

\* The events of the batch, those still to be handed over included: each is what held of
\* its descriptor, as far as epoll was asked for it or it is a hangup.
BatchIsCurrent ==
  pc = "callback" =>
    /\ nreturned \in 1..NEvent /\ i \in 1..nreturned
    /\ \A k \in 1..nreturned :
         /\ \/ \E fd \in Fd : Registered(fd) /\ interest[fd].ptr = arr[k].ptr
            \/ arr[k].ptr \in moved
         /\ \E x \in {"IN", "OUT"} : arr[k].events = seen[k] \cap {x, "HUP"}
         /\ arr[k].events # {}

LoopInv == LoopTypeOK /\ ListsRegistered /\ BatchIsCurrent

-------------------------------------------------------------------------------
(* Only.  The library's theorems on induction take an operator, which the provers *)
(* cannot instantiate; a set of numbers does as well.                             *)

\* A set with 0, and with the number after each of its own, has every number up to n.
LEMMA SetInduction ==
  ASSUME NEW n \in Nat, NEW P, 0 \in P,
         \A k \in 0..(n - 1) : k \in P => k + 1 \in P
  PROVE  0..n \subseteq P
<1> DEFINE T == {S \in SUBSET (0..n) : \E k \in 0..n : k \notin P /\ S = 0..k}
           R == StrictSubsetOrdering(0..n)
<1> SUFFICES ASSUME NEW m \in 0..n, m \notin P PROVE FALSE
  OBVIOUS
<1>1. T # {} /\ T \subseteq FiniteSubsetsOf(0..n)
  <2>1. 0..m \in T
    OBVIOUS
  <2>2. ASSUME NEW S \in T PROVE S \in FiniteSubsetsOf(0..n)
    BY FS_Interval DEF FiniteSubsetsOf
  <2> QED
    BY <2>1, <2>2
<1>2. IsWellFoundedOn(R, FiniteSubsetsOf(0..n))
  BY FS_StrictSubsetOrderingWellFounded
<1>3. PICK S \in T : \A U \in T : <<U, S>> \notin R
  <2> HIDE DEF T, R
  <2> QED
    BY <1>1, <1>2, WFMin
<1>4. PICK k \in 0..n : k \notin P /\ S = 0..k
  BY <1>3
<1>5. k # 0 /\ k - 1 \in 0..(n - 1) /\ k - 1 \notin P
  BY <1>4
<1>6. 0..(k - 1) \in T
  BY <1>5
<1>7. <<0..(k - 1), S>> \in R
  <2>1. 0..(k - 1) \subseteq S /\ k \in S /\ k \notin 0..(k - 1) /\ S \subseteq 0..n
    BY <1>4, <1>5
  <2> QED
    BY <2>1 DEF StrictSubsetOrdering
<1> QED
  BY <1>3, <1>6, <1>7

\* The first m elements of a sequence that are in a set, by recursion over m.
IsUpto(f, seq, S, m) ==
  f = [n \in 0..m |-> IF n = 0 THEN <<>>
                      ELSE IF seq[n] \in S THEN Append(f[n - 1], seq[n]) ELSE f[n - 1]]

LEMMA UptoExists ==
  ASSUME NEW seq, NEW S, NEW m \in Nat
  PROVE  \E f : IsUpto(f, seq, S, m)
<1> DEFINE P == {n \in 0..m : \E f : IsUpto(f, seq, S, n)}
           next(f, n) == IF seq[n + 1] \in S THEN Append(f[n], seq[n + 1]) ELSE f[n]
<1>1. 0 \in P
  <2> DEFINE f == [n \in 0..0 |-> <<>>]
  <2>1. IsUpto(f, seq, S, 0)
    BY DEF IsUpto
  <2> QED
    BY <2>1
<1>2. ASSUME NEW n \in 0..(m - 1), n \in P PROVE n + 1 \in P
  <2>1. PICK f : IsUpto(f, seq, S, n)
    BY <1>2
  <2> DEFINE g == [k \in 0..(n + 1) |-> IF k = n + 1 THEN next(f, n) ELSE f[k]]
             h == [k \in 0..(n + 1) |->
                     IF k = 0 THEN <<>>
                     ELSE IF seq[k] \in S THEN Append(g[k - 1], seq[k]) ELSE g[k - 1]]
  <2>2. ASSUME NEW k \in 0..(n + 1) PROVE g[k] = h[k]
    <3>1. CASE k = n + 1
      <4>1. g[n + 1] = next(f, n) /\ g[n] = f[n] /\ k # 0 /\ k - 1 = n
        BY <3>1
      <4> QED
        BY <3>1, <4>1
    <3>2. CASE k # n + 1
      <4>1. k \in 0..n /\ g[k] = f[k]
        BY <3>2
      <4>2. CASE k = 0
        BY <2>1, <4>1, <4>2 DEF IsUpto
      <4>3. CASE k # 0
        <5>1. k - 1 \in 0..n /\ g[k - 1] = f[k - 1]
          BY <4>1, <4>3
        <5>2. f[k] = IF seq[k] \in S THEN Append(f[k - 1], seq[k]) ELSE f[k - 1]
          BY <2>1, <4>1, <4>3 DEF IsUpto
        <5> QED
          BY <4>1, <4>3, <5>1, <5>2
      <4> QED
        BY <4>2, <4>3
    <3> QED
      BY <3>1, <3>2
  <2>3. g = h
    BY <2>2
  <2>4. IsUpto(g, seq, S, n + 1)
    BY <2>3 DEF IsUpto
  <2> QED
    BY <2>4
<1> HIDE DEF P
<1>3. 0..m \subseteq P
  BY <1>1, <1>2, SetInduction
<1> QED
  BY <1>3 DEF P

\* s has the elements among the first n of seq that are in S, and g says where.
Picks(s, g, seq, S, n) ==
  /\ g \in [1..Len(s) -> 1..n]
  /\ \A j \in 1..Len(s) : s[j] = seq[g[j]] /\ s[j] \in S
  /\ \A j, k \in 1..Len(s) : j < k => g[j] < g[k]
  /\ \A k \in 1..n : seq[k] \in S => \E j \in 1..Len(s) : g[j] = k

\* One more element that is in S goes to the end.
LEMMA PickOne ==
  ASSUME NEW T, NEW seq \in Seq(T), NEW S, NEW n \in Nat, n + 1 \in 1..Len(seq),
         NEW s \in Seq(T), NEW g, Picks(s, g, seq, S, n), seq[n + 1] \in S
  PROVE  \E h : Picks(Append(s, seq[n + 1]), h, seq, S, n + 1)
<1> DEFINE t == Append(s, seq[n + 1])
           h == [j \in 1..(Len(s) + 1) |-> IF j = Len(s) + 1 THEN n + 1 ELSE g[j]]
<1>1. Len(s) \in Nat /\ seq[n + 1] \in T
  BY LenProperties, ElementOfSeq
<1>2. /\ t \in Seq(T) /\ Len(t) = Len(s) + 1
      /\ t[Len(s) + 1] = seq[n + 1]
      /\ \A j \in 1..Len(s) : t[j] = s[j]
  BY <1>1, AppendProperties
<1>3. /\ h \in [1..(Len(s) + 1) -> 1..(n + 1)]
      /\ h[Len(s) + 1] = n + 1
      /\ \A j \in 1..Len(s) : h[j] = g[j]
  BY <1>1 DEF Picks
<1> HIDE DEF t, h
<1>4. \A j \in 1..Len(s) : g[j] \in 1..n
  BY DEF Picks
<1>5. \A j \in 1..Len(t) : t[j] = seq[h[j]] /\ t[j] \in S
  <2> SUFFICES ASSUME NEW j \in 1..(Len(s) + 1) PROVE t[j] = seq[h[j]] /\ t[j] \in S
    BY <1>2
  <2>1. CASE j = Len(s) + 1
    BY <1>2, <1>3, <2>1
  <2>2. CASE j # Len(s) + 1
    <3>1. j \in 1..Len(s)
      BY <1>1, <2>2
    <3> QED
      BY <1>2, <1>3, <3>1 DEF Picks
  <2> QED
    BY <2>1, <2>2
<1>6. \A j, k \in 1..Len(t) : j < k => h[j] < h[k]
  <2> SUFFICES ASSUME NEW j \in 1..(Len(s) + 1), NEW k \in 1..(Len(s) + 1), j < k
               PROVE  h[j] < h[k]
    BY <1>2
  <2>1. j \in 1..Len(s)
    BY <1>1
  <2>2. CASE k = Len(s) + 1
    BY <1>3, <1>4, <2>1, <2>2
  <2>3. CASE k # Len(s) + 1
    <3>1. k \in 1..Len(s)
      BY <1>1, <2>3
    <3> QED
      BY <1>3, <2>1, <3>1 DEF Picks
  <2> QED
    BY <2>2, <2>3
<1>7. \A k \in 1..(n + 1) : seq[k] \in S => \E j \in 1..Len(t) : h[j] = k
  <2> SUFFICES ASSUME NEW k \in 1..(n + 1), seq[k] \in S
               PROVE  \E j \in 1..(Len(s) + 1) : h[j] = k
    BY <1>2
  <2>1. CASE k = n + 1
    BY <1>1, <1>3, <2>1
  <2>2. CASE k # n + 1
    <3>1. k \in 1..n
      BY <2>2
    <3>2. PICK j \in 1..Len(s) : g[j] = k
      BY <3>1 DEF Picks
    <3>3. j \in 1..(Len(s) + 1) /\ h[j] = k
      BY <1>1, <1>3, <3>2
    <3> QED
      BY <3>3
  <2> QED
    BY <2>1, <2>2
<1>8. Picks(t, h, seq, S, n + 1)
  BY <1>2, <1>3, <1>5, <1>6, <1>7 DEF Picks
<1> QED
  BY <1>8 DEF t

\* One that is not is passed over.
LEMMA PassOne ==
  ASSUME NEW T, NEW seq \in Seq(T), NEW S, NEW n \in Nat, n + 1 \in 1..Len(seq),
         NEW s \in Seq(T), NEW g, Picks(s, g, seq, S, n), seq[n + 1] \notin S
  PROVE  Picks(s, g, seq, S, n + 1)
<1>1. 1..n \subseteq 1..(n + 1) /\ \A k \in 1..(n + 1) : k = n + 1 \/ k \in 1..n
  OBVIOUS
<1> QED
  BY <1>1 DEF Picks

\* Only(seq, S): the elements of seq that are in S, each where and as often as in seq.
LEMMA OnlyValue ==
  ASSUME NEW T, NEW seq \in Seq(T), NEW S
  PROVE  /\ Only(seq, S) \in Seq(T)
         /\ \E g : Picks(Only(seq, S), g, seq, S, Len(seq))
<1> DEFINE m == Len(seq)
           Step(f) == [n \in 0..m |-> IF n = 0 THEN <<>>
                         ELSE IF seq[n] \in S THEN Append(f[n - 1], seq[n]) ELSE f[n - 1]]
           u == CHOOSE f : f = Step(f)
           P == {n \in 0..m : u[n] \in Seq(T) /\ \E g : Picks(u[n], g, seq, S, n)}
<1>1. m \in Nat
  BY LenProperties
<1>2. Only(seq, S) = u[m]
  BY DEF Only
<1>3. u = Step(u)
  <2>1. PICK f : IsUpto(f, seq, S, m)
    BY <1>1, UptoExists
  <2>2. f = Step(f)
    BY <2>1 DEF IsUpto
  <2> HIDE DEF Step
  <2> QED
    BY <2>2
<1>4. \A n \in 0..m : u[n] = IF n = 0 THEN <<>>
                             ELSE IF seq[n] \in S THEN Append(u[n - 1], seq[n]) ELSE u[n - 1]
  <2> HIDE DEF u
  <2> QED
    BY <1>3
<1> HIDE DEF u
<1>5. 0 \in P
  <2>1. 0 \in 0..m /\ u[0] = <<>> /\ u[0] \in Seq(T) /\ Len(u[0]) = 0
    <3>1. 0 \in 0..m
      BY <1>1
    <3>2. u[0] = <<>>
      BY <1>4, <3>1
    <3> QED
      BY <3>1, <3>2, EmptySeq
  <2>2. Picks(u[0], [j \in 1..0 |-> 1], seq, S, 0)
    BY <2>1 DEF Picks
  <2>3. \E g : Picks(u[0], g, seq, S, 0)
    BY <2>2
  <2> QED
    BY <2>1, <2>3
<1>6. ASSUME NEW n \in 0..(m - 1), n \in P PROVE n + 1 \in P
  <2>1. /\ n + 1 \in 1..m /\ n + 1 \in 0..m /\ n \in Nat /\ (n + 1) - 1 = n
    BY <1>1
  <2>2. u[n] \in Seq(T)
    BY <1>6
  <2>3. PICK g : Picks(u[n], g, seq, S, n)
    BY <1>6
  <2> HIDE DEF m
  <2>4. CASE seq[n + 1] \in S
    <3>1. u[n + 1] = Append(u[n], seq[n + 1])
      <4>1. n + 1 # 0
        BY <2>1
      <4>2. u[n + 1] = IF seq[n + 1] \in S THEN Append(u[(n + 1) - 1], seq[n + 1])
                                           ELSE u[(n + 1) - 1]
        BY <1>4, <2>1, <4>1
      <4> QED
        BY <2>1, <2>4, <4>2
    <3>2. seq[n + 1] \in T
      BY <2>1, ElementOfSeq DEF m
    <3>3. u[n + 1] \in Seq(T)
      BY <2>2, <3>1, <3>2, AppendProperties
    <3>4. \E h : Picks(u[n + 1], h, seq, S, n + 1)
      BY <2>1, <2>2, <2>3, <2>4, <3>1, PickOne DEF m
    <3> QED
      BY <2>1, <3>3, <3>4
  <2>5. CASE seq[n + 1] \notin S
    <3>1. u[n + 1] = u[n]
      BY <1>4, <2>1, <2>5
    <3>2. Picks(u[n + 1], g, seq, S, n + 1)
      BY <2>1, <2>2, <2>3, <2>5, <3>1, PassOne DEF m
    <3> QED
      BY <2>1, <2>2, <3>1, <3>2
  <2> QED
    BY <2>4, <2>5
<1>7. 0..m \subseteq P
  <2> HIDE DEF P, m
  <2> QED
    BY <1>1, <1>5, <1>6, SetInduction
<1>8. m \in P
  BY <1>1, <1>7
<1> QED
  BY <1>2, <1>8 DEF P

-------------------------------------------------------------------------------
(* The queue of epoll lists a set: each of its members once. *)

LEMMA ListsMembers ==
  ASSUME NEW s, NEW D, \A j, k \in 1..Len(s) : s[j] = s[k] => j = k,
         \A x \in D : \E k \in 1..Len(s) : s[k] = x,
         \A k \in 1..Len(s) : s[k] \in D
  PROVE  Lists(s, D)
<1>1. D = {s[k] : k \in 1..Len(s)}
  OBVIOUS
<1> QED
  BY <1>1 DEF Lists

LEMMA OnlyLists ==
  ASSUME NEW T, NEW seq \in Seq(T), NEW D, Lists(seq, D), NEW S
  PROVE  Only(seq, S) \in Seq(T) /\ Lists(Only(seq, S), D \cap S)
<1> DEFINE s == Only(seq, S)
<1>1. s \in Seq(T)
  BY OnlyValue
<1>2. PICK g : Picks(s, g, seq, S, Len(seq))
  BY OnlyValue
<1> HIDE DEF s
<1>3. Len(s) \in Nat /\ Len(seq) \in Nat
  BY <1>1, LenProperties
<1>4. ASSUME NEW j \in 1..Len(s), NEW k \in 1..Len(s), s[j] = s[k]
      PROVE  j = k
  <2>1. g[j] \in 1..Len(seq) /\ g[k] \in 1..Len(seq) /\ seq[g[j]] = seq[g[k]]
    BY <1>2, <1>4 DEF Picks
  <2>2. g[j] = g[k]
    BY <2>1 DEF Lists
  <2>3. ~(j < k) /\ ~(k < j)
    BY <1>2, <2>1, <2>2 DEF Picks
  <2> QED
    BY <1>3, <2>3
<1>5. ASSUME NEW x \in D \cap S PROVE \E j \in 1..Len(s) : s[j] = x
  <2>1. PICK k \in 1..Len(seq) : seq[k] = x
    BY DEF Lists
  <2>2. PICK j \in 1..Len(s) : g[j] = k
    BY <1>2, <2>1 DEF Picks
  <2> QED
    BY <1>2, <2>1, <2>2 DEF Picks
<1>6. ASSUME NEW j \in 1..Len(s) PROVE s[j] \in D \cap S
  BY <1>2 DEF Picks, Lists
<1>7. Lists(s, D \cap S)
  BY <1>4, <1>5, <1>6, ListsMembers
<1> QED
  BY <1>1, <1>7 DEF s

LEMMA AppendLists ==
  ASSUME NEW T, NEW seq \in Seq(T), NEW D, Lists(seq, D), NEW x \in T, x \notin D
  PROVE  Append(seq, x) \in Seq(T) /\ Lists(Append(seq, x), D \cup {x})
<1> DEFINE s == Append(seq, x)
<1>1. Len(seq) \in Nat
  BY LenProperties
<1>2. /\ s \in Seq(T) /\ Len(s) = Len(seq) + 1 /\ s[Len(seq) + 1] = x
      /\ \A k \in 1..Len(seq) : s[k] = seq[k]
  BY AppendProperties
<1> HIDE DEF s
<1>3. \A k \in 1..Len(s) : k = Len(seq) + 1 \/ k \in 1..Len(seq)
  BY <1>1, <1>2
<1>4. \A k \in 1..Len(seq) : s[k] \in D /\ s[k] # x
  BY <1>2 DEF Lists
<1>5. \A j, k \in 1..Len(s) : s[j] = s[k] => j = k
  BY <1>2, <1>3, <1>4 DEF Lists
<1>6. ASSUME NEW y \in D \cup {x} PROVE \E k \in 1..Len(s) : s[k] = y
  <2>1. CASE y = x
    BY <1>1, <1>2, <2>1
  <2>2. CASE y \in D
    <3>1. PICK k \in 1..Len(seq) : seq[k] = y
      BY <2>2 DEF Lists
    <3>2. k \in 1..Len(s) /\ s[k] = y
      BY <1>1, <1>2, <3>1
    <3> QED
      BY <3>2
  <2> QED
    BY <2>1, <2>2
<1>7. \A k \in 1..Len(s) : s[k] \in D \cup {x}
  BY <1>2, <1>3, <1>4
<1>8. Lists(s, D \cup {x})
  BY <1>5, <1>6, <1>7, ListsMembers
<1> QED
  BY <1>2, <1>8 DEF s

LEMMA ConcatLists ==
  ASSUME NEW T, NEW s \in Seq(T), NEW t \in Seq(T), NEW D, NEW E,
         Lists(s, D), Lists(t, E), D \cap E = {}
  PROVE  s \o t \in Seq(T) /\ Lists(s \o t, D \cup E)
<1> DEFINE c == s \o t
<1>1. Len(s) \in Nat /\ Len(t) \in Nat
  BY LenProperties
<1>2. /\ c \in Seq(T) /\ Len(c) = Len(s) + Len(t)
      /\ \A k \in 1..(Len(s) + Len(t)) : c[k] = IF k <= Len(s) THEN s[k] ELSE t[k - Len(s)]
  BY ConcatProperties
<1> HIDE DEF c
<1>3. \A k \in 1..Len(c) : k \in 1..Len(s) \/ k - Len(s) \in 1..Len(t)
  BY <1>1, <1>2
<1>4. \A k \in 1..Len(s) : c[k] = s[k] /\ c[k] \in D /\ k \in 1..Len(c)
  BY <1>1, <1>2 DEF Lists
<1>5. \A k \in 1..Len(t) : /\ c[k + Len(s)] = t[k] /\ c[k + Len(s)] \in E
                           /\ k + Len(s) \in 1..Len(c)
  <2> SUFFICES ASSUME NEW k \in 1..Len(t)
               PROVE  /\ c[k + Len(s)] = t[k] /\ t[k] \in E
                      /\ k + Len(s) \in 1..Len(c)
    OBVIOUS
  <2>1. k + Len(s) \in 1..(Len(s) + Len(t)) /\ ~(k + Len(s) <= Len(s)) /\ (k + Len(s)) - Len(s) = k
    BY <1>1
  <2>2. c[k + Len(s)] = t[k]
    BY <1>2, <2>1
  <2> QED
    BY <1>2, <2>1, <2>2 DEF Lists
<1>6. ASSUME NEW j \in 1..Len(c), NEW k \in 1..Len(c), c[j] = c[k]
      PROVE  j = k
  <2>1. CASE j \in 1..Len(s)
    <3>1. CASE k \in 1..Len(s)
      BY <1>4, <1>6, <2>1, <3>1 DEF Lists
    <3>2. CASE k - Len(s) \in 1..Len(t)
      <4>1. (k - Len(s)) + Len(s) = k
        BY <1>1
      <4>2. c[k] \in E /\ c[j] \in D
        BY <1>4, <1>5, <2>1, <3>2, <4>1
      <4> QED
        BY <1>6, <4>2
    <3> QED
      BY <1>3, <3>1, <3>2
  <2>2. CASE j - Len(s) \in 1..Len(t)
    <3>1. (j - Len(s)) + Len(s) = j
      BY <1>1
    <3>2. c[j] \in E /\ c[j] = t[j - Len(s)]
      BY <1>5, <2>2, <3>1
    <3>3. CASE k \in 1..Len(s)
      BY <1>4, <1>6, <3>2, <3>3
    <3>4. CASE k - Len(s) \in 1..Len(t)
      <4>1. (k - Len(s)) + Len(s) = k
        BY <1>1
      <4>2. c[k] = t[k - Len(s)]
        BY <1>5, <3>4, <4>1
      <4>3. j - Len(s) = k - Len(s)
        BY <1>6, <2>2, <3>2, <3>4, <4>2 DEF Lists
      <4> QED
        BY <1>1, <4>3
    <3> QED
      BY <1>3, <3>3, <3>4
  <2> QED
    BY <1>3, <2>1, <2>2
<1>7. ASSUME NEW x \in D \cup E PROVE \E k \in 1..Len(c) : c[k] = x
  <2>1. CASE x \in D
    BY <1>4, <2>1 DEF Lists
  <2>2. CASE x \in E
    <3>1. PICK k \in 1..Len(t) : t[k] = x
      BY <2>2 DEF Lists
    <3> QED
      BY <1>5, <3>1
  <2> QED
    BY <2>1, <2>2
<1>8. ASSUME NEW k \in 1..Len(c) PROVE c[k] \in D \cup E
  <2>1. CASE k \in 1..Len(s)
    BY <1>4, <2>1
  <2>2. CASE k - Len(s) \in 1..Len(t)
    <3>1. (k - Len(s)) + Len(s) = k
      BY <1>1
    <3> QED
      BY <1>5, <2>2, <3>1
  <2> QED
    BY <1>3, <2>1, <2>2
<1>9. Lists(c, D \cup E)
  BY <1>6, <1>7, <1>8, ListsMembers
<1> QED
  BY <1>2, <1>9 DEF c

\* What epoll_wait fetches: some of the registered descriptors that are ready, once each.
LEMMA FetchedValue ==
  ASSUME LoopTypeOK, ListsRegistered
  PROVE  /\ Fetched \in Seq(Fd) /\ Len(Fetched) \in 0..NEvent
         /\ Lists(Fetched, {Fetched[k] : k \in 1..Len(Fetched)})
         /\ \A k \in 1..Len(Fetched) :
              Registered(Fetched[k]) /\ Reported(Fetched[k]) # {}
<1> DEFINE D == {fd \in Fd : Registered(fd)}
           S == {fd \in Fd : Reported(fd) # {}}
           n == IF Len(ReadyList) < NEvent THEN Len(ReadyList) ELSE NEvent
<1>1. ReadyList \in Seq(Fd) /\ Lists(ReadyList, D \cap S)
  <2> HIDE DEF S
  <2>1. order \in Seq(Fd) /\ Lists(order, D)
    BY DEF LoopTypeOK, ListsRegistered
  <2> HIDE DEF D
  <2>2. Only(order, S) \in Seq(Fd) /\ Lists(Only(order, S), D \cap S)
    BY <2>1, OnlyLists
  <2> QED
    BY <2>2 DEF ReadyList, S
<1>2. Len(ReadyList) \in Nat /\ n \in 0..Len(ReadyList) /\ n \in 0..NEvent
  BY <1>1, EventAssumption, LenProperties
<1>3. Fetched = SubSeq(ReadyList, 1, n)
  BY DEF Fetched
<1> HIDE DEF n
<1>4. /\ Fetched \in Seq(Fd) /\ Len(Fetched) = n
      /\ \A k \in 1..n : Fetched[k] = ReadyList[k]
  <2> DEFINE r == ReadyList
  <2>1. r \in Seq(Fd) /\ n \in 0..Len(r)
    BY <1>1, <1>2
  <2> HIDE DEF r
  <2>2. /\ SubSeq(r, 1, n) \in Seq(Fd) /\ Len(SubSeq(r, 1, n)) = n
        /\ \A k \in 1..n : SubSeq(r, 1, n)[k] = r[k]
    BY <1>2, <2>1, SubSeqProperties
  <2> QED
    BY <1>3, <2>2 DEF r
<1>5. ASSUME NEW j \in 1..n, NEW k \in 1..n, Fetched[j] = Fetched[k]
      PROVE  j = k
  BY <1>1, <1>2, <1>4, <1>5 DEF Lists
<1>6. ASSUME NEW k \in 1..n
      PROVE  Registered(Fetched[k]) /\ Reported(Fetched[k]) # {}
  <2>1. Fetched[k] = ReadyList[k] /\ k \in 1..Len(ReadyList)
    BY <1>2, <1>4
  <2>2. Fetched[k] \in D \cap S
    BY <1>1, <2>1 DEF Lists
  <2> QED
    BY <2>2
<1>7. Lists(Fetched, {Fetched[k] : k \in 1..Len(Fetched)})
  BY <1>4, <1>5 DEF Lists
<1> QED
  BY <1>2, <1>4, <1>6, <1>7

-------------------------------------------------------------------------------
(* The steps. *)

LEMMA InitLoopInv == Init => LoopInv
<1> SUFFICES ASSUME Init PROVE LoopInv
  OBVIOUS
<1>1. LoopTypeOK
  BY EmptySeq DEF Init, LoopTypeOK
<1>2. ListsRegistered
  <2>1. {fd \in Fd : Registered(fd)} = {} /\ order = <<>> /\ Len(<<>>) = 0
    BY EmptySeq DEF Init, Registered
  <2> QED
    BY <2>1, ListsMembers DEF ListsRegistered
<1>3. BatchIsCurrent
  BY DEF Init, BatchIsCurrent
<1> QED
  BY <1>1, <1>2, <1>3 DEF LoopInv

\* A registration goes to the end of the queue; no pointer loses its own.
LEMMA AddKeeps ==
  ASSUME LoopInv, NEW fd \in Fd, NEW p \in Ptr, NEW events \in {"IN", "OUT"},
         Add(fd, events, p)
  PROVE  LoopInv'
<1> DEFINE D == {f \in Fd : Registered(f)}
           entry == [events |-> events, ptr |-> p]
<1>1. /\ ~Registered(fd) /\ interest' = [interest EXCEPT ![fd] = entry]
      /\ order' = Append(order, fd)
      /\ UNCHANGED <<cond, pc, arr, nreturned, i, moved, seen>>
  BY DEF Add, waitVars, batchVars
<1>2. entry \in Interest /\ entry # Unregistered
  BY DEF Interest, Unregistered
<1>3. /\ interest' \in [Fd -> Interest \cup {Unregistered}]
      /\ interest'[fd] = entry
      /\ \A f \in Fd \ {fd} : interest'[f] = interest[f]
  BY <1>1, <1>2 DEF LoopInv, LoopTypeOK
<1>4. {f \in Fd : Registered(f)'} = D \cup {fd}
  BY <1>2, <1>3 DEF Registered
<1>5. order \in Seq(Fd) /\ Lists(order, D) /\ fd \notin D
  BY <1>1 DEF LoopInv, LoopTypeOK, ListsRegistered
<1> HIDE DEF D
<1>6. order' \in Seq(Fd) /\ Lists(order', D \cup {fd})
  BY <1>1, <1>5, AppendLists
<1>7. LoopTypeOK'
  BY <1>1, <1>3, <1>6 DEF LoopInv, LoopTypeOK
<1>8. ListsRegistered'
  BY <1>4, <1>6 DEF ListsRegistered
<1>9. BatchIsCurrent'
  <2>1. \A f \in Fd : Registered(f) => Registered(f)' /\ interest'[f] = interest[f]
    BY <1>1, <1>3 DEF Registered
  <2> QED
    BY <1>1, <2>1 DEF LoopInv, BatchIsCurrent
<1> QED
  BY <1>7, <1>8, <1>9 DEF LoopInv

\* A registration goes away; in a callback its pointer is remembered.
LEMMA DelKeeps ==
  ASSUME LoopInv, NEW fd \in Fd, event_del(fd)
  PROVE  LoopInv'
<1> DEFINE D == {f \in Fd : Registered(f)}
           S == Fd \ {fd}
<1>1. /\ interest' = [interest EXCEPT ![fd] = Unregistered]
      /\ order' = Only(order, S)
      /\ moved' = IF pc = "callback" THEN moved \cup {interest[fd].ptr} ELSE moved
      /\ UNCHANGED <<cond, pc, arr, nreturned, i, seen>>
  BY DEF event_del, Forget, waitVars
<1>2. /\ interest' \in [Fd -> Interest \cup {Unregistered}]
      /\ interest'[fd] = Unregistered
      /\ \A f \in Fd \ {fd} : interest'[f] = interest[f]
  BY <1>1 DEF LoopInv, LoopTypeOK
<1>3. {f \in Fd : Registered(f)'} = D \cap S
  BY <1>2 DEF Registered
<1>4. order \in Seq(Fd) /\ Lists(order, D)
  BY DEF LoopInv, LoopTypeOK, ListsRegistered
<1> HIDE DEF D, S
<1>5. order' \in Seq(Fd) /\ Lists(order', D \cap S)
  BY <1>1, <1>4, OnlyLists
<1>6. LoopTypeOK'
  BY <1>1, <1>2, <1>5 DEF LoopInv, LoopTypeOK
<1>7. ListsRegistered'
  BY <1>3, <1>5 DEF ListsRegistered
<1>8. BatchIsCurrent'
  <2> SUFFICES ASSUME pc = "callback" PROVE BatchIsCurrent'
    BY <1>1 DEF BatchIsCurrent
  <2> SUFFICES ASSUME NEW k \in 1..nreturned
               PROVE  \/ \E f \in Fd : Registered(f)' /\ interest'[f].ptr = arr[k].ptr
                      \/ arr[k].ptr \in moved'
    BY <1>1 DEF LoopInv, BatchIsCurrent
  <2>1. CASE arr[k].ptr \in moved
    BY <1>1, <2>1
  <2>2. CASE arr[k].ptr \notin moved
    <3>1. PICK f \in Fd : Registered(f) /\ interest[f].ptr = arr[k].ptr
      BY <2>2 DEF LoopInv, BatchIsCurrent
    <3>2. CASE f = fd
      BY <1>1, <3>1, <3>2
    <3>3. CASE f # fd
      BY <1>2, <3>1, <3>3 DEF Registered
    <3> QED
      BY <3>2, <3>3
  <2> QED
    BY <2>1, <2>2
<1> QED
  BY <1>6, <1>7, <1>8 DEF LoopInv

\* A new batch: its events are those of descriptors that are registered and ready.
LEMMA PollKeeps ==
  ASSUME LoopInv, PollEvents
  PROVE  LoopInv'
<1> DEFINE D == {f \in Fd : Registered(f)}
           R == {Fetched[k] : k \in DOMAIN Fetched}
           E == {Fetched[k] : k \in 1..Len(Fetched)}
           kept == Only(order, Fd \ R)
<1>1. /\ order' = kept \o Fetched /\ nreturned' = Len(Fetched) /\ i' = 1
      /\ pc' = "callback" /\ Fetched # <<>>
      /\ seen' = [k \in DOMAIN Fetched |-> cond[Fetched[k]]]
      /\ UNCHANGED <<interest, cond>>
  BY DEF PollEvents
<1>2. /\ Fetched \in Seq(Fd) /\ Len(Fetched) \in 1..NEvent
      /\ Lists(Fetched, E)
      /\ \A k \in 1..Len(Fetched) :
           Registered(Fetched[k]) /\ Reported(Fetched[k]) # {} /\ Fetched[k] \in Fd
  <2>1. /\ Fetched \in Seq(Fd) /\ Len(Fetched) \in 0..NEvent /\ Lists(Fetched, E)
        /\ \A k \in 1..Len(Fetched) : Registered(Fetched[k]) /\ Reported(Fetched[k]) # {}
    BY FetchedValue DEF LoopInv
  <2>2. Len(Fetched) # 0
    BY <1>1, <2>1, EmptySeq
  <2>3. \A k \in 1..Len(Fetched) : Fetched[k] \in Fd
    BY <2>1, ElementOfSeq
  <2> QED
    BY <2>1, <2>2, <2>3, EventAssumption
<1>0. DOMAIN Fetched = 1..Len(Fetched)
  BY <1>2, LenProperties
<1>3. R = E
  BY <1>0
<1>4. E \subseteq D
  BY <1>2
<1>5. /\ order \in Seq(Fd) /\ Lists(order, D)
  BY DEF LoopInv, LoopTypeOK, ListsRegistered
<1>6. D = (D \cap (Fd \ R)) \cup E /\ (D \cap (Fd \ R)) \cap E = {}
  BY <1>3, <1>4
<1> HIDE DEF D, R, E
<1>7. kept \in Seq(Fd) /\ Lists(kept, D \cap (Fd \ R))
  BY <1>5, OnlyLists
<1> HIDE DEF kept
<1>8. order' \in Seq(Fd) /\ Lists(order', D)
  <2> DEFINE F == Fetched
             K == D \cap (Fd \ R)
  <2>1. F \in Seq(Fd) /\ Lists(F, E) /\ Lists(kept, K) /\ K \cap E = {}
    BY <1>2, <1>6, <1>7
  <2> HIDE DEF F, K
  <2>2. kept \o F \in Seq(Fd) /\ Lists(kept \o F, K \cup E)
    BY <1>7, <2>1, ConcatLists
  <2> QED
    BY <1>1, <1>6, <2>2 DEF F, K
<1>9. LoopTypeOK'
  BY <1>1, <1>8 DEF LoopInv, LoopTypeOK
<1>10. ListsRegistered'
  BY <1>1, <1>8 DEF ListsRegistered, Registered, D
<1>11. ASSUME NEW k \in 1..Len(Fetched)
       PROVE  /\ \E f \in Fd : Registered(f) /\ interest[f].ptr = arr'[k].ptr
              /\ \E x \in {"IN", "OUT"} : arr'[k].events = seen'[k] \cap {x, "HUP"}
              /\ arr'[k].events # {}
  <2>1. arr'[k] = [ptr |-> interest[Fetched[k]].ptr, events |-> Reported(Fetched[k])]
    <3>1. k \in 1..NEvent /\ k <= Len(Fetched)
      BY <1>2, EventAssumption
    <3>2. arr' = [j \in 1..NEvent |->
                    IF j <= Len(Fetched)
                    THEN [ptr |-> interest[Fetched[j]].ptr, events |-> Reported(Fetched[j])]
                    ELSE arr[j]]
      BY DEF PollEvents
    <3> QED
      BY <3>1, <3>2
  <2>2. seen'[k] = cond[Fetched[k]]
    BY <1>1, <1>0
  <2>3. Reported(Fetched[k]) = cond[Fetched[k]] \cap {interest[Fetched[k]].events, "HUP"}
    BY <1>2 DEF Reported
  <2>4. interest[Fetched[k]].events \in {"IN", "OUT"}
    BY <1>2 DEF LoopInv, LoopTypeOK, Registered, Interest
  <2> QED
    BY <1>2, <2>1, <2>2, <2>3, <2>4
<1>12. BatchIsCurrent'
  <2> DEFINE n == Len(Fetched)
  <2>1. \A k \in 1..n : /\ \E f \in Fd : Registered(f) /\ interest[f].ptr = arr'[k].ptr
                        /\ \E x \in {"IN", "OUT"} : arr'[k].events = seen'[k] \cap {x, "HUP"}
                        /\ arr'[k].events # {}
    BY ONLY <1>11
  <2>2. nreturned' = n /\ n \in 1..NEvent /\ i' = 1 /\ interest' = interest
    BY <1>1, <1>2
  <2> HIDE DEF n
  <2>3. i' \in 1..n
    BY <2>2, EventAssumption
  <2> QED
    BY <2>1, <2>2, <2>3 DEF BatchIsCurrent, Registered
<1> QED
  BY <1>9, <1>10, <1>12 DEF LoopInv

LEMMA NextKeepsLoop ==
  ASSUME LoopInv, [Next]_vars
  PROVE  LoopInv'
<1> USE DEF LoopInv, LoopTypeOK
<1>1. ASSUME UNCHANGED <<interest, order>>, cond' \in [Fd -> SUBSET Condition],
             pc' \in {"none", "idle", "poll", "callback"}, BatchIsCurrent'
      PROVE  LoopInv'
  BY <1>1 DEF ListsRegistered, Registered
<1>2. CASE event_base_create
  BY <1>1, <1>2 DEF event_base_create, epollVars, BatchIsCurrent
<1>3. CASE CreateFails \/ UNCHANGED vars
  BY <1>3 DEF CreateFails, vars, ListsRegistered, Registered, BatchIsCurrent
<1>4. CASE event_base_destroy
  <2>1. /\ interest' = [fd \in Fd |-> Unregistered] /\ order' = <<>> /\ pc' = "none"
        /\ cond' = cond
    BY <1>4 DEF event_base_destroy
  <2>2. {fd \in Fd : Registered(fd)'} = {} /\ order' \in Seq(Fd) /\ Len(order') = 0
    BY <2>1, EmptySeq DEF Registered
  <2>3. ListsRegistered'
    BY <2>2, ListsMembers DEF ListsRegistered
  <2> QED
    BY <2>1, <2>2, <2>3 DEF BatchIsCurrent
<1>5. ASSUME NEW fd \in Fd, NEW p \in Ptr, event_add_read(fd, p) \/ event_add_write(fd, p)
      PROVE  LoopInv'
  <2> HIDE DEF LoopInv, LoopTypeOK
  <2> QED
    BY <1>5, AddKeeps DEF event_add_read, event_add_write
<1>6. ASSUME NEW fd \in Fd, AddExisting(fd) \/ DelMissing(fd)
      PROVE  LoopInv'
  BY <1>6 DEF AddExisting, DelMissing, vars, ListsRegistered, Registered, BatchIsCurrent
<1>7. ASSUME NEW fd \in Fd, event_del(fd)
      PROVE  LoopInv'
  BY <1>7, DelKeeps
<1>8. ASSUME NEW t \in Timeouts \cup {Forever}, Wait(t)
      PROVE  LoopInv'
  BY <1>1, <1>8 DEF Wait, epollVars, BatchIsCurrent
<1>9. CASE PollEvents
  BY <1>9, PollKeeps
<1>10. CASE PollTimeout \/ PollError
  BY <1>1, <1>10 DEF PollTimeout, PollError, Returns, epollVars, BatchIsCurrent
<1>11. CASE Tick \/ PollInterrupted
  BY <1>1, <1>11 DEF Tick, PollInterrupted, epollVars, batchVars, BatchIsCurrent
<1>12. CASE CallbackReturns
  <2>1. CASE i < nreturned
    BY <1>1, <1>12, <2>1 DEF CallbackReturns, epollVars, batchVars, BatchIsCurrent, Registered
  <2>2. CASE ~(i < nreturned)
    BY <1>1, <1>12, <2>2 DEF CallbackReturns, Returns, epollVars, BatchIsCurrent
  <2> QED
    BY <2>1, <2>2
<1>13. ASSUME NEW fd \in Fd, NEW c \in Conds, Change(fd, c)
       PROVE  LoopInv'
  BY <1>1, <1>13, EventAssumption DEF Change, waitVars, batchVars, BatchIsCurrent, Registered
<1> HIDE DEF LoopInv, LoopTypeOK
<1> QED
  BY <1>2, <1>3, <1>4, <1>5, <1>6, <1>7, <1>8, <1>9, <1>10, <1>11, <1>12, <1>13
     DEF Next, AppStep, LoopStep

-------------------------------------------------------------------------------
(* The theorems. *)

\* For any descriptors, pointers and batches: epoll's queue lists each registered
\* descriptor once, and each event of a batch has a cause and a pointer of its time.
THEOREM Invariance == Spec => []LoopInv
BY InitLoopInv, NextKeepsLoop, PTL DEF Spec

\* A callback gets a pointer that is registered, or that lost its registration to a
\* callback of the same batch; never one left in the array by an earlier wait.
THEOREM PointersCurrent == Spec => []NoOldPointer
<1>1. LoopInv => NoOldPointer
  BY DEF LoopInv, BatchIsCurrent, NoOldPointer, CallbackPtr
<1> QED
  BY <1>1, Invariance, PTL

\* A callback is told to read or write only what could be read or written when the batch
\* was fetched, and of a hangup if and only if there was one (cmn_event.c:182-203).
THEOREM CallbacksCaused == Spec => []CallbackHasCause
<1>1. LoopInv => CallbackHasCause
  <2> SUFFICES ASSUME LoopInv, pc = "callback"
               PROVE  /\ CallbackEvents # {}
                      /\ "EVENT_READ" \in CallbackEvents => "IN" \in seen[i]
                      /\ "EVENT_WRITE" \in CallbackEvents => "OUT" \in seen[i]
                      /\ "EVENT_ERR" \in CallbackEvents <=> "HUP" \in seen[i]
    BY DEF CallbackHasCause
  <2> DEFINE events == arr[i].events
             were == seen[i]
  <2>1. PICK x \in {"IN", "OUT"} : events = were \cap {x, "HUP"} /\ events # {}
    BY DEF LoopInv, BatchIsCurrent
  <2>2. CallbackEvents = Mask(events)
    BY DEF CallbackEvents
  <2> HIDE DEF events
  <2>3. /\ "EVENT_ERR" \in Mask(events) <=> "HUP" \in events
        /\ "EVENT_READ" \in Mask(events) <=> "IN" \in events
        /\ "EVENT_WRITE" \in Mask(events) <=> "OUT" \in events
    BY DEF Mask
  <2> QED
    BY <2>1, <2>2, <2>3
<1> QED
  BY <1>1, Invariance, PTL
=============================================================================
