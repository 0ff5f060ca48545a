----------------------------- MODULE ProcessProofs -----------------------------
(***************************************************************************)
(* Proofs about what a process has besides its buffers and connections:    *)
(* its configuration (Conf), its pid file and segment (Pidfile, which is   *)
(* about Shm too) and its metrics (ProcInfo).  The three do not interact;  *)
(* each has a section of its own.                                          *)
(***************************************************************************)
EXTENDS Pidfile, ProcInfo, Conf, FiniteSetTheorems, SequenceTheorems, TLAPS

-------------------------------------------------------------------------------
(* The configuration: the search through the file.                           *)

Starts(n) == IsHeader(lines[n]) /\ lines[n].name = section
Sets(n) == lines[n].kind = "setting" /\ lines[n].key = key

\* The section was entered at its first header, line h, and neither it nor the search
\* has ended since.
EnteredAt(h) ==
  /\ h \in 1..pos
  /\ Starts(h)
  /\ \A n \in 1..(h - 1) : ~Starts(n)
  /\ \A n \in (h + 1)..pos : ~IsHeader(lines[n]) /\ ~Sets(n)

ConfTypeOK ==
  /\ lines \in Seq(Line)
  /\ pos \in 0..Len(lines)
  /\ length \in Nat
  /\ section_found \in BOOLEAN /\ missing \in BOOLEAN

SearchOK ==
  IF section_found THEN \E h \in 1..pos : EnteredAt(h) ELSE \A n \in 1..pos : ~Starts(n)

\* FindsTheSetting is about a call that has returned, SearchOK about one under way.
ConfInv == ConfTypeOK /\ FindsTheSetting /\ (ret = "none" => SearchOK)

LEMMA SmallestIs ==
  ASSUME NEW S \in SUBSET Nat, NEW x \in S, \A y \in S : x <= y
  PROVE  Min(S) = x
<1>1. Min(S) \in S /\ Min(S) <= x
  BY DEF Min
<1>2. Min(S) \in Nat /\ x \in Nat /\ x <= Min(S)
  BY <1>1
<1> QED
  BY <1>1, <1>2

LEMMA TextIsSeq ==
  ASSUME NEW t \in Text
  PROVE  Len(t) \in Nat /\ t \in Seq({t[n] : n \in DOMAIN t})
BY ConfAssumption, LenProperties

\* What the section is, once the search has entered it.
LEMMA BodyIs ==
  ASSUME ConfTypeOK, NEW h, EnteredAt(h)
  PROVE  Body = {n \in 1..Len(lines) : n > h /\ \A j \in (h + 1)..n : ~IsHeader(lines[j])}
<1> DEFINE starts == {n \in Headers : lines[n].name = section}
<1>1. DOMAIN lines = 1..Len(lines) /\ Len(lines) \in Nat /\ h \in 1..Len(lines)
  BY LenProperties DEF ConfTypeOK, EnteredAt
<1>2. \A n : n \in starts <=> n \in 1..Len(lines) /\ Starts(n)
  BY <1>1 DEF Headers, Starts
<1>3. h \in starts /\ starts \subseteq Nat /\ \A n \in starts : h <= n
  <2>1. ASSUME NEW n \in 1..Len(lines), Starts(n) PROVE h <= n
    BY <1>1, <2>1 DEF EnteredAt
  <2> QED
    BY <1>1, <1>2, <2>1 DEF EnteredAt
<1>4. Body = IF starts = {} THEN {}
             ELSE {n \in DOMAIN lines :
                     n > Min(starts) /\ ~\E j \in Headers : j > Min(starts) /\ j <= n}
  BY DEF Body
<1> HIDE DEF starts
<1>5. Min(starts) = h
  BY <1>3, SmallestIs
<1>6. Body = {n \in 1..Len(lines) : n > h /\ ~\E j \in Headers : j > h /\ j <= n}
  BY <1>1, <1>3, <1>4, <1>5
<1>7. ASSUME NEW n \in 1..Len(lines)
      PROVE  (\E j \in Headers : j > h /\ j <= n)
               <=> (\E j \in (h + 1)..n : IsHeader(lines[j]))
  BY <1>1 DEF Headers
<1> QED
  BY <1>6, <1>7

LEMMA SkipKeeps ==
  ASSUME ConfInv, Skip
  PROVE  ConfInv'
<1>1. /\ ret = "none" /\ pos' = pos + 1 /\ pos + 1 \in 1..Len(lines)
      /\ UNCHANGED <<lines, missing, section, key, length, section_found, data, ret>>
      /\ section_found => ~IsHeader(Current) /\ (Current.kind = "setting" => Current.key # key)
      /\ ~section_found => ~(IsHeader(Current) /\ Current.name = section)
  BY LenProperties DEF Skip, Compared, Reading, IsHeader, ConfInv, ConfTypeOK
<1>2. ConfTypeOK'
  BY <1>1, LenProperties DEF ConfInv, ConfTypeOK
<1>3. SearchOK'
  <2>1. CASE ~section_found
    <3>1. \A n \in 1..pos : ~Starts(n)
      BY <1>1, <2>1 DEF ConfInv, SearchOK
    <3>2. ~Starts(pos + 1)
      BY <1>1, <2>1 DEF Starts, Current
    <3>3. \A n \in 1..(pos + 1) : n \in 1..pos \/ n = pos + 1
      BY DEF ConfInv, ConfTypeOK
    <3> QED
      BY <1>1, <2>1, <3>1, <3>2, <3>3 DEF SearchOK, Starts
  <2>2. CASE section_found
    <3>1. PICK h \in 1..pos : EnteredAt(h)
      BY <1>1, <2>2 DEF ConfInv, SearchOK
    <3>2. ~IsHeader(lines[pos + 1]) /\ ~Sets(pos + 1)
      BY <1>1, <2>2 DEF Current, Sets
    <3>3. \A n \in (h + 1)..(pos + 1) : n \in (h + 1)..pos \/ n = pos + 1
      BY <3>1 DEF ConfInv, ConfTypeOK
    <3>4. h \in 1..(pos + 1)
      BY <3>1 DEF ConfInv, ConfTypeOK
    <3>5. EnteredAt(h)'
      BY <1>1, <3>1, <3>2, <3>3, <3>4 DEF EnteredAt, Starts, Sets
    <3> QED
      BY <1>1, <2>2, <3>4, <3>5 DEF SearchOK
  <2> QED
    BY <2>1, <2>2
<1> QED
  BY <1>1, <1>2, <1>3 DEF ConfInv, FindsTheSetting

LEMMA SectionStartsKeeps ==
  ASSUME ConfInv, SectionStarts
  PROVE  ConfInv'
<1>1. /\ ret = "none" /\ pos' = pos + 1 /\ pos + 1 \in 1..Len(lines)
      /\ section_found' = TRUE /\ ~section_found /\ Starts(pos + 1)
      /\ UNCHANGED <<lines, missing, section, key, length, data, ret>>
  BY LenProperties DEF SectionStarts, Reading, ConfInv, ConfTypeOK, Starts, Current
<1>2. ConfTypeOK'
  BY <1>1, LenProperties DEF ConfInv, ConfTypeOK
<1>3. PICK h \in Nat : h = pos + 1
  BY DEF ConfInv, ConfTypeOK
<1>4. \A n \in 1..(h - 1) : ~Starts(n)
  <2>1. h - 1 = pos
    BY <1>3 DEF ConfInv, ConfTypeOK
  <2> QED
    BY <1>1, <2>1 DEF ConfInv, SearchOK
<1>5. h \in 1..pos' /\ \A n \in (h + 1)..pos' : FALSE
  BY <1>1, <1>3 DEF ConfInv, ConfTypeOK
<1>6. EnteredAt(h)'
  BY <1>1, <1>3, <1>4, <1>5 DEF EnteredAt, Starts, Sets
<1>7. SearchOK'
  BY <1>1, <1>5, <1>6 DEF SearchOK
<1> QED
  BY <1>1, <1>2, <1>7 DEF ConfInv, FindsTheSetting

\* In the section, the line that is compared belongs to its body.
LEMMA ComparedInBody ==
  ASSUME ConfInv, Compared, section_found
  PROVE  /\ pos + 1 \in Body
         /\ \A n \in Body : lines[n].kind = "setting" /\ lines[n].key = key => pos + 1 <= n
<1>1. ret = "none" /\ pos + 1 \in 1..Len(lines) /\ ~IsHeader(lines[pos + 1])
  BY LenProperties DEF Compared, Reading, IsHeader, ConfInv, ConfTypeOK, Current
<1>2. PICK h \in 1..pos : EnteredAt(h)
  BY <1>1 DEF ConfInv, SearchOK
<1>3. Body = {n \in 1..Len(lines) : n > h /\ \A j \in (h + 1)..n : ~IsHeader(lines[j])}
  BY <1>2, BodyIs DEF ConfInv
<1>4. pos + 1 \in Body
  <2>1. \A j \in (h + 1)..(pos + 1) : j \in (h + 1)..pos \/ j = pos + 1
    BY <1>2 DEF ConfInv, ConfTypeOK
  <2>2. pos + 1 > h
    BY <1>2 DEF ConfInv, ConfTypeOK
  <2> QED
    BY <1>1, <1>2, <1>3, <2>1, <2>2 DEF EnteredAt
<1>5. ASSUME NEW n \in Body, Sets(n)
      PROVE  pos + 1 <= n
  <2>1. n \in 1..Len(lines) /\ n > h
    BY <1>3
  <2>2. n \notin (h + 1)..pos
    BY <1>2, <1>5 DEF EnteredAt
  <2> QED
    BY <1>2, <2>1, <2>2 DEF ConfInv, ConfTypeOK
<1> QED
  BY <1>4, <1>5 DEF Sets

\* A line compared before the section is a header, whose key begins with '['.
LEMMA ComparedInHeader ==
  ASSUME ConfInv, Compared, ~section_found
  PROVE  pos + 1 \in Headers /\ Current.key \in Bracketed
<1>1. pos + 1 \in DOMAIN lines /\ Current.kind = "header=" /\ lines[pos + 1] \in Line
  BY LenProperties, ElementOfSeq DEF Compared, Reading, ConfInv, ConfTypeOK, Current
<1> QED
  BY <1>1 DEF Headers, IsHeader, Line, Current

\* What is copied of a value is as much of it as fits.
LEMMA CopyFits ==
  ASSUME ConfTypeOK, NEW t \in Text
  PROVE  /\ IsPrefix(Copied(t), t)
         /\ IF length = NoLimit THEN Copied(t) = t
            ELSE Len(Copied(t)) = Min({length - 1, Len(t)})
<1>0. Len(t) \in Nat /\ t \in Seq({t[n] : n \in DOMAIN t})
  BY TextIsSeq
<1>1. length = NoLimit \/ length \in Nat \ {0}
  BY DEF ConfTypeOK, NoLimit
<1>2. CASE length = NoLimit
  BY <1>0, <1>2 DEF Copied, IsPrefix
<1>3. CASE length # NoLimit /\ length > Len(t)
  <2>1. Copied(t) = t
    BY <1>3 DEF Copied
  <2>2. Min({length - 1, Len(t)}) = Len(t)
    <3>1. {length - 1, Len(t)} \in SUBSET Nat /\ Len(t) <= length - 1
      BY <1>0, <1>1, <1>3
    <3>2. \A y \in {length - 1, Len(t)} : Len(t) <= y
      BY <1>0, <3>1
    <3> QED
      BY <3>1, <3>2, SmallestIs
  <2> QED
    BY <1>0, <1>3, <2>1, <2>2 DEF IsPrefix
<1>4. CASE length # NoLimit /\ ~(length > Len(t))
  <2> DEFINE n == length - 1
             c == SubSeq(t, 1, n)
  <2>1. Copied(t) = c
    BY <1>4 DEF Copied
  <2>2. n \in 0..Len(t)
    BY <1>0, <1>1, <1>4
  <2>3. Min({length - 1, Len(t)}) = n
    <3>1. {n, Len(t)} \in SUBSET Nat /\ \A y \in {n, Len(t)} : n <= y
      BY <1>0, <2>2
    <3> HIDE DEF n
    <3>2. Min({n, Len(t)}) = n
      BY <3>1, SmallestIs
    <3> QED
      BY <3>2 DEF n
  <2> HIDE DEF n
  <2>4. /\ c \in Seq({t[q] : q \in DOMAIN t}) /\ Len(c) = n
        /\ \A j \in 1..n : c[j] = t[j]
    BY <1>0, <2>2, SubSeqProperties
  <2>5. SubSeq(c, 1, n) = c
    <3> HIDE DEF c
    <3>1. n \in 0..Len(c) /\ n \in Nat
      BY <2>2, <2>4
    <3>2. /\ SubSeq(c, 1, n) \in Seq({t[q] : q \in DOMAIN t}) /\ Len(SubSeq(c, 1, n)) = n
          /\ \A j \in 1..n : SubSeq(c, 1, n)[j] = c[j]
      BY <2>4, <3>1, SubSeqProperties
    <3> QED
      BY <2>4, <3>2, SeqEqual
  <2>6. IsPrefix(c, t)
    BY <1>0, <2>2, <2>4, <2>5 DEF IsPrefix
  <2> QED
    BY <1>4, <2>1, <2>3, <2>4, <2>6
<1> QED
  BY <1>2, <1>3, <1>4

\* The search ends at the first setting of the key in the section.
LEMMA KeyFoundKeeps ==
  ASSUME ConfInv, KeyFound
  PROVE  ConfInv'
<1> DEFINE t == Current.text
<1>1. /\ Compared /\ ret = "none" /\ Current.key = key /\ pos + 1 \in 1..Len(lines)
      /\ data' = Copied(t) /\ ret' = "CMN_OK"
      /\ UNCHANGED <<lines, missing, section, key, length, pos, section_found>>
  BY LenProperties DEF KeyFound, Compared, Reading, ConfInv, ConfTypeOK, Current
<1>2. ConfTypeOK'
  BY <1>1 DEF ConfInv, ConfTypeOK
<1>3. CASE ~section_found
  <2>1. key \in Bracketed
    BY <1>1, <1>3, ComparedInHeader
  <2> QED
    BY <1>1, <1>2, <2>1 DEF ConfInv, FindsTheSetting
<1>4. CASE section_found
  <2>1. Current.kind = "setting" /\ pos + 1 \in Body
    BY <1>1, <1>4, ComparedInBody DEF Compared
  <2>2. pos + 1 \in Settings
    BY <1>1, <2>1 DEF Settings, Current
  <2>3. \A n \in Settings : pos + 1 <= n
    BY <1>1, <1>4, ComparedInBody DEF Settings
  <2>4. Settings \subseteq Nat
    BY LenProperties DEF Settings, Body, ConfInv, ConfTypeOK
  <2>5. Min(Settings) = pos + 1
    BY <2>2, <2>3, <2>4, SmallestIs
  <2>6. Value = t /\ Settings # {}
    BY <2>2, <2>5 DEF Value, Current
  <2>7. t \in Text
    <3>1. lines[pos + 1] \in Line
      BY <1>1, ElementOfSeq DEF ConfInv, ConfTypeOK
    <3> QED
      BY <2>1, <3>1 DEF Line, Current
  <2> HIDE DEF t
  <2>8. /\ IsPrefix(Copied(t), t)
        /\ IF length = NoLimit THEN Copied(t) = t
           ELSE Len(Copied(t)) = Min({length - 1, Len(t)})
    BY <2>7, CopyFits DEF ConfInv
  <2>9. Settings' = Settings /\ Value' = Value
    BY <1>1 DEF Settings, Value, Body, Headers
  <2>10. FindsTheSetting'
    BY <1>1, <2>6, <2>8, <2>9 DEF FindsTheSetting
  <2> QED
    BY <1>1, <1>2, <2>10 DEF ConfInv
<1> QED
  BY <1>3, <1>4

\* It ends as well where a buffer is too short.
LEMMA OverrunKeeps ==
  ASSUME ConfInv, Overrun
  PROVE  ConfInv'
<1>1. /\ Compared /\ ret = "none" /\ ret' = "overrun" /\ TooLong(pos + 1)
      /\ UNCHANGED <<lines, missing, section, key, length, pos, section_found>>
  BY DEF Overrun, Compared, Reading, TooLong, Current
<1>2. pos + 1 \in Body \cup Headers
  BY <1>1, ComparedInBody, ComparedInHeader
<1>3. (pos + 1 \in Body \cup Headers)' /\ TooLong(pos + 1)'
  BY <1>1, <1>2 DEF Body, Headers, TooLong
<1> QED
  BY <1>1, <1>3 DEF ConfInv, ConfTypeOK, FindsTheSetting

\* It ends without one at the end of the file or of the section.
LEMMA NotFoundKeeps ==
  ASSUME ConfInv, NotFound
  PROVE  ConfInv'
<1>1. /\ ret = "none" /\ data' = Defval /\ ret' = "CMN_NOKEY"
      /\ pos < Len(lines) => section_found /\ IsHeader(lines[pos + 1])
      /\ UNCHANGED <<lines, missing, section, key, length, pos, section_found>>
  BY DEF NotFound, Current
<1>2. Len(lines) \in Nat /\ DOMAIN lines = 1..Len(lines) /\ pos \in 0..Len(lines)
  BY LenProperties DEF ConfInv, ConfTypeOK
<1>3. Settings = {}
  <2>1. CASE ~section_found
    <3>1. \A n \in 1..Len(lines) : ~Starts(n)
      BY <1>1, <1>2, <2>1 DEF ConfInv, SearchOK
    <3>2. {n \in Headers : lines[n].name = section} = {}
      BY <1>2, <3>1 DEF Headers, Starts
    <3> QED
      BY <3>2 DEF Settings, Body
  <2>2. CASE section_found
    <3>1. PICK h \in 1..pos : EnteredAt(h)
      BY <1>1, <2>2 DEF ConfInv, SearchOK
    <3>2. Body = {n \in 1..Len(lines) : n > h /\ \A j \in (h + 1)..n : ~IsHeader(lines[j])}
      BY <3>1, BodyIs DEF ConfInv
    <3>3. ASSUME NEW n \in Settings PROVE FALSE
      <4>1. /\ n \in 1..Len(lines) /\ n > h /\ Sets(n)
            /\ \A j \in (h + 1)..n : ~IsHeader(lines[j])
        BY <3>2 DEF Settings, Sets
      <4>2. n \notin (h + 1)..pos
        BY <3>1, <4>1 DEF EnteredAt
      <4>3. pos < n /\ pos + 1 \in (h + 1)..n
        BY <1>2, <3>1, <4>1, <4>2
      <4>4. IsHeader(lines[pos + 1])
        BY <1>1, <1>2, <4>1, <4>3
      <4> QED
        BY <4>1, <4>3, <4>4
    <3> QED
      BY <3>3
  <2> QED
    BY <2>1, <2>2 DEF ConfInv, ConfTypeOK
<1>4. Settings' = Settings
  BY <1>1 DEF Settings, Body, Headers
<1>5. ConfTypeOK' /\ FindsTheSetting'
  BY <1>1, <1>3, <1>4 DEF ConfInv, ConfTypeOK, FindsTheSetting
<1> QED
  BY <1>1, <1>5 DEF ConfInv

LEMMA ConfNextKeeps ==
  ASSUME ConfInv, [ConfNext]_confVars
  PROVE  ConfInv'
<1>1. ASSUME NEW line \in FileLine, Write(line)
      PROVE  ConfInv'
  <2>1. /\ pos = 0 /\ ret = "none" /\ lines' = Append(lines, line)
        /\ UNCHANGED <<missing, section, key, length, pos, section_found, data, ret>>
    BY <1>1 DEF Write
  <2>2. Append(lines, line) \in Seq(Line) /\ Len(Append(lines, line)) \in Nat
    BY ConfAssumption, AppendProperties, LenProperties DEF ConfInv, ConfTypeOK
  <2>3. ConfTypeOK'
    BY <2>1, <2>2 DEF ConfInv, ConfTypeOK
  <2>4. ~section_found
    BY <2>1 DEF ConfInv, SearchOK
  <2>5. SearchOK'
    BY <2>1, <2>4 DEF SearchOK
  <2> QED
    BY <2>1, <2>3, <2>5 DEF ConfInv, FindsTheSetting
<1>2. CASE OpenFails
  BY <1>2 DEF OpenFails, ConfInv, ConfTypeOK, FindsTheSetting
<1>3. CASE UNCHANGED confVars
  <2>1. /\ Settings' = Settings /\ Value' = Value
        /\ (pos + 1 \in Body \cup Headers)' = (pos + 1 \in Body \cup Headers)
        /\ TooLong(pos + 1)' = TooLong(pos + 1)
    BY <1>3 DEF confVars, Settings, Value, Body, Headers, TooLong
  <2>2. ConfTypeOK' /\ FindsTheSetting'
    BY <1>3, <2>1 DEF confVars, ConfInv, ConfTypeOK, FindsTheSetting
  <2>3. SearchOK => SearchOK'
    BY <1>3 DEF confVars, SearchOK, EnteredAt, Starts, Sets
  <2> QED
    BY <1>3, <2>2, <2>3 DEF confVars, ConfInv
<1> QED
  BY <1>1, <1>2, <1>3, SkipKeeps, SectionStartsKeeps, KeyFoundKeeps, OverrunKeeps, NotFoundKeeps
     DEF ConfNext

\* For every file, every section and length, and every key that does not begin with '[':
\* the first setting of the key in the first section of the name is found and no other,
\* whole or as much of it as fits, unless the search comes to a key or value that is too
\* long for the buffers of the code.
THEOREM SettingFound == ConfSpec => []FindsTheSetting
<1>1. ConfInit => ConfInv
  <2> SUFFICES ASSUME ConfInit PROVE ConfInv
    OBVIOUS
  <2>1. lines \in Seq(Line) /\ Len(lines) = 0 /\ pos = 0
    BY EmptySeq DEF ConfInit
  <2>2. ConfTypeOK
    <3>1. pos \in 0..Len(lines)
      BY <2>1
    <3> QED
      BY <2>1, <3>1, ConfAssumption DEF ConfInit, ConfTypeOK
  <2>3. SearchOK /\ FindsTheSetting
    BY DEF ConfInit, SearchOK, FindsTheSetting
  <2> QED
    BY <2>2, <2>3 DEF ConfInv
<1>2. ConfInv /\ [ConfNext]_confVars => ConfInv'
  BY ConfNextKeeps
<1>3. ConfInv => FindsTheSetting
  BY DEF ConfInv
<1> QED
  BY <1>1, <1>2, <1>3, PTL DEF ConfSpec

-------------------------------------------------------------------------------
(* The segments.                                                             *)

\* NoLostMapping is not inductive alone: a process starts with the attachments that
\* the kernel has of it.
NoneLeftBehind == \A p \in Proc \ alive : mapped[p] = {}

\* What a sid leads to was made by the family of its process, unless it is segment 0.
\* An identifier is never used again, so a new segment takes no family away.
Kinship == \A p \in Proc : sid[p] > 0 => sid[p] <= segs /\ p \in family[sid[p]]

SegInv == TypeOK /\ NoLostMapping /\ NoneLeftBehind /\ Kinship

\* The kernel knows nothing of anybody at the start.
LEMMA InitSegInv == ShmInit => SegInv
BY ShmAssumption
   DEF ShmInit, SegInv, TypeOK, NoLostMapping, NoneLeftBehind, Kinship, Segs, NoSegment, Null, Failed

\* A call attaches the segment of its own sid to a process that has none, or takes
\* one away that addr leads to.
LEMMA CallKeepsSegInv ==
  ASSUME SegInv, NEW p \in Proc, ShmCall(p)
  PROVE  SegInv'
<1> USE ShmAssumption
    DEF SegInv, TypeOK, NoLostMapping, NoneLeftBehind, Kinship, Segs, NoSegment, Null, Failed
<1>1. CASE CreateOk(p)
  BY <1>1 DEF CreateOk
<1>2. CASE CreateFails(p)
  BY <1>2 DEF CreateFails
<1>7. CASE CreateNoKey(p)
  BY <1>7 DEF CreateNoKey
<1>3. CASE shm_attch(p)
  <2>1. /\ addr[p] = Null /\ mapped[p] = {} /\ sid[p] >= 0
        /\ UNCHANGED <<alive, called, sid, keyed, segs, removed, family, stuck>>
    BY <1>3 DEF shm_attch
  <2>2. CASE Exists(sid[p])
    <3>1. /\ addr' = [addr EXCEPT ![p] = sid[p]]
          /\ mapped' = [mapped EXCEPT ![p] = {sid[p]}]
          /\ sid[p] \in Segs \cup {0}
      BY <1>3, <2>1, <2>2 DEF shm_attch, Exists
    <3>2. TypeOK'
      BY <2>1, <3>1
    <3>3. NoLostMapping'
      <4>1. ASSUME NEW r \in alive, r # p
            PROVE  mapped'[r] = mapped[r] /\ addr'[r] = addr[r]
        BY <3>1, <4>1
      <4>2. mapped'[p] = {sid[p]} /\ addr'[p] = sid[p]
        BY <3>1
      <4> QED
        BY <2>1, <4>1, <4>2
    <3>5. NoneLeftBehind'
      BY <1>3, <2>1, <3>1 DEF shm_attch
    <3>4. Kinship'
      BY <2>1, <3>1
    <3> QED
      BY <3>2, <3>3, <3>4, <3>5
  <2>3. CASE ~Exists(sid[p])
    <3>1. addr' = [addr EXCEPT ![p] = Failed] /\ UNCHANGED mapped
      BY <1>3, <2>3 DEF shm_attch
    <3> QED
      BY <2>1, <3>1
  <2> QED
    BY <2>2, <2>3
<1>4. CASE AttachRefused(p)
  BY <1>4 DEF AttachRefused, shmVars
<1>5. CASE shm_detach(p)
  BY <1>5 DEF shm_detach
<1>6. CASE shm_remove(p)
  <2>0. p \in alive /\ mapped[p] \ {addr[p]} = {}
    BY <1>6 DEF shm_remove
  <2>1. /\ addr' \in [Proc -> Segs \cup {0, Null, Failed}]
        /\ mapped' = [mapped EXCEPT ![p] = {}]
        /\ \A r \in Proc \ {p} : addr'[r] = addr[r]
        /\ UNCHANGED <<alive, called, sid, segs, family, stuck>>
    <3>1. PICK v \in {Null, addr[p]} : addr' = [addr EXCEPT ![p] = v]
      BY <1>6 DEF shm_remove
    <3>2. mapped' = [mapped EXCEPT ![p] = {}]
      BY <1>6, <2>0 DEF shm_remove
    <3>3. UNCHANGED <<alive, called, sid, segs, family, stuck>>
      BY <1>6 DEF shm_remove
    <3> QED
      BY <3>1, <3>2, <3>3
  <2>2. removed' \subseteq Segs \cup {0} /\ keyed' \in Segs \cup {NoSegment}
    <3>1. CASE Exists(sid[p])
      <4>1. sid[p] \in Segs \cup {0}
        BY <3>1 DEF Exists
      <4>2. /\ removed' = removed \cup {sid[p]}
            /\ keyed' \in {NoSegment, keyed}
        BY <1>6, <3>1 DEF shm_remove
      <4> QED
        BY <4>1, <4>2
    <3>2. CASE ~Exists(sid[p])
      BY <1>6, <3>2 DEF shm_remove
    <3> QED
      BY <3>1, <3>2
  <2>3. TypeOK' /\ NoneLeftBehind' /\ Kinship'
    BY <2>0, <2>1, <2>2
  <2>4. NoLostMapping'
    BY <2>1
  <2> QED
    BY <2>3, <2>4
<1> QED
  BY <1>1, <1>2, <1>3, <1>4, <1>5, <1>6, <1>7 DEF ShmCall

\* A process that starts or is forked has what its family had, one that exits nothing.
LEMMA ProcessKeepsSegInv ==
  ASSUME SegInv, NEW p \in Proc,
         Start(p) \/ Exit(p) \/ \E q \in Proc : Fork(p, q)
  PROVE  SegInv'
<1> USE ShmAssumption
    DEF SegInv, TypeOK, NoLostMapping, NoneLeftBehind, Kinship, Segs, NoSegment, Null, Failed
<1>1. CASE Start(p)
  BY <1>1 DEF Start
<1>2. CASE Exit(p)
  BY <1>2 DEF Exit
<1>3. ASSUME NEW q \in Proc, Fork(p, q)
      PROVE  SegInv'
  BY <1>3 DEF Fork
<1> QED
  BY <1>1, <1>2, <1>3

\* Every step of Pidfile is one of Shm, or leaves the segments alone.
LEMMA PidNextIsShm ==
  ASSUME [PidNext]_<<shmVars, pidVars>>
  PROVE  [ShmNext]_shmVars
BY DEF PidNext, ShmNext, PidfileCall, PidStat, PidRefused, PidOpen, PidOpenFails, PidWrite,
       PidWriteShort, PidWriteLost, PidWriteFails, pidfile_remove, Touch, PidExit, shmVars

LEMMA KeepsSegInv ==
  ASSUME SegInv, [ShmNext]_shmVars
  PROVE  SegInv'
<1>1. ASSUME NEW p \in Proc, ShmCall(p) \/ Start(p) \/ Exit(p) \/ \E q \in Proc : Fork(p, q)
      PROVE  SegInv'
  BY <1>1, CallKeepsSegInv, ProcessKeepsSegInv
<1>2. CASE UNCHANGED shmVars
  BY <1>2 DEF shmVars, SegInv, TypeOK, NoLostMapping, NoneLeftBehind, Kinship
<1> QED
  BY <1>1, <1>2 DEF ShmNext

\* The inductive invariant holds of every behaviour.
LEMMA AlwaysSegInv == PidSpec => []SegInv
<1>1. PidInit => SegInv
  BY InitSegInv DEF PidInit
<1>2. SegInv /\ [PidNext]_<<shmVars, pidVars>> => SegInv'
  BY PidNextIsShm, KeepsSegInv
<1> QED
  BY <1>1, <1>2, PTL DEF PidSpec

\* For any number of processes and segments, and whatever calls fail, are repeated, or
\* are cut short by a crash: what a process has attached is what its addr leads to, and
\* shm_detach and shm_remove give it back, unless a repeated shm_create failed while it
\* was attached.
THEOREM MappingsKept == PidSpec => []NoLostMapping
BY AlwaysSegInv, PTL DEF SegInv

\* What a step attaches or removes is what the sid of the process names, and that was made
\* by its family, or is segment 0.
LEMMA StepOnOwnSegments ==
  ASSUME SegInv, ShmNext
  PROVE  /\ \A p \in alive : \A s \in mapped'[p] \ mapped[p] :
               sid[p] = s /\ (s # 0 => p \in family[s])
         /\ \A s \in removed' \ removed :
               \E p \in alive : sid[p] = s /\ (s # 0 => p \in family[s])
<1>1. ASSUME NEW p \in Proc, p \in called, sid[p] >= 0
      PROVE  p \in alive /\ (sid[p] # 0 => p \in family[sid[p]])
  BY <1>1, ShmAssumption DEF SegInv, TypeOK, Kinship, Segs
<1>2. ASSUME NEW p \in alive, NEW s \in mapped'[p] \ mapped[p]
      PROVE  sid[p] = s /\ (s # 0 => p \in family[s])
  <2>1. PICK q \in Proc : ShmCall(q) \/ Start(q) \/ Exit(q) \/ \E r \in Proc : Fork(q, r)
    BY DEF ShmNext
  <2>2. p \in Proc /\ mapped \in [Proc -> SUBSET (Segs \cup {0})]
    BY DEF SegInv, TypeOK
  <2>3. shm_attch(q) /\ q = p
    BY <1>2, <2>1, <2>2
       DEF ShmCall, CreateOk, CreateFails, CreateNoKey, shm_attch, AttachRefused, shm_detach,
           shm_remove, Start, Exit, Fork, shmVars
  <2>4. p \in called /\ sid[p] >= 0 /\ s = sid[p]
    BY <1>2, <2>2, <2>3 DEF shm_attch
  <2> QED
    BY <1>1, <2>2, <2>4
<1>3. ASSUME NEW s \in removed' \ removed
      PROVE  \E p \in alive : sid[p] = s /\ (s # 0 => p \in family[s])
  <2>1. PICK p \in Proc : shm_remove(p)
    BY <1>3 DEF ShmNext, ShmCall, CreateOk, CreateFails, CreateNoKey, shm_attch, AttachRefused,
           shm_detach, Start, Exit, Fork, shmVars
  <2>2. p \in called /\ sid[p] >= 0 /\ s = sid[p]
    BY <1>3, <2>1 DEF shm_remove
  <2> QED
    BY <1>1, <2>2
<1> QED
  BY <1>2, <1>3

\* For any number of processes and segments: a process attaches and removes only what
\* its sid names, and nobody touches a segment that neither it nor a process it was
\* forked from created, other than segment 0.
THEOREM OwnSegmentsOnly == PidSpec => OnlyOwnSegments
<1> DEFINE Own ==
      /\ \A p \in alive : \A s \in mapped'[p] \ mapped[p] :
           sid[p] = s /\ (s # 0 => p \in family[s])
      /\ \A s \in removed' \ removed :
           \E p \in alive : sid[p] = s /\ (s # 0 => p \in family[s])
<1>1. SegInv /\ [PidNext]_<<shmVars, pidVars>> => [Own]_shmVars
  BY PidNextIsShm, StepOnOwnSegments
<1> QED
  BY <1>1, AlwaysSegInv, PTL DEF PidSpec, OnlyOwnSegments

-------------------------------------------------------------------------------
(* The pid file.                                                             *)

\* Unless calls have overlapped, the one that is past its stat is the only one, nobody
\* holds the file any more, and from its open on the file is empty.
OneCall ==
  ~clash =>
    \A p \in Proc : fpc[p] # "idle" =>
      /\ holds = {}
      /\ \A q \in Proc : fpc[q] # "idle" => q = p
      /\ fpc[p] # "unlinked"
      /\ fpc[p] = "write" => file = "empty"

PidTypeOK ==
  /\ fpc \in [Proc -> {"idle", "open", "write", "unlinked"}]
  /\ holds \subseteq Proc
  /\ file \in {"absent", "empty", "cut", "mixed"} \cup Proc

FileInv == PidTypeOK /\ OneCall /\ PidfileNamesHolder

LEMMA InitFileInv == PidInit => FileInv
BY DEF PidInit, FileInv, PidTypeOK, OneCall, PidfileNamesHolder

\* stat lets a call go on if the file is empty, and then nobody holds it, or if it is
\* to be replaced, and then nobody does any more.
LEMMA CallKeepsFileInv ==
  ASSUME FileInv, NEW p \in Proc, PidfileCall(p)
  PROVE  FileInv'
<1> USE PidfileAssumption DEF FileInv, PidTypeOK, OneCall, PidfileNamesHolder
<1>1. ASSUME NEW is_replace \in BOOLEAN, PidStat(p, is_replace)
      PROVE  FileInv'
  BY <1>1 DEF PidStat
<1>2. ASSUME NEW is_replace \in BOOLEAN, PidRefused(p, is_replace)
      PROVE  FileInv'
  BY <1>2 DEF PidRefused, pidVars
<1>3. CASE PidOpen(p)
  BY <1>3 DEF PidOpen
<1>4. CASE PidOpenFails(p)
  BY <1>4 DEF PidOpenFails
<1>5. CASE PidWrite(p)
  BY <1>5 DEF PidWrite
<1>6. CASE PidWriteLost(p)
  BY <1>6 DEF PidWriteLost
<1>7. CASE PidWriteFails(p)
  BY <1>7 DEF PidWriteFails
<1>8. CASE pidfile_remove(p)
  BY <1>8 DEF pidfile_remove
<1>9. CASE PidWriteShort(p)
  BY <1>9 DEF PidWriteShort
<1> QED
  BY <1>1, <1>2, <1>3, <1>4, <1>5, <1>6, <1>7, <1>8, <1>9 DEF PidfileCall

\* A process that ends takes its call and its claim with it, and leaves the file.
LEMMA KeepsFileInv ==
  ASSUME FileInv, [PidNext]_<<shmVars, pidVars>>
  PROVE  FileInv'
<1> USE PidfileAssumption DEF FileInv, PidTypeOK, OneCall, PidfileNamesHolder
<1>1. CASE Touch
  BY <1>1 DEF Touch
<1>2. ASSUME NEW p \in Proc, PidExit(p)
      PROVE  FileInv'
  BY <1>2 DEF PidExit
<1>3. CASE UNCHANGED pidVars
  BY <1>3 DEF pidVars
<1> QED
  BY <1>1, <1>2, <1>3, CallKeepsFileInv DEF PidNext, pidVars

\* For any number of processes: as long as no call of pidfile_create overlaps with another
\* or with a removal, the file names whoever was told OK last, be it by its first digits,
\* over refusals, failures and crashes in mid-call.
THEOREM HolderNamed == PidSpec => []PidfileNamesHolder
<1>1. PidInit => FileInv
  BY InitFileInv
<1>2. FileInv /\ [PidNext]_<<shmVars, pidVars>> => FileInv'
  BY KeepsFileInv
<1>3. FileInv => PidfileNamesHolder
  BY DEF FileInv
<1> QED
  BY <1>1, <1>2, <1>3, PTL DEF PidSpec

-------------------------------------------------------------------------------
(* Arithmetic modulo a number that is not known.                             *)

\* Quotient and remainder are unique.
LEMMA MultiplesApart ==
  ASSUME NEW M \in Nat \ {0}, NEW d \in Int, d >= 1
  PROVE  M * d >= M
<1>1. M * d - M = M * (d - 1)
  OBVIOUS
<1>2. M * (d - 1) >= 0
  OBVIOUS
<1> QED
  BY <1>1, <1>2

LEMMA UniqueRemainder ==
  ASSUME NEW M \in Nat \ {0}, NEW p \in Int, NEW q \in Int,
         NEW r \in 0..(M - 1), NEW s \in 0..(M - 1), M * q + r = M * p + s
  PROVE  r = s
<1>1. M * (q - p) = s - r /\ M * (p - q) = r - s
  OBVIOUS
<1>2. ~(q - p >= 1) /\ ~(p - q >= 1)
  BY <1>1, MultiplesApart
<1>3. q = p
  BY <1>2
<1> QED
  BY <1>3

LEMMA Remainder ==
  ASSUME NEW M \in Nat \ {0}, NEW a \in Int
  PROVE  /\ a % M \in 0..(M - 1) /\ a \div M \in Int
         /\ a = M * (a \div M) + (a % M)
OBVIOUS

\* The difference of two remainders is that of the numbers, up to a multiple.
LEMMA DifferenceOfRemainders ==
  ASSUME NEW M \in Nat \ {0}, NEW n \in Int, NEW u \in Int
  PROVE  ((n % M) - ((n - u) % M)) % M = u % M
<1> DEFINE d == (n % M) - ((n - u) % M)
           x == n \div M
           y == (n - u) \div M
           z == u \div M
           w == d \div M
<1>1. /\ n % M \in 0..(M - 1) /\ x \in Int /\ n = M * x + (n % M)
      /\ (n - u) % M \in 0..(M - 1) /\ y \in Int /\ n - u = M * y + ((n - u) % M)
      /\ u % M \in 0..(M - 1) /\ z \in Int /\ u = M * z + (u % M)
  <2>1. n % M \in 0..(M - 1) /\ x \in Int /\ n = M * x + (n % M)
    BY Remainder, Zenon
  <2>2. n - u \in Int
    OBVIOUS
  <2>3. (n - u) % M \in 0..(M - 1) /\ y \in Int /\ n - u = M * y + ((n - u) % M)
    BY <2>2, Remainder, Zenon
  <2>4. u % M \in 0..(M - 1) /\ z \in Int /\ u = M * z + (u % M)
    BY Remainder, Zenon
  <2> QED
    BY <2>1, <2>3, <2>4, Zenon
<1>2. d \in Int
  BY <1>1
<1>3. d % M \in 0..(M - 1) /\ w \in Int /\ d = M * w + (d % M)
  BY <1>2, Remainder
<1>4. d = u + M * y - M * x
  BY <1>1
<1> HIDE DEF d, w, x, y, z
<1>5. M * (z + y - x) = M * z + M * y - M * x
  BY <1>1
<1>6. M * w + (d % M) = M * (z + y - x) + (u % M)
  BY <1>1, <1>3, <1>4, <1>5
<1>7. d % M = u % M
  <2> DEFINE p == z + y - x
  <2>1. p \in Int
    BY <1>1
  <2>2. M * w + (d % M) = M * p + (u % M)
    BY <1>6
  <2>3. d % M \in 0..(M - 1) /\ u % M \in 0..(M - 1) /\ w \in Int
    BY <1>1, <1>3
  <2> HIDE DEF p
  <2> QED
    BY <2>1, <2>2, <2>3, UniqueRemainder
<1> QED
  BY <1>7 DEF d

-------------------------------------------------------------------------------
(* Tables and calls.                                                         *)

Table == Thread \cup {App}
Row(s) == IF s = App THEN {"active", "served"} ELSE {"time", "uptime"}

\* Every table has the metrics of its struct.
TablesOK ==
  /\ metrics \in [Table -> [Row(App) -> Int] \cup [{"time", "uptime"} -> Int]]
  /\ \A s \in Table : metrics[s] \in [Row(s) -> Int]

\* An update works on the table of its thread, or on none, and so does a reset, unless
\* it is the application's.
CallsOK ==
  /\ pc \in [Thread -> {"idle", "time", "uptime", "usage", "reset", "print"}]
  /\ m \in [Thread -> Table \cup {NoTable}]
  /\ k \in [Thread -> 0..2]
  /\ nbuf \in [Thread -> Nat] /\ off \in [Thread -> Int] /\ total \in [Thread -> Nat]
  /\ g_proc_metrics \in {NoTable, Owner}
  /\ \A t \in Thread :
       /\ pc[t] \in {"time", "uptime", "usage"} => m[t] \in {t, NoTable}
       /\ pc[t] = "reset" => m[t] \in {t, App} /\ k[t] \in 1..2
       /\ pc[t] = "print" => m[t] \in Table /\ k[t] \in 1..2

ClocksOK ==
  /\ clock \in Nat /\ g_proc_uptime \in Nat
  /\ nowtime \in [Thread -> Nat]

RequestsOK == inside \subseteq Thread /\ carried \in Nat

ProcTypeOK == TablesOK /\ CallsOK /\ ClocksOK /\ RequestsOK

\* A store changes one metric of one table.
Stores(s, f, v) == metrics' = [metrics EXCEPT ![s][f] = v]

LEMMA StoreOne ==
  ASSUME TablesOK, NEW s \in Table, NEW f \in Row(s), NEW v \in Int,
         Stores(s, f, v)
  PROVE  /\ TablesOK'
         /\ metrics'[s][f] = v
         /\ \A q \in Table : \A g \in Row(q) :
              q # s \/ g # f => metrics'[q][g] = metrics[q][g]
<1>1. metrics[s] \in [Row(s) -> Int]
  BY DEF TablesOK
<1>2. [metrics[s] EXCEPT ![f] = v] \in [Row(s) -> Int]
  BY <1>1
<1>3. metrics' = [metrics EXCEPT ![s] = [metrics[s] EXCEPT ![f] = v]]
  BY DEF Stores
<1>4. TablesOK'
  BY <1>2, <1>3, ProcAssumption DEF TablesOK, Row, Table
<1>5. \A q \in Table : metrics'[q] = IF q = s THEN [metrics[s] EXCEPT ![f] = v] ELSE metrics[q]
  BY <1>3 DEF TablesOK
<1> QED
  BY <1>1, <1>4, <1>5

\* A size that an int can say is not changed by the cast.
LEMMA IntOfSize ==
  ASSUME NEW x \in Int
  PROVE  ToInt(x) \in Int /\ (x \in 0..IntMax => ToInt(x) = x)
<1> DEFINE M == 2 * (IntMax + 1)
<1>1. M \in Nat \ {0} /\ IntMax \in Nat /\ IntMax <= M - 1
  BY MetricAssumption
<1>2. ToInt(x) = IF (x % M) <= IntMax THEN x % M ELSE (x % M) - M
  BY DEF ToInt
<1> HIDE DEF M
<1>3. x % M \in 0..(M - 1) /\ x \div M \in Int /\ x = M * (x \div M) + (x % M)
  BY <1>1, Remainder
<1>4. ASSUME x \in 0..IntMax
      PROVE  x % M = x
  <2>1. x \in 0..(M - 1) /\ 0 \in Int /\ x = M * 0 + x
    BY <1>1, <1>4
  <2>2. M * (x \div M) + (x % M) = M * 0 + x
    BY <1>3, <2>1
  <2> QED
    BY <1>1, <1>3, <2>1, <2>2, UniqueRemainder
<1> QED
  BY <1>1, <1>2, <1>3, <1>4

LEMMA NameOfRow ==
  ASSUME NEW s \in Table, NEW j \in 1..2
  PROVE  /\ Len(NamesOf(s)) = 2
         /\ NamesOf(s)[j] \in Row(s)
         /\ NamesOf(App)[1] = "active" /\ NamesOf(App)[2] = "served"
BY DEF NamesOf, Row

LEMMA InitProcTypeOK == Init => ProcTypeOK
<1> SUFFICES ASSUME Init PROVE ProcTypeOK
  OBVIOUS
<1>1. ASSUME NEW s \in Table
      PROVE  Zeroes(s) \in [Row(s) -> Int]
  <2>1. {NamesOf(s)[j] : j \in 1..2} = Row(s)
    BY DEF NamesOf, Row
  <2> QED
    BY <2>1 DEF Zeroes
<1>2. TablesOK
  BY <1>1, ProcAssumption DEF Init, TablesOK, Table, Row
<1>3. CallsOK
  BY DEF Init, CallsOK
<1> QED
  BY <1>2, <1>3 DEF Init, ProcTypeOK, ClocksOK, RequestsOK

\* The calls that store nothing leave the tables alone.
LEMMA StoreTypes ==
  ASSUME ProcTypeOK, NEW t \in Thread, StoreTime(t) \/ StoreUptime(t)
  PROVE  TablesOK'
<1>1. m[t] \in {t, NoTable}
  BY DEF ProcTypeOK, CallsOK, StoreTime, StoreUptime
<1>2. CASE m[t] = NoTable
  BY <1>2 DEF ProcTypeOK, TablesOK, StoreTime, StoreUptime, UPDATE_VAL
<1>3. CASE m[t] = t
  <2>1. ASSUME NEW f \in {"time", "uptime"}, NEW v \in Int, UPDATE_VAL(m[t], f, v)
        PROVE  TablesOK'
    <3>1. t \in Table /\ f \in Row(t) /\ v % Modulus \in Int
      BY ProcAssumption, MetricAssumption DEF Table, Row
    <3>2. TypeOf[f] = "COUNTER"
      BY DEF TypeOf
    <3>3. Stores(t, f, v % Modulus)
      BY <1>3, <2>1, <3>2, ProcAssumption
         DEF Stores, UPDATE_VAL, metric_update_val, Stored
    <3> QED
      BY <3>1, <3>3, StoreOne DEF ProcTypeOK
  <2>2. nowtime[t] - g_proc_uptime \in Int /\ nowtime[t] \in Int
    BY DEF ProcTypeOK, ClocksOK
  <2> QED
    BY <2>1, <2>2 DEF StoreTime, StoreUptime
<1> QED
  BY <1>1, <1>2, <1>3

\* What INCR and DECR make of the application's table.
LEMMA RequestTypes ==
  ASSUME ProcTypeOK, NEW t \in Thread
  PROVE  /\ RequestBegins(t) => TablesOK' /\ metrics'[App].active = metrics[App].active + 1
         /\ RequestServed(t) => TablesOK' /\ metrics'[App].active = metrics[App].active
         /\ RequestEnds(t) => TablesOK' /\ metrics'[App].active = metrics[App].active - 1
<1>1. /\ App \in Table /\ Row(App) = {"active", "served"}
      /\ metrics[App].active \in Int /\ metrics[App].served \in Int
  BY DEF Table, Row, ProcTypeOK, TablesOK
<1>2. ASSUME RequestBegins(t)
      PROVE  TablesOK' /\ metrics'[App].active = metrics[App].active + 1
  <2>1. Stores(App, "active", metrics[App].active + 1)
    BY <1>2 DEF RequestBegins, metric_incr_n, Stored, Stores
  <2> QED
    BY <1>1, <2>1, StoreOne DEF ProcTypeOK
<1>3. ASSUME RequestServed(t)
      PROVE  TablesOK' /\ metrics'[App].active = metrics[App].active
  <2>1. Stores(App, "served", (metrics[App].served + 1) % Modulus)
    BY <1>3 DEF RequestServed, metric_incr_n, Stored, Stores
  <2>2. (metrics[App].served + 1) % Modulus \in Int
    BY <1>1, MetricAssumption
  <2> QED
    BY <1>1, <2>1, <2>2, StoreOne DEF ProcTypeOK
<1>4. ASSUME RequestEnds(t)
      PROVE  TablesOK' /\ metrics'[App].active = metrics[App].active - 1
  <2>1. Stores(App, "active", metrics[App].active - 1)
    BY <1>4 DEF RequestEnds, metric_decr_n, Stored, Stores
  <2> QED
    BY <1>1, <2>1, StoreOne DEF ProcTypeOK
<1> QED
  BY <1>2, <1>3, <1>4

\* A reset stores one 0.
LEMMA ResetTypes ==
  ASSUME ProcTypeOK, NEW t \in Thread, metric_reset(t)
  PROVE  /\ TablesOK'
         /\ IF m[t] = App /\ k[t] = 1
            THEN metrics'[App].active = 0 /\ carried' = Cardinality(inside)
            ELSE metrics'[App].active = metrics[App].active /\ carried' = carried
<1> DEFINE f == NamesOf(m[t])[k[t]]
<1>1. m[t] \in {t, App} /\ m[t] \in Table /\ k[t] \in 1..2 /\ App \in Table
  BY DEF ProcTypeOK, CallsOK, metric_reset, Table
<1>2. f \in Row(m[t])
  BY <1>1, NameOfRow
<1>3. f = "active" <=> m[t] = App /\ k[t] = 1
  BY <1>1, <1>2, NameOfRow DEF Row
<1>4. /\ Stores(m[t], f, 0)
      /\ carried' = IF f = "active" THEN Cardinality(inside) ELSE carried
  BY DEF metric_reset, Stores
<1> HIDE DEF f
<1>5. /\ TablesOK' /\ metrics'[m[t]][f] = 0
      /\ \A q \in Table : \A g \in Row(q) :
           q # m[t] \/ g # f => metrics'[q][g] = metrics[q][g]
  BY <1>1, <1>2, <1>4, StoreOne DEF ProcTypeOK
<1>6. "active" \in Row(App)
  BY DEF Row
<1> QED
  BY <1>1, <1>3, <1>4, <1>5, <1>6

\* A thread moves from step to step of its call.
LEMMA CallTypes ==
  ASSUME ProcTypeOK, [Next]_vars
  PROVE  CallsOK' /\ ClocksOK'
<1> USE ProcAssumption DEF ProcTypeOK, CallsOK, ClocksOK, Table, infoVars, printVars, requestVars
<1>1. CASE Tick
  BY <1>1 DEF Tick
<1>2. ASSUME NEW t \in Thread, procinfo_create(t) \/ procinfo_destroy(t)
      PROVE  CallsOK' /\ ClocksOK'
  BY <1>2 DEF procinfo_create, procinfo_destroy
<1>3. ASSUME NEW t \in Thread, procinfo_update(t) \/ procinfo_update_metrics(t)
      PROVE  CallsOK' /\ ClocksOK'
  BY <1>3 DEF procinfo_update, procinfo_update_metrics, UpdateStart
<1>4. ASSUME NEW t \in Thread, StoreTime(t) \/ StoreUptime(t)
      PROVE  CallsOK' /\ ClocksOK'
  BY <1>4 DEF StoreTime, StoreUptime
<1>5. ASSUME NEW t \in Thread, StoreUsage(t)
      PROVE  CallsOK' /\ ClocksOK'
  BY <1>5 DEF StoreUsage, Return
<1>6. ASSUME NEW t \in Thread, RequestBegins(t) \/ RequestServed(t) \/ RequestEnds(t)
      PROVE  CallsOK' /\ ClocksOK'
  BY <1>6 DEF RequestBegins, RequestServed, RequestEnds
<1>7. ASSUME NEW t \in Thread, NEW s \in {t, App}, ResetStart(t, s)
      PROVE  CallsOK' /\ ClocksOK'
  BY <1>7 DEF ResetStart
<1>8. ASSUME NEW t \in Thread, metric_reset(t)
      PROVE  CallsOK' /\ ClocksOK'
  <2>1. Len(NamesOf(m[t])) = 2
    BY <1>8, NameOfRow DEF metric_reset
  <2>2. CASE k[t] = 2
    BY <1>8, <2>1, <2>2 DEF metric_reset, Return
  <2>3. CASE k[t] = 1
    <3>1. /\ k' = [k EXCEPT ![t] = 2] /\ UNCHANGED <<pc, m, nowtime>>
          /\ UNCHANGED <<nbuf, off, total, clock, g_proc_uptime, g_proc_metrics>>
          /\ pc[t] = "reset"
      BY <1>8, <2>1, <2>3 DEF metric_reset
    <3> QED
      BY <3>1
  <2>4. k[t] \in 1..2
    BY <1>8 DEF metric_reset
  <2> QED
    BY <2>2, <2>3, <2>4
<1>9. ASSUME NEW t \in Thread, NEW s \in Table, NEW n \in Sizes, PrintStart(t, s, n)
      PROVE  CallsOK' /\ ClocksOK'
  BY <1>9 DEF PrintStart
<1>10. ASSUME NEW t \in Thread, NEW n \in Lengths, metric_print(t, n)
       PROVE  CallsOK' /\ ClocksOK'
  <2>1. n \in Nat /\ m[t] \in Table /\ k[t] \in 1..2 /\ off[t] \in Int /\ nbuf[t] \in Nat
    BY <1>10, MetricAssumption DEF metric_print
  <2>2. off[t] + cmn_scnprintf(nbuf[t] - off[t], n) \in Int
    <3>1. nbuf[t] - off[t] \in Int /\ nbuf[t] - off[t] - 1 \in Int
      BY <2>1
    <3>2. ToInt(nbuf[t] - off[t] - 1) \in Int
      BY <3>1, IntOfSize
    <3> QED
      BY <2>1, <3>1, <3>2 DEF cmn_scnprintf
  <2>3. /\ off' = [off EXCEPT ![t] = off[t] + cmn_scnprintf(nbuf[t] - off[t], n)]
        /\ total' = [total EXCEPT ![t] = total[t] + n]
        /\ k[t] = 2 => pc' = [pc EXCEPT ![t] = "idle"]
                          /\ m' = [m EXCEPT ![t] = NoTable] /\ k' = [k EXCEPT ![t] = 0]
                          /\ nowtime' = [nowtime EXCEPT ![t] = 0]
        /\ k[t] = 1 => k' = [k EXCEPT ![t] = 2] /\ UNCHANGED <<pc, m, nowtime>>
        /\ UNCHANGED <<nbuf, clock, g_proc_uptime, g_proc_metrics>>
    <3>1. Len(NamesOf(m[t])) = 2
      BY <2>1, NameOfRow
    <3> QED
      BY <1>10, <3>1 DEF metric_print, Return
  <2>4. CASE k[t] = 2
    BY <2>1, <2>2, <2>3, <2>4
  <2>5. CASE k[t] = 1
    BY <2>1, <2>2, <2>3, <2>5, <1>10 DEF metric_print
  <2> QED
    BY <2>1, <2>4, <2>5
<1>11. CASE UNCHANGED vars
  BY <1>11 DEF vars
<1> QED
  BY <1>1, <1>2, <1>3, <1>4, <1>5, <1>6, <1>7, <1>8, <1>9, <1>10, <1>11
     DEF Next, InfoStep, MetricStep

-------------------------------------------------------------------------------
(* The gauge of requests.                                                    *)

GaugeInv == ProcTypeOK /\ GaugeCountsRequests

\* A request in hand is counted once, and a reset forgets exactly those in hand.
LEMMA GaugeKeeps ==
  ASSUME GaugeInv, [Next]_vars
  PROVE  GaugeInv'
<1> SUFFICES TablesOK' /\ RequestsOK' /\ GaugeCountsRequests'
  BY CallTypes DEF GaugeInv, ProcTypeOK
<1>1. /\ metrics[App].active \in Int
      /\ IsFiniteSet(inside) /\ Cardinality(inside) \in Nat /\ carried \in Nat
  <2>1. IsFiniteSet(inside)
    BY ProcAssumption, FS_Subset DEF GaugeInv, ProcTypeOK, RequestsOK
  <2> QED
    BY <2>1, FS_CardinalityType DEF GaugeInv, ProcTypeOK, RequestsOK, TablesOK, Table, Row
<1> DEFINE Same == /\ TablesOK' /\ UNCHANGED <<inside, carried>>
                   /\ metrics'[App].active = metrics[App].active
<1>2. ASSUME Same
      PROVE  RequestsOK' /\ GaugeCountsRequests'
  BY <1>2 DEF GaugeInv, ProcTypeOK, RequestsOK, GaugeCountsRequests
<1>3. ASSUME UNCHANGED <<metrics, inside, carried>>
      PROVE  Same
  BY <1>3 DEF GaugeInv, ProcTypeOK, TablesOK
<1>4. CASE Tick \/ UNCHANGED vars
  BY <1>2, <1>3, <1>4 DEF Tick, vars, requestVars
<1>5. ASSUME NEW t \in Thread, InfoStep(t)
      PROVE  TablesOK' /\ RequestsOK' /\ GaugeCountsRequests'
  <2>1. CASE StoreTime(t) \/ StoreUptime(t)
    <3>1. TablesOK' /\ UNCHANGED <<inside, carried>>
      BY <2>1, StoreTypes DEF GaugeInv, StoreTime, StoreUptime, requestVars
    <3>2. m[t] # App
      BY <2>1, ProcAssumption DEF GaugeInv, ProcTypeOK, CallsOK, StoreTime, StoreUptime, App, NoTable
    <3>3. metrics'[App] = metrics[App]
      BY <2>1, <3>2 DEF StoreTime, StoreUptime, UPDATE_VAL, GaugeInv, ProcTypeOK, TablesOK, Table
    <3> QED
      BY <1>2, <3>1, <3>3
  <2>2. CASE ~(StoreTime(t) \/ StoreUptime(t))
    BY <1>2, <1>3, <1>5, <2>2
       DEF InfoStep, procinfo_create, procinfo_destroy, procinfo_update, procinfo_update_metrics,
           UpdateStart, StoreUsage, requestVars
  <2> QED
    BY <2>1, <2>2
<1>6. ASSUME NEW t \in Thread, MetricStep(t)
      PROVE  TablesOK' /\ RequestsOK' /\ GaugeCountsRequests'
  <2>1. CASE RequestBegins(t)
    <3>1. Cardinality(inside') = Cardinality(inside) + 1 /\ carried' = carried
      BY <1>1, <2>1, FS_AddElement DEF RequestBegins
    <3>2. TablesOK' /\ metrics'[App].active = metrics[App].active + 1
      BY <2>1, RequestTypes DEF GaugeInv
    <3>3. RequestsOK'
      BY <2>1 DEF RequestBegins, GaugeInv, ProcTypeOK, RequestsOK
    <3> QED
      BY <1>1, <3>1, <3>2, <3>3 DEF GaugeInv, GaugeCountsRequests
  <2>2. CASE RequestServed(t)
    BY <1>2, <2>2, RequestTypes DEF RequestServed, requestVars, GaugeInv
  <2>3. CASE RequestEnds(t)
    <3>1. Cardinality(inside') = Cardinality(inside) - 1 /\ carried' = carried
      BY <1>1, <2>3, FS_RemoveElement DEF RequestEnds
    <3>2. TablesOK' /\ metrics'[App].active = metrics[App].active - 1
      BY <2>3, RequestTypes DEF GaugeInv
    <3>3. RequestsOK'
      BY <2>3 DEF RequestEnds, GaugeInv, ProcTypeOK, RequestsOK
    <3> QED
      BY <1>1, <3>1, <3>2, <3>3 DEF GaugeInv, GaugeCountsRequests
  <2>4. CASE metric_reset(t)
    <3>1. inside' = inside
      BY <2>4 DEF metric_reset
    <3> QED
      BY <1>1, <2>4, <3>1, ResetTypes DEF GaugeInv, ProcTypeOK, RequestsOK, GaugeCountsRequests
  <2>5. CASE \/ \E s \in {t, App} : ResetStart(t, s)
             \/ \E s \in Thread \cup {App}, n \in Sizes : PrintStart(t, s, n)
             \/ \E n \in Lengths : metric_print(t, n)
    BY <1>2, <1>3, <2>5 DEF ResetStart, PrintStart, metric_print, requestVars
  <2> QED
    BY <1>6, <2>1, <2>2, <2>3, <2>4, <2>5 DEF MetricStep
<1> QED
  BY <1>4, <1>5, <1>6 DEF Next

\* The inductive invariant holds of every behaviour.
LEMMA AlwaysGaugeInv == Spec => []GaugeInv
<1>1. Init => GaugeInv
  <2> SUFFICES ASSUME Init PROVE GaugeCountsRequests
    BY InitProcTypeOK DEF GaugeInv
  <2>1. metrics[App].active = 0
    BY DEF Init, Zeroes, NamesOf
  <2> QED
    BY <2>1, FS_EmptySet DEF Init, GaugeCountsRequests
<1> QED
  BY <1>1, GaugeKeeps, PTL DEF Spec

\* For any number of threads: the gauge is the number of requests in hand, less those
\* that were in hand at the last reset, whatever the threads interleave.
THEOREM RequestsCounted == Spec => []GaugeCountsRequests
BY AlwaysGaugeInv, PTL DEF GaugeInv

-------------------------------------------------------------------------------
(* The report.                                                               *)

\* Every metric that is printed keeps the sum of what fits, for there is always room, if
\* only for the '\0', and it is a number that the casts leave as it is.
LEMMA ReportKeeps ==
  ASSUME ProcTypeOK, ReportFits, [Next]_vars
  PROVE  ReportFits'
<1> USE DEF ReportFits, ProcTypeOK, CallsOK
<1>1. ASSUME UNCHANGED <<nbuf, off, total>>
      PROVE  ReportFits'
  BY <1>1
<1>2. ASSUME NEW t \in Thread, NEW s, NEW n \in Sizes, PrintStart(t, s, n)
      PROVE  ReportFits'
  BY <1>2, ProcAssumption DEF PrintStart
<1>3. ASSUME NEW t \in Thread, NEW n \in Lengths, metric_print(t, n)
      PROVE  ReportFits'
  <2>1. /\ off' = [off EXCEPT ![t] = off[t] + cmn_scnprintf(nbuf[t] - off[t], n)]
        /\ total' = [total EXCEPT ![t] = total[t] + n]
        /\ nbuf' = nbuf
    BY <1>3 DEF metric_print
  <2>2. n \in Nat
    BY ProcAssumption
  <2>3. ASSUME nbuf[t] \in 1..IntMax
        PROVE  off[t] + cmn_scnprintf(nbuf[t] - off[t], n) =
                 IF total[t] + n < nbuf[t] THEN total[t] + n ELSE nbuf[t] - 1
    <3>1. off[t] = IF total[t] < nbuf[t] THEN total[t] ELSE nbuf[t] - 1
      BY <2>3
    <3>2. nbuf[t] - off[t] \in 1..IntMax /\ nbuf[t] - off[t] - 1 \in 0..IntMax
      BY <2>3, <3>1, MetricAssumption
    <3>3. /\ ToInt(nbuf[t] - off[t]) = nbuf[t] - off[t]
          /\ ToInt(nbuf[t] - off[t] - 1) = nbuf[t] - off[t] - 1
      BY <3>2, IntOfSize
    <3>4. cmn_scnprintf(nbuf[t] - off[t], n) =
            IF n <= 0 THEN 0 ELSE IF n < nbuf[t] - off[t] THEN n ELSE nbuf[t] - off[t] - 1
      BY <3>3 DEF cmn_scnprintf
    <3> QED
      BY <2>2, <2>3, <3>1, <3>4
  <2> HIDE DEF cmn_scnprintf
  <2>4. ASSUME NEW q \in Thread, nbuf'[q] \in 1..IntMax
        PROVE  off'[q] = IF total'[q] < nbuf'[q] THEN total'[q] ELSE nbuf'[q] - 1
    <3>1. CASE q = t
      BY <2>1, <2>3, <2>4, <3>1
    <3>2. CASE q # t
      BY <2>1, <2>4, <3>2
    <3> QED
      BY <3>1, <3>2
  <2> QED
    BY <2>4
<1>4. CASE Tick \/ UNCHANGED vars
  BY <1>1, <1>4 DEF Tick, vars, printVars
<1>5. ASSUME NEW t \in Thread, InfoStep(t)
      PROVE  ReportFits'
  BY <1>1, <1>5
     DEF InfoStep, procinfo_create, procinfo_destroy, procinfo_update, procinfo_update_metrics,
         UpdateStart, StoreTime, StoreUptime, StoreUsage, printVars
<1>6. ASSUME NEW t \in Thread, MetricStep(t)
      PROVE  ReportFits'
  BY <1>1, <1>2, <1>3, <1>6
     DEF MetricStep, RequestBegins, RequestServed, RequestEnds, ResetStart, metric_reset, printVars
<1> QED
  BY <1>4, <1>5, <1>6 DEF Next

\* For metrics of any length and buffers of every size from one byte to INT_MAX: a report
\* never runs past its buffer.
THEOREM ReportsFit == Spec => []ReportFits
<1>1. Init => ReportFits
  BY DEF Init, ReportFits
<1>2. GaugeInv => ProcTypeOK
  BY DEF GaugeInv
<1> QED
  BY <1>1, <1>2, AlwaysGaugeInv, ReportKeeps, PTL DEF Spec

-------------------------------------------------------------------------------
(* The two clocks.                                                           *)

\* Between its two stores, the first clock is already of the nowtime that the second
\* will be; a table that nobody is storing into has both; a reset takes its table out
\* of fresh before it begins.
Settled(s) == (metrics[s].uptime - metrics[s].time) % Modulus = g_proc_uptime % Modulus

InstantInv ==
  /\ ProcTypeOK
  /\ fresh \subseteq Thread
  /\ \A t \in Thread : pc[t] = "reset" => m[t] \notin fresh
  /\ \A s \in fresh :
       /\ m[s] = s /\ pc[s] = "uptime" =>
            metrics[s].time = (nowtime[s] - g_proc_uptime) % Modulus
       /\ ~(m[s] = s /\ pc[s] \in {"time", "uptime"}) => Settled(s)

\* What StoreTime and StoreUptime store.
LEMMA ClockStored ==
  ASSUME ProcTypeOK, NEW t \in Thread, NEW f \in {"time", "uptime"}, NEW v \in Int,
         UPDATE_VAL(m[t], f, v), m[t] = t
  PROVE  /\ metrics'[t][f] = v % Modulus
         /\ \A g \in {"time", "uptime"} : g # f => metrics'[t][g] = metrics[t][g]
         /\ \A s \in Thread : s # t => \A g \in {"time", "uptime"} :
                                          metrics'[s][g] = metrics[s][g]
<1>1. \A s \in Thread : s \in Table /\ Row(s) = {"time", "uptime"}
  BY ProcAssumption DEF Table, Row
<1>2. TypeOf[f] = "COUNTER" /\ v % Modulus \in Int
  BY MetricAssumption DEF TypeOf
<1>3. Stores(t, f, v % Modulus)
  BY <1>2, ProcAssumption DEF Stores, UPDATE_VAL, metric_update_val, Stored
<1> QED
  BY <1>1, <1>2, <1>3, StoreOne DEF ProcTypeOK

\* Requests and resets leave the tables that are fresh alone.
LEMMA OthersStored ==
  ASSUME InstantInv, NEW t \in Thread,
         RequestBegins(t) \/ RequestServed(t) \/ RequestEnds(t) \/ metric_reset(t)
  PROVE  \A s \in fresh : metrics'[s] = metrics[s]
<1>1. ASSUME NEW s \in fresh, metric_reset(t)
      PROVE  metrics'[s] = metrics[s]
  BY <1>1 DEF metric_reset, InstantInv, ProcTypeOK, TablesOK, Table
<1>2. ASSUME NEW s \in fresh, RequestBegins(t) \/ RequestServed(t) \/ RequestEnds(t)
      PROVE  metrics'[s] = metrics[s]
  <2>1. s # App
    BY ProcAssumption DEF InstantInv
  <2> QED
    BY <1>2, <2>1 DEF RequestBegins, RequestServed, RequestEnds, InstantInv, ProcTypeOK,
                      TablesOK, Table
<1> QED
  BY <1>1, <1>2

\* One step per action.
LEMMA InstantKeeps ==
  ASSUME InstantInv, ProcTypeOK', [Next]_vars
  PROVE  InstantInv'
<1> USE DEF InstantInv, Settled, infoVars, printVars, requestVars
<1>1. CASE Tick \/ UNCHANGED vars
  BY <1>1 DEF Tick, vars
<1>2. ASSUME NEW t \in Thread, procinfo_create(t) \/ procinfo_destroy(t)
      PROVE  InstantInv'
  BY <1>2 DEF procinfo_create, procinfo_destroy
<1>3. ASSUME NEW t \in Thread, procinfo_update(t) \/ procinfo_update_metrics(t)
      PROVE  InstantInv'
  <2>1. PICK base \in {t, NoTable} : UpdateStart(t, base)
    BY <1>3 DEF procinfo_update, procinfo_update_metrics, ProcTypeOK, CallsOK
  <2>2. \A r \in Thread : pc[r] = "reset" => m[r] \in {r, App} /\ r # t
    BY <2>1 DEF ProcTypeOK, CallsOK, UpdateStart, Free
  <2> QED
    BY <2>1, <2>2, ProcAssumption DEF UpdateStart, Free, ProcTypeOK, CallsOK
<1>4. ASSUME NEW t \in Thread, StoreTime(t)
      PROVE  InstantInv'
  <2>1. CASE m[t] = NoTable
    BY <1>4, <2>1, ProcAssumption DEF StoreTime, UPDATE_VAL, ProcTypeOK, CallsOK
  <2>2. CASE m[t] = t
    <3>1. nowtime[t] - g_proc_uptime \in Int
      BY DEF ProcTypeOK, ClocksOK
    <3>2. /\ metrics'[t].time = (nowtime[t] - g_proc_uptime) % Modulus
          /\ \A s \in Thread : s # t => /\ metrics'[s].time = metrics[s].time
                                        /\ metrics'[s].uptime = metrics[s].uptime
      BY <1>4, <2>2, <3>1, ClockStored DEF StoreTime
    <3> QED
      BY <1>4, <2>2, <3>2 DEF StoreTime, ProcTypeOK, CallsOK
  <2> QED
    BY <1>4, <2>1, <2>2 DEF StoreTime, ProcTypeOK, CallsOK
<1>5. ASSUME NEW t \in Thread, StoreUptime(t)
      PROVE  InstantInv'
  <2>1. CASE m[t] = NoTable
    BY <1>5, <2>1, ProcAssumption DEF StoreUptime, UPDATE_VAL, ProcTypeOK, CallsOK
  <2>2. CASE m[t] = t
    <3>1. nowtime[t] \in Int /\ g_proc_uptime \in Int
      BY DEF ProcTypeOK, ClocksOK
    <3>2. /\ metrics'[t].uptime = nowtime[t] % Modulus
          /\ metrics'[t].time = metrics[t].time
          /\ \A s \in Thread : s # t => /\ metrics'[s].time = metrics[s].time
                                        /\ metrics'[s].uptime = metrics[s].uptime
      BY <1>5, <2>2, <3>1, ClockStored DEF StoreUptime
    <3>3. t \in fresh => Settled(t)'
      <4>1. Modulus \in Nat \ {0}
        BY MetricAssumption
      <4>2. ((nowtime[t] % Modulus) - ((nowtime[t] - g_proc_uptime) % Modulus)) % Modulus
              = g_proc_uptime % Modulus
        BY <3>1, <4>1, DifferenceOfRemainders, Zenon
      <4>3. t \in fresh => metrics[t].time = (nowtime[t] - g_proc_uptime) % Modulus
        BY <1>5, <2>2 DEF StoreUptime
      <4>4. UNCHANGED <<g_proc_uptime, fresh>>
        BY <1>5 DEF StoreUptime
      <4> QED
        BY <3>2, <4>2, <4>3, <4>4
    <3> QED
      BY <1>5, <2>2, <3>2, <3>3 DEF StoreUptime, ProcTypeOK, CallsOK
  <2> QED
    BY <1>5, <2>1, <2>2 DEF StoreUptime, ProcTypeOK, CallsOK
<1>6. ASSUME NEW t \in Thread, StoreUsage(t)
      PROVE  InstantInv'
  BY <1>6, ProcAssumption DEF StoreUsage, Return, ProcTypeOK, CallsOK
<1>7. ASSUME NEW t \in Thread, RequestBegins(t) \/ RequestServed(t) \/ RequestEnds(t)
      PROVE  InstantInv'
  BY <1>7, OthersStored DEF RequestBegins, RequestServed, RequestEnds
<1>8. ASSUME NEW t \in Thread, NEW s \in {t, App}, ResetStart(t, s)
      PROVE  InstantInv'
  BY <1>8, ProcAssumption DEF ResetStart, Free, ProcTypeOK, CallsOK
<1>9. ASSUME NEW t \in Thread, metric_reset(t)
      PROVE  InstantInv'
  <2>1. /\ \A s \in fresh : metrics'[s] = metrics[s]
        /\ UNCHANGED <<fresh, g_proc_uptime>>
    BY <1>9, OthersStored DEF metric_reset
  <2>2. pc[t] = "reset" /\ \A r \in Thread : r # t => /\ pc'[r] = pc[r] /\ m'[r] = m[r]
                                                     /\ nowtime'[r] = nowtime[r]
    BY <1>9 DEF metric_reset, Return, ProcTypeOK, CallsOK, ClocksOK
  <2>3. \/ pc'[t] = "idle"
        \/ pc'[t] = "reset" /\ m'[t] = m[t]
    BY <1>9, <2>2 DEF metric_reset, Return, ProcTypeOK, CallsOK
  <2> QED
    BY <2>1, <2>2, <2>3
<1>10. ASSUME NEW t \in Thread, NEW s \in Table, NEW n \in Sizes, PrintStart(t, s, n)
       PROVE  InstantInv'
  BY <1>10 DEF PrintStart, Free, ProcTypeOK, CallsOK
<1>11. ASSUME NEW t \in Thread, NEW n \in Lengths, metric_print(t, n)
       PROVE  InstantInv'
  <2>1. UNCHANGED <<metrics, fresh, g_proc_uptime>>
    BY <1>11 DEF metric_print
  <2>2. pc[t] = "print" /\ \A r \in Thread : r # t => /\ pc'[r] = pc[r] /\ m'[r] = m[r]
                                                     /\ nowtime'[r] = nowtime[r]
    BY <1>11 DEF metric_print, Return, ProcTypeOK, CallsOK, ClocksOK
  <2>3. pc'[t] \in {"idle", "print"}
    BY <1>11, <2>2 DEF metric_print, Return, ProcTypeOK, CallsOK
  <2> QED
    BY <2>1, <2>2, <2>3
<1> QED
  BY <1>1, <1>2, <1>3, <1>4, <1>5, <1>6, <1>7, <1>8, <1>9, <1>10, <1>11
     DEF Next, InfoStep, MetricStep, Table

\* For any number of threads, any clock and any modulus: the two clocks of a table at
\* rest are of one instant, the time of procinfo_create apart.
THEOREM ClocksAgree == Spec => []OneInstant
<1>1. Init => InstantInv
  BY InitProcTypeOK DEF Init, InstantInv
<1>2. GaugeInv => ProcTypeOK
  BY DEF GaugeInv
<1>3. InstantInv => OneInstant
  BY DEF InstantInv, Settled, OneInstant
<1> QED
  BY <1>1, <1>2, <1>3, AlwaysGaugeInv, InstantKeeps, PTL DEF Spec
================================================================================
