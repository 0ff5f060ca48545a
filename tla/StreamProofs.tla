------------------------------ MODULE StreamProofs ------------------------------
(***************************************************************************)
(* Proofs about Server, that is about sock_send and sock_recv as a program *)
(* with an event loop calls them, for streams, transfers and calls of any  *)
(* length.                                                                 *)
(***************************************************************************)
EXTENDS Server, SequenceTheorems, TLAPS

-------------------------------------------------------------------------------
(* The inductive invariant.                                                  *)

StreamTypeOK ==
  /\ wire \in Seq(Nat) /\ got \in Seq(Nat)
  /\ handed \in Nat /\ send_nbyte \in Nat /\ recv_nbyte \in Nat
  /\ rnbyte \in Nat /\ eof \in BOOLEAN
  /\ spc \in {"idle", "write"}
  /\ rstop \in {"none", "eof", "reset"}

\* StreamIntact, byte by byte: the receiver has the first bytes, the wire the next.
BytesInOrder ==
  /\ Len(got) + Len(wire) = handed
  /\ \A j \in 1..Len(got) : got[j] = j
  /\ \A j \in 1..Len(wire) : wire[j] = Len(got) + j

Counters == recv_nbyte = Len(got) /\ send_nbyte = handed

\* Nothing follows the end: no call of sock_send is running when the sender shuts
\* down, and sock_recv reports it over an empty wire.
EndIsFinal ==
  /\ eof => spc = "idle" /\ handed = Total
  /\ rstop = "eof" => eof /\ wire = <<>>

StreamInv == StreamTypeOK /\ BytesInOrder /\ Counters /\ EndIsFinal

\* Nothing has been sent at the start.
LEMMA InitStreamInv == Init => StreamInv
<1> SUFFICES ASSUME Init PROVE StreamInv
  OBVIOUS
<1>1. <<>> \in Seq(Nat) /\ Len(<<>>) = 0
  BY EmptySeq
<1>2. StreamTypeOK
  BY <1>1 DEF Init, StreamTypeOK
<1>3. Len(wire) = 0 /\ Len(got) = 0
  BY <1>1 DEF Init
<1>4. BytesInOrder /\ Counters
  BY <1>3 DEF Init, BytesInOrder, Counters
<1>5. EndIsFinal
  BY DEF Init, EndIsFinal
<1> QED
  BY <1>2, <1>4, <1>5 DEF StreamInv

LEMMA Lengths ==
  ASSUME StreamInv
  PROVE  /\ Len(wire) \in Nat /\ Len(got) \in Nat
         /\ handed = Len(got) + Len(wire)
         /\ \A j \in 1..Len(wire) : wire[j] \in Nat
BY LenProperties, ElementOfSeq DEF StreamInv, StreamTypeOK, BytesInOrder

\* write appends the bytes that come next.
LEMMA SendSomeKeeps ==
  ASSUME StreamInv, NEW k \in Nat, SendSome(k)
  PROVE  StreamInv'
<1> DEFINE new == [j \in 1..k |-> handed + j]
<1>1. /\ wire' = wire \o new
      /\ handed' = handed + k /\ send_nbyte' = send_nbyte + k
      /\ spc' = "idle" /\ spc = "write"
      /\ UNCHANGED <<got, recv_nbyte, rnbyte, rstop, eof>>
  BY DEF SendSome, SendReturn, recvVars
<1>2. new \in Seq(Nat) /\ Len(new) = k /\ \A j \in 1..k : new[j] = handed + j
  BY Lengths
<1> HIDE DEF new
<1>3. /\ wire' \in Seq(Nat) /\ Len(wire') = Len(wire) + k
      /\ \A j \in 1..(Len(wire) + k) :
           wire'[j] = IF j <= Len(wire) THEN wire[j] ELSE new[j - Len(wire)]
  BY <1>1, <1>2, ConcatProperties DEF StreamInv, StreamTypeOK
<1>4. ASSUME NEW j \in 1..(Len(wire) + k)
      PROVE  wire'[j] = Len(got) + j
  <2>1. CASE j <= Len(wire)
    <3>1. wire'[j] = wire[j] /\ j \in 1..Len(wire)
      BY <1>3, <2>1, Lengths
    <3> QED
      BY <3>1 DEF StreamInv, BytesInOrder
  <2>2. CASE ~(j <= Len(wire))
    <3>1. j - Len(wire) \in 1..k
      BY <2>2, Lengths
    <3>2. wire'[j] = new[j - Len(wire)]
      BY <1>3, <2>2
    <3>3. wire'[j] = handed + (j - Len(wire))
      BY <1>2, <3>1, <3>2
    <3> QED
      BY <3>3, Lengths
  <2> QED
    BY <2>1, <2>2
<1>5. BytesInOrder'
  <2>1. Len(got') + Len(wire') = handed'
    BY <1>1, <1>3, Lengths
  <2>2. \A j \in 1..Len(wire') : wire'[j] = Len(got') + j
    BY <1>1, <1>3, <1>4
  <2> QED
    BY <1>1, <2>1, <2>2 DEF StreamInv, BytesInOrder
<1>6. StreamTypeOK' /\ Counters'
  BY <1>1, <1>3 DEF StreamInv, StreamTypeOK, Counters
<1>7. EndIsFinal'
  BY <1>1 DEF StreamInv, EndIsFinal
<1> QED
  BY <1>5, <1>6, <1>7 DEF StreamInv

\* read moves the first bytes of the wire behind those the receiver has.
LEMMA RecvSomeKeeps ==
  ASSUME StreamInv, NEW k \in Nat, RecvSome(k)
  PROVE  StreamInv'
<1> DEFINE head == SubSeq(wire, 1, k)
           tail == SubSeq(wire, k + 1, Len(wire))
<1>1. /\ k <= Len(wire) /\ rnbyte' = 0
      /\ got' = got \o head /\ wire' = tail
      /\ recv_nbyte' = recv_nbyte + k
      /\ UNCHANGED <<rstop, eof, handed, send_nbyte, spc>>
  BY Lengths DEF RecvSome, RecvReturn, Smaller, sendVars, StreamInv, StreamTypeOK
<1>2. /\ head \in Seq(Nat) /\ Len(head) = k
      /\ \A j \in 1..k : head[j] = wire[j]
  BY <1>1, Lengths, SubSeqProperties
<1>3. /\ tail \in Seq(Nat) /\ Len(tail) = Len(wire) - k
      /\ \A j \in 1..(Len(wire) - k) : tail[j] = wire[k + j]
  BY <1>1, Lengths, SubSeqProperties
<1> HIDE DEF head, tail
<1>4. /\ got' \in Seq(Nat) /\ Len(got') = Len(got) + k
      /\ \A j \in 1..(Len(got) + k) :
           got'[j] = IF j <= Len(got) THEN got[j] ELSE head[j - Len(got)]
  BY <1>1, <1>2, ConcatProperties DEF StreamInv, StreamTypeOK
<1>5. ASSUME NEW j \in 1..(Len(got) + k)
      PROVE  got'[j] = j
  <2>1. CASE j <= Len(got)
    <3>1. got'[j] = got[j] /\ j \in 1..Len(got)
      BY <1>4, <2>1, Lengths
    <3> QED
      BY <3>1 DEF StreamInv, BytesInOrder
  <2>2. CASE ~(j <= Len(got))
    <3>1. j - Len(got) \in 1..k /\ j - Len(got) \in 1..Len(wire)
      BY <1>1, <2>2, Lengths
    <3>2. got'[j] = wire[j - Len(got)]
      BY <1>2, <1>4, <2>2, <3>1
    <3>3. wire[j - Len(got)] = Len(got) + (j - Len(got))
      BY <3>1 DEF StreamInv, BytesInOrder
    <3> QED
      BY <3>2, <3>3, Lengths
  <2> QED
    BY <2>1, <2>2
<1>6. ASSUME NEW j \in 1..(Len(wire) - k)
      PROVE  wire'[j] = Len(got) + k + j
  <2>1. k + j \in 1..Len(wire)
    BY Lengths
  <2>2. wire[k + j] = Len(got) + (k + j)
    BY <2>1 DEF StreamInv, BytesInOrder
  <2> QED
    BY <1>1, <1>3, <2>2, Lengths
<1>7. BytesInOrder'
  <2>1. Len(got') + Len(wire') = handed'
    BY <1>1, <1>3, <1>4, Lengths
  <2>2. \A j \in 1..Len(got') : got'[j] = j
    BY <1>4, <1>5
  <2>3. \A j \in 1..Len(wire') : wire'[j] = Len(got') + j
    BY <1>1, <1>3, <1>4, <1>6
  <2> QED
    BY <2>1, <2>2, <2>3 DEF BytesInOrder
<1>8. StreamTypeOK' /\ Counters'
  BY <1>1, <1>3, <1>4 DEF StreamInv, StreamTypeOK, Counters
<1>9. wire = <<>> => wire' = <<>>
  <2> SUFFICES ASSUME wire = <<>> PROVE wire' = <<>>
    OBVIOUS
  <2>1. Len(wire) = 0
    BY EmptySeq
  <2>2. Len(wire') = 0 /\ wire' \in Seq(Nat)
    BY <1>1, <1>3, <2>1
  <2> QED
    BY <2>2, EmptySeq
<1>10. EndIsFinal'
  BY <1>1, <1>9 DEF StreamInv, EndIsFinal
<1> QED
  BY <1>7, <1>8, <1>10 DEF StreamInv

\* The other steps leave the bytes where they are.
LEMMA BytesStay ==
  ASSUME StreamInv, UNCHANGED <<wire, got, handed, send_nbyte, recv_nbyte>>,
         StreamTypeOK', EndIsFinal'
  PROVE  StreamInv'
BY DEF StreamInv, BytesInOrder, Counters

LEMMA NextKeeps ==
  ASSUME StreamInv, [Next]_vars
  PROVE  StreamInv'
<1> DEFINE Stay == /\ UNCHANGED <<wire, got, handed, send_nbyte, recv_nbyte>>
                   /\ StreamTypeOK' /\ EndIsFinal'
<1> USE SockIOAssumption DEF StreamInv, StreamTypeOK, EndIsFinal, sendVars, recvVars
<1>1. ASSUME NEW n \in 1..MaxIO, SendCall(n)
      PROVE  Stay
  BY <1>1 DEF SendCall
<1>2. ASSUME NEW k \in 1..MaxIO, SendSome(k)
      PROVE  StreamInv'
  BY <1>2, SendSomeKeeps
<1>3. CASE SendAgain \/ SendZero
  <2> Stay
    BY <1>3 DEF SendAgain, SendZero, SendReturn
  <2> QED
    BY BytesStay
<1>4. CASE SendError
  <2> Stay
    BY <1>4 DEF SendError, SendReturn
  <2> QED
    BY BytesStay
<1>5. CASE Shutdown
  <2> Stay
    BY <1>5 DEF Shutdown
  <2> QED
    BY BytesStay
<1>6. ASSUME NEW n \in 1..MaxIO, RecvCall(n)
      PROVE  Stay
  BY <1>6 DEF RecvCall
<1>7. ASSUME NEW k \in 1..MaxIO, RecvSome(k)
      PROVE  StreamInv'
  BY <1>7, RecvSomeKeeps
<1>8. CASE RecvEof
  <2> Stay
    BY <1>8 DEF RecvEof, RecvReturn
  <2> QED
    BY BytesStay
<1>9. CASE RecvAgain
  <2> Stay
    BY <1>9 DEF RecvAgain, RecvReturn
  <2> QED
    BY BytesStay
<1>10. CASE RecvError
  <2> Stay
    BY <1>10 DEF RecvError, RecvReturn
  <2> QED
    BY BytesStay
<1>11. CASE Break
  <2> Stay
    BY <1>11 DEF Break
  <2> QED
    BY BytesStay
<1>12. CASE SendInterrupted \/ RecvInterrupted \/ UNCHANGED vars
  <2> Stay
    BY <1>12 DEF SendInterrupted, RecvInterrupted, vars
  <2> QED
    BY BytesStay
<1>13. ASSUME Stay
       PROVE  StreamInv'
  BY <1>13, BytesStay
<1> HIDE DEF Stay, StreamInv
<1> QED
  BY <1>1, <1>2, <1>3, <1>4, <1>5, <1>6, <1>7, <1>8, <1>9, <1>10, <1>11, <1>12, <1>13
     DEF Next, SendStep, RecvStep

-------------------------------------------------------------------------------
(* The theorems.                                                             *)

\* Every step of Server is one of SockIO, or leaves the stream alone.
LEMMA ServerNextIsStream ==
  ASSUME [ServerNext]_allVars
  PROVE  [Next]_vars
BY DEF ServerNext, allVars, Program, StartUp, ReadFirst, Watch, WaitAgain, Poll, CallbackReads,
       Close, CallbackDrains, CallbackEnds, RecvReturns, Arrival, Sender, Next, RecvStep

LEMMA AlwaysStreamInv == ServerSpec => []StreamInv
<1>1. ServerInit => StreamInv
  BY InitStreamInv DEF ServerInit
<1>2. StreamInv /\ [ServerNext]_allVars => StreamInv'
  BY ServerNextIsStream, NextKeeps
<1> QED
  BY <1>1, <1>2, PTL DEF ServerSpec

\* For streams and calls of any length: short transfers, retries and resets neither
\* lose nor repeat nor reorder a byte, and the two counters differ by what is on its way.
THEOREM BytesIntact == ServerSpec => []StreamIntact
<1>1. StreamInv => StreamIntact
  <2> SUFFICES ASSUME StreamInv PROVE StreamIntact
    OBVIOUS
  <2> USE DEF StreamInv, StreamTypeOK, BytesInOrder, Counters
  <2> DEFINE all == [j \in 1..handed |-> j]
  <2>1. all \in Seq(Nat) /\ Len(all) = handed /\ \A j \in 1..handed : all[j] = j
    OBVIOUS
  <2> HIDE DEF all
  <2>2. /\ got \o wire \in Seq(Nat) /\ Len(got \o wire) = handed
        /\ \A j \in 1..handed :
             (got \o wire)[j] = IF j <= Len(got) THEN got[j] ELSE wire[j - Len(got)]
    BY ConcatProperties
  <2>3. \A j \in 1..handed : (got \o wire)[j] = all[j]
    BY <2>1, <2>2, LenProperties
  <2>4. got \o wire = all
    BY <2>1, <2>2, <2>3, SeqEqual
  <2> QED
    BY <2>4, LenProperties DEF StreamIntact, all
<1> QED
  BY <1>1, AlwaysStreamInv, PTL

\* For streams and calls of any length: the end of file is reported after the last byte.
THEOREM EofLast == ServerSpec => []EofIsTheEnd
<1>1. StreamInv => EofIsTheEnd
  BY EmptySeq, LenProperties
     DEF StreamInv, StreamTypeOK, BytesInOrder, EndIsFinal, EofIsTheEnd
<1> QED
  BY <1>1, AlwaysStreamInv, PTL

-------------------------------------------------------------------------------
(* What a callback finds.  The batch of the event loop and the stream are related  *)
(* through epoll, which looked at the stream when the batch was fetched.           *)

LP == INSTANCE EventLoopProofs
        WITH Fd <- {Conn, Other}, Ptr <- {Conn, Other}, Conds <- {}, Timeouts <- {}

\* sock_recv would not return CMN_EAGAIN.
Readable == wire # <<>> \/ eof \/ broken

PointersOwn ==
  \A fd \in {Conn, Other} : Loop!Registered(fd) => interest[fd].ptr = fd

\* The connection is in the batch at most once, and readable until that event is read.
BatchHolds ==
  pc = "callback" =>
    /\ \A j, k \in 1..nreturned : arr[j].ptr = arr[k].ptr => j = k
    /\ \A k \in i..nreturned :
         arr[k].ptr = Conn /\ (k > i \/ due \/ rpc = "read") => Readable
    /\ rpc = "read" => ~due /\ arr[i].ptr = Conn

\* What the program reads before it registers the connection, it reads before it waits.
WatchFirst ==
  /\ pc \in {"poll", "callback"} => conn # "fresh"
  /\ pc = "poll" => rpc = "idle"

ServerInv == LP!LoopInv /\ PointersOwn /\ BatchHolds /\ WatchFirst

LEMMA LoopAssumption == LP!EventAssumption
BY ServerAssumption DEF LP!EventAssumption

LEMMA CondType ==
  /\ cond \in [{Conn, Other} -> SUBSET LP!Condition]
  /\ cond' \in [{Conn, Other} -> SUBSET LP!Condition]
BY DEF cond, LP!Condition

LEMMA ReadableCond ==
  ASSUME Loop!Reported(Conn) # {}
  PROVE  Readable
BY ServerAssumption DEF Loop!Reported, cond, Readable

\* Steps that leave the loop alone keep what is known of it, although epoll may have
\* more or less to report.
LEMMA LoopStays ==
  ASSUME LP!LoopInv, PointersOwn, UNCHANGED loopVars
  PROVE  LP!LoopInv' /\ PointersOwn'
<1>1. UNCHANGED <<interest, order, pc, arr, nreturned, i, moved, seen>>
  BY DEF loopVars
<1>2. LP!LoopTypeOK'
  BY <1>1, CondType DEF LP!LoopInv, LP!LoopTypeOK
<1>3. LP!ListsRegistered' /\ LP!BatchIsCurrent' /\ PointersOwn'
  BY <1>1 DEF LP!LoopInv, LP!ListsRegistered, LP!BatchIsCurrent, LP!Registered, PointersOwn,
              Loop!Registered
<1> QED
  BY <1>2, <1>3 DEF LP!LoopInv

\* The steps of the program that are steps of the loop.
LEMMA LoopMoves ==
  ASSUME UNCHANGED <<wire, eof, broken, noise>>,
         \/ Loop!event_base_create \/ Loop!Wait(Loop!Forever)
         \/ \E fd \in {Conn, Other} : Loop!event_add_read(fd, fd) \/ Loop!event_del(fd)
         \/ Loop!PollEvents \/ Loop!PollInterrupted \/ Loop!PollError
         \/ Loop!CallbackReturns
  PROVE  LP!Next
<1>1. CASE Loop!event_base_create
  BY <1>1 DEF LP!Next, LP!event_base_create, Loop!event_base_create, LP!epollVars,
              Loop!epollVars, LP!NoEntry, Loop!NoEntry, LP!batchVars, Loop!batchVars
<1>2. CASE Loop!Wait(Loop!Forever)
  BY <1>2 DEF LP!Next, LP!LoopStep, LP!Wait, Loop!Wait, LP!Forever, Loop!Forever,
              LP!epollVars, Loop!epollVars, LP!batchVars, Loop!batchVars
<1>3. ASSUME NEW fd \in {Conn, Other}, Loop!event_add_read(fd, fd)
      PROVE  LP!Next
  <2>1. LP!event_add_read(fd, fd)
    BY <1>3 DEF LP!event_add_read, Loop!event_add_read, LP!Add, Loop!Add, LP!AppRuns,
                Loop!AppRuns, LP!Registered, Loop!Registered, LP!Unregistered,
                Loop!Unregistered, LP!waitVars, Loop!waitVars, LP!batchVars, Loop!batchVars
  <2> QED
    BY <2>1 DEF LP!Next, LP!AppStep
<1>4. ASSUME NEW fd \in {Conn, Other}, Loop!event_del(fd)
      PROVE  LP!Next
  <2>1. LP!event_del(fd)
    BY <1>4 DEF LP!event_del, Loop!event_del, LP!Forget, Loop!Forget, LP!AppRuns,
                Loop!AppRuns, LP!Registered, Loop!Registered, LP!Unregistered,
                Loop!Unregistered, LP!waitVars, Loop!waitVars, LP!Only, Loop!Only
  <2> QED
    BY <2>1 DEF LP!Next, LP!AppStep
<1>5. CASE Loop!PollEvents
  <2>1. LP!Fetched = Loop!Fetched
    BY DEF LP!Fetched, Loop!Fetched, LP!ReadyList, Loop!ReadyList, LP!Only, Loop!Only,
           LP!Reported, Loop!Reported, LP!Registered, Loop!Registered, LP!Unregistered,
           Loop!Unregistered
  <2>2. \A fd : LP!Reported(fd) = Loop!Reported(fd)
    BY DEF LP!Reported, Loop!Reported, LP!Registered, Loop!Registered, LP!Unregistered,
           Loop!Unregistered
  <2>3. \A s, S : LP!Only(s, S) = Loop!Only(s, S)
    BY DEF LP!Only, Loop!Only
  <2>4. LP!PollEvents
    BY <1>5, <2>1, <2>2, <2>3 DEF LP!PollEvents, Loop!PollEvents, LP!WaitOver, Loop!WaitOver
  <2> QED
    BY <2>4 DEF LP!Next, LP!LoopStep
<1>6. CASE Loop!PollInterrupted
  <2>1. LP!Fetched = Loop!Fetched
    BY DEF LP!Fetched, Loop!Fetched, LP!ReadyList, Loop!ReadyList, LP!Only, Loop!Only,
           LP!Reported, Loop!Reported, LP!Registered, Loop!Registered, LP!Unregistered,
           Loop!Unregistered
  <2> QED
    BY <1>6, <2>1 DEF LP!Next, LP!PollInterrupted, Loop!PollInterrupted, LP!epollVars,
                      Loop!epollVars, LP!batchVars, Loop!batchVars
<1>7. CASE Loop!PollError
  BY <1>7 DEF LP!Next, LP!PollError, Loop!PollError, LP!WaitOver, Loop!WaitOver, LP!Returns,
              Loop!Returns, LP!epollVars, Loop!epollVars
<1>8. CASE Loop!CallbackReturns
  BY <1>8 DEF LP!Next, LP!LoopStep, LP!CallbackReturns, Loop!CallbackReturns, LP!Returns,
              Loop!Returns, LP!epollVars, Loop!epollVars, LP!batchVars, Loop!batchVars
<1> QED
  BY <1>1, <1>2, <1>3, <1>4, <1>5, <1>6, <1>7, <1>8

\* A new batch: epoll saw the connection readable if its event is in it.
LEMMA PollHolds ==
  ASSUME ServerInv, UNCHANGED <<vars, noise, conn>>, Loop!PollEvents, due'
  PROVE  ServerInv'
<1> DEFINE F == LP!Fetched
<1>1. LP!LoopInv'
  <2>1. LP!Next
    BY LoopMoves DEF vars
  <2> QED
    BY <2>1, LP!NextKeepsLoop, LoopAssumption DEF ServerInv
<1>2. /\ F \in Seq({Conn, Other}) /\ Len(F) \in 0..NEvent
      /\ LP!Lists(F, {F[k] : k \in 1..Len(F)})
      /\ \A k \in 1..Len(F) : LP!Registered(F[k]) /\ LP!Reported(F[k]) # {}
  BY LP!FetchedValue, LoopAssumption DEF ServerInv, LP!LoopInv
<1>3. LP!Fetched = Loop!Fetched
  BY DEF LP!Fetched, Loop!Fetched, LP!ReadyList, Loop!ReadyList, LP!Only, Loop!Only,
         LP!Reported, Loop!Reported, LP!Registered, Loop!Registered, LP!Unregistered,
         Loop!Unregistered
<1>4. /\ \A k \in 1..NEvent : k <= Len(F) => arr'[k].ptr = interest[F[k]].ptr
      /\ nreturned' = Len(F) /\ i' = 1 /\ pc' = "callback" /\ pc = "poll"
      /\ UNCHANGED interest
  BY <1>3 DEF Loop!PollEvents
<1> HIDE DEF F
<1>5. ASSUME NEW k \in 1..Len(F)
      PROVE  arr'[k].ptr = F[k] /\ (F[k] = Conn => Readable)
  <2>1. F[k] \in {Conn, Other} /\ k \in 1..NEvent /\ k <= Len(F)
    BY <1>2, ElementOfSeq, ServerAssumption
  <2>2. Loop!Registered(F[k]) /\ Loop!Reported(F[k]) # {}
    BY <1>2 DEF LP!Reported, Loop!Reported, LP!Registered, Loop!Registered, LP!Unregistered,
                Loop!Unregistered
  <2>3. interest[F[k]].ptr = F[k]
    BY <2>1, <2>2 DEF ServerInv, PointersOwn
  <2> QED
    BY <1>4, <2>1, <2>2, <2>3, ReadableCond
<1>6. Readable' = Readable /\ rpc' = rpc /\ conn' = conn
  BY DEF Readable, vars
<1>7. BatchHolds'
  <2>1. ASSUME NEW j \in 1..Len(F), NEW k \in 1..Len(F), arr'[j].ptr = arr'[k].ptr
        PROVE  j = k
    BY <1>2, <1>5, <2>1 DEF LP!Lists
  <2>2. \A k \in 1..Len(F) : arr'[k].ptr = Conn => Readable'
    BY <1>5, <1>6
  <2>3. rpc' # "read"
    BY <1>4, <1>6 DEF ServerInv, WatchFirst
  <2> QED
    BY <1>4, <2>1, <2>2, <2>3 DEF BatchHolds
<1>8. WatchFirst'
  BY <1>4, <1>6 DEF ServerInv, WatchFirst
<1>9. PointersOwn'
  BY <1>4 DEF ServerInv, PointersOwn, Loop!Registered
<1> QED
  BY <1>1, <1>7, <1>8, <1>9 DEF ServerInv

\* The other steps of the program that are steps of the loop.
LEMMA LoopStepHolds ==
  ASSUME ServerInv,
         StartUp \/ Watch \/ WaitAgain \/ Close \/ CallbackEnds
           \/ (UNCHANGED <<vars, appVars>> /\ (Loop!PollInterrupted \/ Loop!PollError))
  PROVE  ServerInv'
<1> USE DEF ServerInv, PointersOwn, WatchFirst, appVars, Loop!waitVars, Loop!epollVars,
            Loop!Returns
<1>1. ASSUME LP!Next
      PROVE  LP!LoopInv'
  BY <1>1, LP!NextKeepsLoop, LoopAssumption
<1>2. Readable' = Readable /\ rpc' = rpc
  BY DEF StartUp, Watch, WaitAgain, Close, CallbackEnds, vars, Readable
<1>3. interest \in [{Conn, Other} -> LP!Interest \cup {LP!Unregistered}]
  BY DEF LP!LoopInv, LP!LoopTypeOK
<1>4. CASE StartUp
  <2>1. LP!LoopInv'
    BY <1>1, <1>4, LoopMoves DEF StartUp, vars
  <2>2. PointersOwn' /\ WatchFirst' /\ pc' # "callback"
    BY <1>2, <1>3, <1>4 DEF StartUp, Loop!event_base_create, Loop!event_add_read, Loop!Add,
                            Loop!Registered
  <2> QED
    BY <2>1, <2>2 DEF BatchHolds
<1>5. CASE Watch
  <2>1. LP!LoopInv'
    BY <1>1, <1>5, LoopMoves DEF Watch, vars
  <2>2. PointersOwn' /\ WatchFirst' /\ pc' # "callback"
    BY <1>2, <1>3, <1>5 DEF Watch, Ready, Loop!event_add_read, Loop!Add, Loop!Registered
  <2> QED
    BY <2>1, <2>2 DEF BatchHolds
<1>6. CASE WaitAgain
  <2>1. LP!LoopInv'
    BY <1>1, <1>6, LoopMoves DEF WaitAgain, vars
  <2>2. PointersOwn' /\ WatchFirst' /\ pc' # "callback"
    BY <1>2, <1>6 DEF WaitAgain, Ready, Loop!Wait, Loop!Registered
  <2> QED
    BY <2>1, <2>2 DEF BatchHolds
<1>7. CASE Close
  <2>1. /\ UNCHANGED <<vars, noise, due, pc, arr, nreturned, i>> /\ conn' = "closed"
        /\ Loop!event_del(Conn) \/ UNCHANGED loopVars
    BY <1>7 DEF Close, Loop!event_del, loopVars
  <2>2. LP!LoopInv' /\ PointersOwn'
    <3>1. CASE UNCHANGED loopVars
      BY <3>1, LoopStays
    <3>2. CASE Loop!event_del(Conn)
      <4>1. LP!LoopInv'
        BY <1>1, <2>1, <3>2, LoopMoves DEF vars
      <4>2. PointersOwn'
        BY <1>3, <3>2 DEF Loop!event_del, Loop!Forget, Loop!Registered
      <4> QED
        BY <4>1, <4>2
    <3> QED
      BY <2>1, <3>1, <3>2
  <2>3. WatchFirst' /\ BatchHolds'
    BY <1>2, <2>1 DEF BatchHolds
  <2> QED
    BY <2>2, <2>3
<1>8. CASE CallbackEnds
  <2>1. LP!LoopInv'
    BY <1>1, <1>8, LoopMoves DEF CallbackEnds, vars
  <2>2. /\ UNCHANGED <<interest, arr, conn>> /\ pc = "callback" /\ rpc # "read"
        /\ \/ pc' = "idle"
           \/ pc' = "callback" /\ i < nreturned /\ i' = i + 1 /\ nreturned' = nreturned
    BY <1>8 DEF CallbackEnds, Loop!CallbackReturns
  <2>3. PointersOwn' /\ WatchFirst'
    BY <1>2, <2>2 DEF Loop!Registered
  <2>4. BatchHolds'
    <3> SUFFICES ASSUME pc' = "callback" PROVE BatchHolds'
      BY DEF BatchHolds
    <3>1. i' = i + 1 /\ nreturned' = nreturned /\ i \in Nat
      BY <2>2 DEF LP!LoopInv, LP!BatchIsCurrent
    <3>2. \A k \in i'..nreturned : k \in i..nreturned /\ k > i
      BY <3>1, <2>2 DEF LP!LoopInv, LP!BatchIsCurrent
    <3> QED
      BY <1>2, <2>2, <3>1, <3>2 DEF BatchHolds
  <2> QED
    BY <2>1, <2>3, <2>4
<1>9. CASE UNCHANGED <<vars, appVars>> /\ (Loop!PollInterrupted \/ Loop!PollError)
  <2>1. LP!LoopInv'
    BY <1>1, <1>9, LoopMoves DEF vars
  <2>2. PointersOwn' /\ WatchFirst' /\ pc' # "callback"
    BY <1>2, <1>9 DEF Loop!PollInterrupted, Loop!PollError, Loop!Registered
  <2> QED
    BY <2>1, <2>2 DEF BatchHolds
<1> QED
  BY <1>4, <1>5, <1>6, <1>7, <1>8, <1>9

\* The steps of the stream and of the callbacks leave the loop alone.
LEMMA StreamStepHolds ==
  ASSUME ServerInv, StreamInv,
         \/ \E n \in 1..MaxIO : ReadFirst(n) \/ CallbackReads(n)
         \/ RecvReturns \/ CallbackDrains \/ Arrival \/ Sender
         \/ Break /\ UNCHANGED <<loopVars, appVars>>
  PROVE  ServerInv'
<1> USE DEF ServerInv, BatchHolds, appVars
<1>1. UNCHANGED loopVars /\ UNCHANGED conn
  BY DEF ReadFirst, CallbackReads, RecvReturns, CallbackDrains, Arrival, Sender
<1>2. UNCHANGED <<pc, arr, nreturned, i>>
  BY <1>1 DEF loopVars
<1>3. LP!LoopInv' /\ PointersOwn'
  BY <1>1, LoopStays
<1>4. pc = "callback" => i \in Nat /\ nreturned \in Nat /\ i <= nreturned
  BY ServerAssumption DEF LP!LoopInv, LP!BatchIsCurrent
<1>5. ASSUME NEW n \in 1..MaxIO, ReadFirst(n)
      PROVE  BatchHolds' /\ WatchFirst'
  BY <1>1, <1>2, <1>5 DEF ReadFirst, Ready, WatchFirst
<1>6. ASSUME NEW n \in 1..MaxIO, CallbackReads(n)
      PROVE  BatchHolds' /\ WatchFirst'
  <2>1. /\ pc = "callback" /\ arr[i].ptr = Conn /\ due /\ ~due'
        /\ Readable' = Readable
    BY <1>6 DEF CallbackReads, Loop!CallbackPtr, RecvCall, Readable
  <2>2. i \in i..nreturned
    BY <1>4, <2>1
  <2> QED
    BY <1>1, <1>2, <2>1, <2>2 DEF WatchFirst
<1>7. CASE RecvReturns
  <2>1. rpc = "read" /\ rpc' = "idle" /\ due' = due
    BY <1>7 DEF RecvReturns, RecvSome, RecvEof, RecvAgain, RecvError, RecvReturn
  <2>2. WatchFirst'
    BY <1>1, <1>2, <2>1 DEF WatchFirst
  <2>3. ASSUME pc = "callback", NEW k \in i..nreturned, arr[k].ptr = Conn
        PROVE  ~(k > i)
    <3>1. arr[i].ptr = Conn /\ k \in 1..nreturned /\ i \in 1..nreturned
      BY <2>1, <2>3 DEF LP!LoopInv, LP!BatchIsCurrent
    <3> QED
      BY <1>4, <2>3, <3>1
  <2> QED
    BY <1>2, <1>3, <1>4, <2>1, <2>2, <2>3
<1>8. CASE CallbackDrains
  BY <1>1, <1>2, <1>3, <1>8 DEF CallbackDrains, vars, Readable, WatchFirst
<1>9. CASE Arrival
  BY <1>1, <1>2, <1>3, <1>9 DEF Arrival, vars, Readable, WatchFirst
<1>10. CASE Sender \/ (Break /\ UNCHANGED <<loopVars, appVars>>)
  <2>1. rpc' = rpc /\ due' = due
    BY <1>10 DEF Sender, SendStep, SendCall, SendSome, SendInterrupted, SendAgain, SendZero,
                 SendError, Shutdown, Break, recvVars, vars
  <2>2. Readable => Readable'
    <3>1. ASSUME NEW k \in 1..MaxIO, SendSome(k)
          PROVE  wire' # <<>>
      <4> DEFINE new == [j \in 1..k |-> handed + j]
      <4>1. wire' = wire \o new /\ new \in Seq(Nat) /\ Len(new) = k /\ wire \in Seq(Nat)
        BY <3>1 DEF SendSome, StreamInv, StreamTypeOK
      <4> HIDE DEF new
      <4>2. wire \o new \in Seq(Nat) /\ Len(wire \o new) = Len(wire) + k
        BY ONLY <4>1, ConcatProperties
      <4>3. Len(wire') # 0
        BY <4>1, <4>2, LenProperties, SockIOAssumption
      <4> QED
        BY <4>3, EmptySeq
    <3> QED
      BY <1>10, <3>1 DEF Sender, SendStep, SendCall, SendSome, SendInterrupted, SendAgain,
                         SendZero, SendError, Shutdown, Break, vars, Readable
  <2> QED
    BY <1>1, <1>2, <1>3, <2>1, <2>2 DEF WatchFirst
<1> QED
  BY <1>3, <1>5, <1>6, <1>7, <1>8, <1>9, <1>10

LEMMA ServerNextHolds ==
  ASSUME ServerInv, StreamInv, [ServerNext]_allVars
  PROVE  ServerInv'
<1>1. CASE UNCHANGED allVars
  <2>1. LP!LoopInv' /\ PointersOwn'
    BY <1>1, LoopStays DEF allVars, ServerInv
  <2>2. BatchHolds' /\ WatchFirst'
    BY <1>1 DEF allVars, loopVars, appVars, vars, ServerInv, BatchHolds, WatchFirst, Readable
  <2> QED
    BY <2>1, <2>2 DEF ServerInv
<1>2. CASE UNCHANGED <<vars, noise, conn>> /\ Loop!PollEvents /\ due' = TRUE
  BY <1>2, PollHolds
<1> QED
  BY <1>1, <1>2, LoopStepHolds, StreamStepHolds DEF ServerNext, Program, Poll

\* For streams, calls and batches of any size: sock_recv, called when the event loop
\* says so, never returns CMN_EAGAIN, whatever the callbacks before it in the batch did.
THEOREM CalledForData == ServerSpec => CallbackFindsData
<1>1. ServerInit => ServerInv
  <2> SUFFICES ASSUME ServerInit PROVE ServerInv
    OBVIOUS
  <2>1. LP!Init
    BY DEF ServerInit, Loop!Init, LP!Init, LP!Unregistered, Loop!Unregistered, LP!NoEntry,
           Loop!NoEntry
  <2>2. LP!LoopInv
    BY <2>1, LP!InitLoopInv, LoopAssumption
  <2>3. PointersOwn /\ BatchHolds /\ WatchFirst
    BY DEF ServerInit, Loop!Init, Loop!Registered, PointersOwn, BatchHolds, WatchFirst
  <2> QED
    BY <2>2, <2>3 DEF ServerInv
<1>2. ServerInv /\ StreamInv /\ [ServerNext]_allVars => ServerInv'
  BY ServerNextHolds
<1>3. ServerInv /\ [ServerNext]_allVars => [pc = "callback" => ~RecvAgain]_allVars
  <2> SUFFICES ASSUME ServerInv, pc = "callback", RecvAgain PROVE FALSE
    BY DEF allVars
  <2>1. i \in i..nreturned /\ arr[i].ptr = Conn /\ rpc = "read"
    BY ServerAssumption DEF ServerInv, LP!LoopInv, LP!BatchIsCurrent, BatchHolds, RecvAgain
  <2> QED
    BY <2>1 DEF ServerInv, BatchHolds, RecvAgain, Readable
<1> QED
  BY <1>1, <1>2, <1>3, AlwaysStreamInv, PTL DEF ServerSpec, CallbackFindsData
=============================================================================
