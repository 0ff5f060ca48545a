-------------------------------- MODULE Server --------------------------------
(***************************************************************************)
(* The event loop and a stream together: a program that waits for its      *)
(* connection and for another descriptor with event_wait, and reads from   *)
(* the connection with one sock_recv per callback.                         *)
(*                                                                         *)
(* The two libraries meet in the kernel: what epoll reports of the         *)
(* connection follows from the state of the stream.  The program is the    *)
(* simplest that uses both: it may read before it registers the            *)
(* connection, and then reads only when it is called back; at the end of   *)
(* the file or after an error it unregisters the connection and closes it. *)
(***************************************************************************)
EXTENDS SockIO

CONSTANTS
  Conn, Other,  \* the two descriptors, registered with themselves as pointers
  NEvent        \* the size of the batches

ASSUME ServerAssumption == Conn # Other /\ NEvent \in Nat \ {0}

VARIABLES
  interest, order, pc, arr, nreturned, i, timeout, left, moved, seen,  \* of EventLoop
  noise,  \* is there something to read on the other descriptor?
  conn,   \* the connection is "fresh", "watched" or "closed"
  due     \* has the callback that runs still to read?

loopVars == <<interest, order, pc, arr, nreturned, i, timeout, left, moved, seen>>
appVars == <<noise, conn, due>>
allVars == <<vars, loopVars, appVars>>

\* What holds of the two descriptors.
cond ==
  [fd \in {Conn, Other} |->
     IF fd = Other THEN (IF noise THEN {"IN"} ELSE {})
     ELSE (IF wire # <<>> \/ eof \/ broken THEN {"IN"} ELSE {})
            \cup (IF broken THEN {"HUP"} ELSE {})]

Loop == INSTANCE EventLoop
          WITH Fd <- {Conn, Other}, Ptr <- {Conn, Other}, Conds <- {}, Timeouts <- {}

ServerInit ==
  /\ Init
  /\ noise = FALSE /\ conn = "fresh" /\ due = FALSE
  /\ Loop!Init

-------------------------------------------------------------------------------
(* The program *)

\* It has an event base, its connection and its other descriptor.
StartUp ==
  /\ UNCHANGED <<vars, appVars>>
  /\ \/ Loop!event_base_create
     \/ pc = "idle" /\ Loop!event_add_read(Other, Other)

Ready == pc = "idle" /\ Loop!Registered(Other)

\* It reads before it waits for the first time.
ReadFirst(n) ==
  /\ Ready /\ conn = "fresh"
  /\ RecvCall(n)
  /\ UNCHANGED <<loopVars, appVars>>

Watch ==
  /\ Ready /\ conn = "fresh" /\ rpc = "idle" /\ rstop = "none"
  /\ conn' = "watched"
  /\ UNCHANGED <<vars, noise, due>>
  /\ Loop!event_add_read(Conn, Conn)

WaitAgain ==
  /\ Ready /\ conn # "fresh" /\ rpc = "idle"
  /\ UNCHANGED <<vars, appVars>>
  /\ Loop!Wait(Loop!Forever)

\* epoll_wait returns with events, or not; the first callback begins.
Poll ==
  \/ /\ UNCHANGED <<vars, noise, conn>>
     /\ Loop!PollEvents
     /\ due' = TRUE
  \/ /\ UNCHANGED <<vars, appVars>>
     /\ Loop!PollInterrupted \/ Loop!PollError

\* The callback of the connection calls sock_recv.
CallbackReads(n) ==
  /\ pc = "callback" /\ Loop!CallbackPtr = Conn /\ due
  /\ due' = FALSE
  /\ RecvCall(n)
  /\ UNCHANGED <<loopVars, noise, conn>>

\* sock_recv has returned 0 or an error.
Close ==
  /\ pc \in {"idle", "callback"} /\ rstop # "none" /\ conn # "closed"
  /\ conn' = "closed"
  /\ UNCHANGED <<vars, noise, due>>
  /\ IF conn = "watched" THEN Loop!event_del(Conn) ELSE UNCHANGED loopVars

\* The callback of the other descriptor reads what is there.
CallbackDrains ==
  /\ pc = "callback" /\ Loop!CallbackPtr = Other /\ due
  /\ due' = FALSE
  /\ noise' = FALSE
  /\ UNCHANGED <<vars, loopVars, conn>>

\* The callback is done and the loop goes on.
CallbackEnds ==
  /\ pc = "callback" /\ ~due /\ rpc = "idle"
  /\ rstop # "none" => conn = "closed"
  /\ UNCHANGED <<vars, noise, conn>>
  /\ Loop!CallbackReturns
  /\ due' = (pc' = "callback")

RecvReturns ==
  /\ \/ \E n \in 1..MaxIO : RecvSome(n)
     \/ RecvEof \/ RecvAgain \/ RecvError
  /\ UNCHANGED <<loopVars, appVars>>

Program ==
  \/ StartUp \/ Watch \/ WaitAgain \/ Poll \/ Close
  \/ \E n \in 1..MaxIO : ReadFirst(n) \/ CallbackReads(n)
  \/ CallbackDrains \/ CallbackEnds \/ RecvReturns

\* Something arrives on the other descriptor.
Arrival ==
  /\ ~noise
  /\ noise' = TRUE
  /\ UNCHANGED <<vars, loopVars, conn, due>>

Sender == SendStep /\ UNCHANGED <<loopVars, appVars>>

ServerNext == Program \/ Sender \/ Arrival \/ (Break /\ UNCHANGED <<loopVars, appVars>>)

ServerSpec == ServerInit /\ [][ServerNext]_allVars

\* The sender keeps sending until an error, and write does not take nothing for ever
\* while there is room; the program comes to register the connection, waits again,
\* returns from its callbacks and its calls; and epoll_wait does not fail for ever
\* with events to report.
LiveServerSpec ==
  /\ ServerSpec
  /\ WF_allVars(Sender) /\ WF_allVars(Program)
  /\ SF_allVars((\E k \in 1..MaxIO : SendSome(k)) /\ UNCHANGED <<loopVars, appVars>>)
  /\ SF_allVars(Watch) /\ SF_allVars(Poll /\ pc' = "callback")

-------------------------------------------------------------------------------
(* Properties *)

\* A callback told to read finds something to read: sock_recv never returns
\* CMN_EAGAIN to it, whatever the callbacks before it in the batch did.
CallbackFindsData == [][pc = "callback" => ~RecvAgain]_allVars
=============================================================================
