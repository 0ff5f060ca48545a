-------------------------------- MODULE SockIO --------------------------------
(***************************************************************************)
(* sock_send and sock_recv of cmn/cmn_sock.c on the two ends of one        *)
(* nonblocking stream: short transfers, EINTR retried inside the call,     *)
(* EAGAIN handed back, errors recorded, end of file.                       *)
(*                                                                         *)
(* The stream is external: a buffer of Room bytes that takes or gives any  *)
(* part of what is asked of it.  The sender's application sends the bytes  *)
(* 1, 2, .., Total, going on from where the results it got say it is.      *)
(***************************************************************************)
EXTENDS Integers, Sequences

CONSTANTS
  Room,   \* what the kernel buffers between the two ends
  Total,  \* bound: the bytes the application has to send
  MaxIO   \* bound: the most bytes asked for in one call

ASSUME SockIOAssumption ==
  /\ Room \in Nat \ {0}
  /\ Total \in Nat
  /\ MaxIO \in Nat \ {0}

VARIABLES
  wire,                   \* the bytes between the ends
  eof, broken,            \* the sender has shut down; the stream is reset
  spc, snbyte, send_nbyte, serr,  \* sock_send: in write() or not, its argument,
                                  \* and the counters of its sock_conn
  handed,                 \* bytes its application takes for sent
  rpc, rnbyte, recv_nbyte,  \* sock_recv likewise
  rstop,                    \* why the receiving application stops: "eof" after the
                            \* result 0, "reset" after CMN_ERROR
  got                       \* all it was given

sendVars == <<spc, snbyte, send_nbyte, serr, handed>>
recvVars == <<rpc, rnbyte, recv_nbyte, rstop, got>>
vars == <<wire, eof, broken, spc, snbyte, send_nbyte, serr, handed,
          rpc, rnbyte, recv_nbyte, rstop, got>>

Init ==
  /\ wire = <<>> /\ eof = FALSE /\ broken = FALSE
  /\ spc = "idle" /\ snbyte = 0 /\ send_nbyte = 0 /\ serr = "none" /\ handed = 0
  /\ rpc = "idle" /\ rnbyte = 0 /\ recv_nbyte = 0 /\ rstop = "none"
  /\ got = <<>>

Smaller(a, b) == IF a < b THEN a ELSE b

-------------------------------------------------------------------------------
(* sock_send *)

SendCall(n) ==
  /\ spc = "idle" /\ serr = "none" /\ ~eof
  /\ n <= Total - handed
  /\ spc' = "write" /\ snbyte' = n
  /\ UNCHANGED <<wire, eof, broken, send_nbyte, serr, handed, recvVars>>

SendReturn == spc' = "idle" /\ snbyte' = 0

\* write takes k of the bytes.
SendSome(k) ==
  /\ spc = "write" /\ ~broken
  /\ k <= Smaller(snbyte, Room - Len(wire))
  /\ wire' = wire \o [j \in 1..k |-> handed + j]
  /\ send_nbyte' = send_nbyte + k
  /\ handed' = handed + k
  /\ SendReturn
  /\ UNCHANGED <<eof, broken, serr, recvVars>>

\* EINTR: nothing was taken, the loop calls write again.
SendInterrupted == spc = "write" /\ UNCHANGED vars

\* EAGAIN: the buffer is full.
SendAgain ==
  /\ spc = "write" /\ ~broken
  /\ Len(wire) = Room
  /\ SendReturn
  /\ UNCHANGED <<wire, eof, broken, send_nbyte, serr, handed, recvVars>>

\* write takes nothing, without an error: CMN_OK.
SendZero ==
  /\ spc = "write" /\ ~broken
  /\ SendReturn
  /\ UNCHANGED <<wire, eof, broken, send_nbyte, serr, handed, recvVars>>

SendError ==
  /\ spc = "write" /\ broken
  /\ serr' = "reset"
  /\ SendReturn
  /\ UNCHANGED <<wire, eof, broken, send_nbyte, handed, recvVars>>

-------------------------------------------------------------------------------
(* sock_recv *)

RecvCall(n) ==
  /\ rpc = "idle" /\ rstop = "none"
  /\ rpc' = "read" /\ rnbyte' = n
  /\ UNCHANGED <<wire, eof, broken, recv_nbyte, rstop, got, sendVars>>

RecvReturn == rpc' = "idle" /\ rnbyte' = 0

\* The buffer is returned to the caller but left in the stream.
RecvSomePeeks(k) ==
  /\ rpc = "read" /\ ~broken
  /\ k <= Smaller(rnbyte, Len(wire))
  /\ got' = got \o SubSeq(wire, 1, k)
  /\ UNCHANGED wire
  /\ recv_nbyte' = recv_nbyte + k
  /\ RecvReturn
  /\ UNCHANGED <<eof, broken, rstop, sendVars>>

\* read gives k bytes.
RecvSome(k) ==
  /\ rpc = "read" /\ ~broken
  /\ k <= Smaller(rnbyte, Len(wire))
  /\ got' = got \o SubSeq(wire, 1, k)
  /\ wire' = SubSeq(wire, k + 1, Len(wire))
  /\ recv_nbyte' = recv_nbyte + k
  /\ RecvReturn
  /\ UNCHANGED <<eof, broken, rstop, sendVars>>

\* read returns 0: end of file.  sock_recv returns it, and records no error.
RecvEof ==
  /\ rpc = "read" /\ ~broken
  /\ eof /\ wire = <<>>
  /\ rstop' = "eof"
  /\ RecvReturn
  /\ UNCHANGED <<wire, eof, broken, recv_nbyte, got, sendVars>>

RecvInterrupted == rpc = "read" /\ UNCHANGED vars

\* EAGAIN is taken for the end of file.
RecvAgainIsEof ==
  /\ rpc = "read" /\ ~broken
  /\ wire = <<>> /\ ~eof
  /\ rstop' = "eof"
  /\ RecvReturn
  /\ UNCHANGED <<wire, eof, broken, recv_nbyte, got, sendVars>>

\* EAGAIN: nothing has arrived.
RecvAgain ==
  /\ rpc = "read" /\ ~broken
  /\ wire = <<>> /\ ~eof
  /\ RecvReturn
  /\ UNCHANGED <<wire, eof, broken, recv_nbyte, rstop, got, sendVars>>

RecvError ==
  /\ rpc = "read" /\ broken
  /\ rstop' = "reset"
  /\ RecvReturn
  /\ UNCHANGED <<wire, eof, broken, recv_nbyte, got, sendVars>>

-------------------------------------------------------------------------------
(* The rest of the world *)

\* The sender has sent all it had to and shuts down.
Shutdown ==
  /\ spc = "idle" /\ handed = Total /\ ~eof
  /\ eof' = TRUE
  /\ UNCHANGED <<wire, broken, sendVars, recvVars>>

\* The stream is reset.
Break ==
  /\ ~broken
  /\ broken' = TRUE
  /\ UNCHANGED <<wire, eof, sendVars, recvVars>>

SendStep ==
  \/ \E n \in 1..MaxIO : SendCall(n)
  \/ \E k \in 1..MaxIO : SendSome(k)
  \/ SendInterrupted \/ SendAgain \/ SendZero \/ SendError \/ Shutdown

RecvStep ==
  \/ \E n \in 1..MaxIO : RecvCall(n)
  \/ \E k \in 1..MaxIO : RecvSome(k)
  \/ RecvInterrupted \/ RecvEof \/ RecvAgain \/ RecvError

Next == SendStep \/ RecvStep \/ Break

Spec == Init /\ [][Next]_vars

-------------------------------------------------------------------------------
(* Properties *)

\* Short writes, retries and EAGAIN neither lose nor repeat nor reorder a byte, and
\* the counters of the two sock_conns differ by exactly what is on its way.
StreamIntact ==
  /\ got \o wire = [j \in 1..handed |-> j]
  /\ recv_nbyte = Len(got)
  /\ send_nbyte = recv_nbyte + Len(wire)

\* End of file is reported only after the last byte.
EofIsTheEnd == rstop = "eof" => Len(got) = Total

\* Every byte arrives and then the end of file, unless the stream is reset.
AllArrives == <>(broken \/ (rstop = "eof" /\ Len(got) = Total))
=============================================================================
