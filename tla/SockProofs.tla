------------------------------ MODULE SockProofs ------------------------------
(***************************************************************************)
(* Proofs about Log, that is about Sock and the logger in one descriptor   *)
(* table, for any number of sock_conns and descriptors: everyone has a     *)
(* descriptor of its own, nobody's is closed by another, none is left open.*)
(***************************************************************************)
EXTENDS Log, TLAPS

-------------------------------------------------------------------------------
(* The inductive invariant. *)

LogTypeOK ==
  /\ logfd \in Fds \cup {-1}
  /\ nerror \in Nat
  /\ lpc \in {"closed", "open", "reopening"}

\* up alone is not inductive: Opened relies on what Socket did before it.
\* A sock_conn that is up, or is being opened, has its own descriptor.
Holds(c) == c \in up \/ pc[c] = "opening"

HoldersOwn ==
  \A c \in Conn :
    /\ pc[c] = "opening" => c \in made \ up
    /\ Holds(c) => sd[c] \in Fds /\ table[sd[c]] = c

\* So has a listener that is rejecting a connection.
RejectersOwn ==
  \A l \in Listener : rsd[l] # -1 =>
    /\ table[rsd[l]] = "rejected"
    /\ \A k \in Listener : rsd[k] = rsd[l] => k = l

\* The test `sd > 0` of the error exits only matters where 0 could be handed out.
StdinKept == StdinOpen => 0 \in others

IInv ==
  /\ TypeOK
  /\ LogTypeOK
  /\ HoldersOwn
  /\ RejectersOwn
  /\ OthersKept
  /\ LogKeepsOneFile
  /\ StdinKept
  /\ StdinOpen => NoLeak

\* Nothing is open at the start but descriptor 0, if the program keeps it.
LEMMA InitIInv == LogInit => IInv
BY SockAssumption, LogAssumption
   DEF LogInit, Init, IInv, TypeOK, LogTypeOK, HoldersOwn, Holds, RejectersOwn,
       OthersKept, LogKeepsOneFile, StdinKept, NoLeak, Conn, Fds

-------------------------------------------------------------------------------
(* The steps of the library and of the program around it.                    *)

\* A step takes a free number, closes one that its caller owns, or leaves the table
\* alone.
LEMMA SockKeeps ==
  ASSUME IInv, Next, UNCHANGED logVars
  PROVE  IInv'
<1> USE SockAssumption, LogAssumption
    DEF TypeOK, LogTypeOK, HoldersOwn, Holds, RejectersOwn, OthersKept,
        LogKeepsOneFile, StdinKept, NoLeak, IInv, Conn, Fds, logVars
<1>1. \A c \in Conn : sock_conn_create(c) => IInv'
  BY DEF sock_conn_create
<1>2. \A c \in Conn : sock_conn_destroy(c) => IInv'
  BY DEF sock_conn_destroy
<1>3. \A c \in Conn : Socket(c) => IInv'
  BY DEF Socket, MayOpen, NextFd, FreeFds
<1>4. \A c \in Conn : SocketFails(c) => IInv'
  BY DEF SocketFails, MayOpen
<1>5. \A c \in Conn : Opened(c) => IInv'
  BY DEF Opened
<1>6. \A c \in Conn : OpenFails(c) => IInv'
  BY DEF OpenFails, CloseOnError, CloseFd
<1>7. \A c \in Conn : sock_close(c) => IInv'
  BY DEF sock_close, CloseFd
<1>8. ASSUME NEW l \in Listener, NEW c \in Client, sock_accept(l, c) PROVE IInv'
  <2>1. PICK fd \in NextFd : /\ sd' = [sd EXCEPT ![c] = fd]
                            /\ table' = [table EXCEPT ![fd] = c]
    BY <1>8 DEF sock_accept
  <2>2. fd \in Fds /\ table[fd] = "free"
    BY DEF NextFd, FreeFds
  <2>3. HoldersOwn' /\ RejectersOwn'
    BY <1>8, <2>1, <2>2 DEF sock_accept, MayOpen
  <2>4. (StdinOpen => NoLeak)'
    BY <1>8, <2>1, <2>2 DEF sock_accept, MayOpen
  <2> QED
    BY <1>8, <2>1, <2>2, <2>3, <2>4 DEF sock_accept, MayOpen
<1>9. \A l \in Listener : AcceptFails(l) => IInv'
  BY SMTT(20) DEF AcceptFails, vars
<1>10. \A l \in Listener : Arrives(l) => IInv'
  BY DEF Arrives
<1>11. \A l \in Listener : sock_reject_all(l) => IInv'
  BY DEF sock_reject_all
<1>12. ASSUME NEW l \in Listener, RejectAccept(l) PROVE IInv'
  <2>1. PICK fd \in NextFd : /\ rsd' = [rsd EXCEPT ![l] = fd]
                            /\ table' = [table EXCEPT ![fd] = "rejected"]
    BY <1>12 DEF RejectAccept
  <2>2. fd \in Fds /\ table[fd] = "free"
    BY DEF NextFd, FreeFds
  <2>3. RejectersOwn'
    BY <1>12, <2>1, <2>2 DEF RejectAccept
  <2>4. (StdinOpen => NoLeak)'
    BY <1>12, <2>1, <2>2 DEF RejectAccept
  <2> QED
    BY <1>12, <2>1, <2>2, <2>3, <2>4 DEF RejectAccept
<1>13. \A l \in Listener : RejectClose(l) => IInv'
  BY DEF RejectClose, CloseFd
<1>14. \A l \in Listener : RejectEnds(l) => IInv'
  BY DEF RejectEnds
<1>15. OtherOpens => IInv'
  BY DEF OtherOpens, NextFd, FreeFds
<1>16. \A fd \in Fds : OtherCloses(fd) => IInv'
  BY DEF OtherCloses, CloseFd
<1> QED
  BY <1>1, <1>2, <1>3, <1>4, <1>5, <1>6, <1>7, <1>8, <1>9, <1>10,
     <1>11, <1>12, <1>13, <1>14, <1>15, <1>16 DEF Next

-------------------------------------------------------------------------------
(* The steps of the logger.                                                  *)

\* The same of the steps of log_open, log_reopen and log_close; a line moves nothing.
LEMMA LogKeeps ==
  ASSUME IInv, log_open \/ log_close \/ ReopenCloses \/ ReopenOpens \/ LogLine \/ LogSilent
  PROVE  IInv'
<1> USE SockAssumption, LogAssumption
    DEF TypeOK, LogTypeOK, HoldersOwn, Holds, RejectersOwn, OthersKept,
        LogKeepsOneFile, StdinKept, NoLeak, IInv, Conn, Fds, logVars, sockVars
<1>1. ASSUME log_open PROVE IInv'
  <2>1. CASE \E fd \in NextFd : logfd' = fd /\ table' = [table EXCEPT ![fd] = "log"]
    <3>1. PICK fd \in NextFd : logfd' = fd /\ table' = [table EXCEPT ![fd] = "log"]
      BY <2>1
    <3>2. /\ fd \in Fds /\ table[fd] = "free"
          /\ \A f \in Fds : f # fd => table'[f] = table[f]
      BY <3>1 DEF NextFd, FreeFds
    <3>3. (StdinOpen => NoLeak)'
      BY <1>1, <3>1, <3>2 DEF log_open
    <3> QED
      BY <1>1, <3>1, <3>2, <3>3 DEF log_open
  <2>2. CASE logfd' = -1 /\ UNCHANGED table
    BY <1>1, <2>2 DEF log_open
  <2> QED
    BY <1>1, <2>1, <2>2 DEF log_open, OpenLog
<1>2. log_close => IInv'
  BY DEF log_close, CloseLog, CloseFd
<1>3. ReopenCloses => IInv'
  BY DEF ReopenCloses, CloseLog, CloseFd
<1>4. ASSUME ReopenOpens PROVE IInv'
  <2>1. CASE \E fd \in NextFd : logfd' = fd /\ table' = [table EXCEPT ![fd] = "log"]
    <3>1. PICK fd \in NextFd : logfd' = fd /\ table' = [table EXCEPT ![fd] = "log"]
      BY <2>1
    <3>2. /\ fd \in Fds /\ table[fd] = "free"
          /\ \A f \in Fds : f # fd => table'[f] = table[f]
      BY <3>1 DEF NextFd, FreeFds
    <3>3. (StdinOpen => NoLeak)'
      BY <1>4, <3>1, <3>2 DEF ReopenOpens
    <3> QED
      BY <1>4, <3>1, <3>2, <3>3 DEF ReopenOpens
  <2>2. CASE logfd' = -1 /\ UNCHANGED table
    BY <1>4, <2>2 DEF ReopenOpens
  <2> QED
    BY <1>4, <2>1, <2>2 DEF ReopenOpens, OpenLog
<1>5. LogLine => IInv'
  BY DEF LogLine
<1>6. LogSilent => IInv'
  BY DEF LogSilent, vars
<1> QED
  BY <1>1, <1>2, <1>3, <1>4, <1>5, <1>6

\* A stuttering step changes nothing.
LEMMA Stutter ==
  ASSUME IInv, UNCHANGED <<vars, logVars>>
  PROVE  IInv'
BY DEF IInv, TypeOK, LogTypeOK, HoldersOwn, Holds, RejectersOwn, OthersKept,
       LogKeepsOneFile, StdinKept, NoLeak, vars, logVars

-------------------------------------------------------------------------------
\* In every behaviour of connections, the log and the rest of the program, all
\* that the calls rely on holds.
THEOREM Invariance == LogSpec => []IInv
<1>1. LogInit => IInv
  BY InitIInv
<1>2. IInv /\ [LogNext]_<<vars, logVars>> => IInv'
  BY SockKeeps, LogKeeps, Stutter DEF LogNext
<1> QED
  BY <1>1, <1>2, PTL DEF LogSpec

\* Every variable of Sock keeps its type.
THEOREM TypeCorrect == LogSpec => []TypeOK
<1>1. IInv => TypeOK
  BY DEF IInv
<1> QED
  BY <1>1, Invariance, PTL

\* The descriptor of a connection that is up is its own, whatever numbers other
\* threads, the log and the rest of the program take and give up.
THEOREM Ownership == LogSpec => []OwnsDescriptor
<1>1. IInv => OwnsDescriptor
  BY DEF IInv, TypeOK, HoldersOwn, Holds, OwnsDescriptor
<1> QED
  BY <1>1, Invariance, PTL

\* No call of the library or the logger closes a file of the rest of the program.
THEOREM OthersUntouched == LogSpec => []OthersKept
<1>1. IInv => OthersKept
  BY DEF IInv
<1> QED
  BY <1>1, Invariance, PTL

\* In a program that keeps descriptor 0 for itself, no failure, rejection or close
\* leaves a socket open that nobody could close.
THEOREM NothingLeaks == ASSUME StdinOpen PROVE LogSpec => []NoLeak
<1>1. IInv => NoLeak
  BY DEF IInv
<1> QED
  BY <1>1, Invariance, PTL

\* The log is one open file, or none: reopening leaves nothing behind, and nobody
\* closes it by mistake.
THEOREM OneLogFile == LogSpec => []LogKeepsOneFile
<1>1. IInv => LogKeepsOneFile
  BY DEF IInv
<1> QED
  BY <1>1, Invariance, PTL
=============================================================================
