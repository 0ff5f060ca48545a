--------------------------------- MODULE Sock ---------------------------------
(***************************************************************************)
(* cmn/cmn_sock.c: the life of the descriptors behind sock_conns.          *)
(*                                                                         *)
(* Every connection is opened, used and closed by a thread of its own; the *)
(* threads share the process's descriptor table with the rest of the       *)
(* program, which opens and closes files too.  The kernel hands out the    *)
(* lowest free descriptor, so a number is soon used again for something    *)
(* else.  The application keeps to the obvious rules: it opens a sock_conn *)
(* that is not up, and closes one that is, once.                           *)
(***************************************************************************)
EXTENDS Integers

CONSTANTS
  Listener, Client,  \* the sock_conns created with is_listen, and the others
  MaxFd,             \* bound: the highest descriptor
  MaxPending,        \* bound: the most connections waiting on a listener
  StdinOpen          \* does the program keep descriptor 0 open for itself?

Conn == Listener \cup Client

\* A sock_conn is none of the other things a descriptor may stand for.
ASSUME SockAssumption ==
  /\ Conn \cap {"free", "other", "log", "rejected"} = {}
  /\ MaxFd \in Nat /\ MaxPending \in Nat
  /\ StdinOpen \in BOOLEAN

VARIABLES
  table,   \* what each descriptor stands for: "free", the "other" files of the
           \* program, its "log" (module Log), a connection being "rejected", or
           \* the socket of a sock_conn
  others,  \* the descriptors that the rest of the program holds
  sd, err, \* of every sock_conn
  made,    \* the sock_conns that exist
  up,      \* those whose sock_connect, sock_listen or sock_accept returned true
           \* and which were not closed since
  pc,      \* of the thread of a sock_conn
  rsd,     \* local sd of sock_reject_all
  pending  \* connections that wait to be accepted

vars == <<table, others, sd, err, made, up, pc, rsd, pending>>

Fds == 0..MaxFd
FreeFds == {fd \in Fds : table[fd] = "free"}

\* The descriptor that the kernel hands out next, if there is one.
NextFd == {fd \in FreeFds : \A free \in FreeFds : fd <= free}

Init ==
  /\ others = IF StdinOpen THEN {0} ELSE {}
  /\ table = [fd \in Fds |-> IF fd \in others THEN "other" ELSE "free"]
  /\ sd = [c \in Conn |-> 0] /\ err = [c \in Conn |-> "none"]
  /\ made = {} /\ up = {}
  /\ pc = [c \in Conn |-> "idle"]
  /\ rsd = [c \in Listener |-> -1]
  /\ pending = [c \in Listener |-> 0]

\* The system call close: EBADF, which every caller ignores, if fd is not open.
CloseFd(fd) == [table EXCEPT ![fd] = "free"]

\* What the error exits of sock_connect and sock_listen do to the table.
CloseOnErrorKeeps(fd) == table

CloseOnError(fd) == IF fd > 0 THEN CloseFd(fd) ELSE table

-------------------------------------------------------------------------------
\* memset: every field is 0, sd too.
sock_conn_create(c) ==
  /\ c \notin made
  /\ made' = made \cup {c}
  /\ sd' = [sd EXCEPT ![c] = 0] /\ err' = [err EXCEPT ![c] = "none"]
  /\ UNCHANGED <<table, others, up, pc, rsd, pending>>

\* The sock_conn is freed; its descriptor is the application's concern.
sock_conn_destroy(c) ==
  /\ c \in made \ up /\ pc[c] = "idle"
  /\ made' = made \ {c}
  /\ UNCHANGED <<table, others, sd, err, up, pc, rsd, pending>>

MayOpen(c) == c \in made \ up /\ pc[c] = "idle"

\* sock_connect and sock_listen start with socket().
Socket(c) ==
  /\ MayOpen(c)
  /\ \E fd \in NextFd :
       /\ sd' = [sd EXCEPT ![c] = fd]
       /\ table' = [table EXCEPT ![fd] = c]
  /\ pc' = [pc EXCEPT ![c] = "opening"]
  /\ UNCHANGED <<others, err, made, up, rsd, pending>>

\* socket() fails, out of descriptors or for any other reason.  Only sock_connect
\* records errno.
SocketFails(c) ==
  /\ MayOpen(c)
  /\ sd' = [sd EXCEPT ![c] = -1]
  /\ err' = IF c \in Client THEN [err EXCEPT ![c] = "errno"] ELSE err
  /\ UNCHANGED <<table, others, made, up, pc, rsd, pending>>

\* The socket options are set and connect succeeds or is in progress; or bind and
\* listen succeed: true is returned.
Opened(c) ==
  /\ pc[c] = "opening"
  /\ up' = up \cup {c}
  /\ pc' = [pc EXCEPT ![c] = "idle"]
  /\ UNCHANGED <<table, others, sd, err, made, rsd, pending>>

\* One of those calls fails: false is returned.  sd keeps the number.
OpenFails(c) ==
  /\ pc[c] = "opening"
  /\ table' = CloseOnError(sd[c])
  /\ err' = IF c \in Client THEN [err EXCEPT ![c] = "errno"] ELSE err
  /\ pc' = [pc EXCEPT ![c] = "idle"]
  /\ UNCHANGED <<others, sd, made, up, rsd, pending>>

\* The descriptor is closed, the sock_conn keeps its number.
sock_close(c) ==
  /\ c \in up /\ pc[c] = "idle"
  /\ table' = CloseFd(sd[c])
  /\ up' = up \ {c}
  /\ pending' = IF c \in Listener THEN [pending EXCEPT ![c] = 0] ELSE pending
  /\ UNCHANGED <<others, sd, err, made, pc, rsd>>

-------------------------------------------------------------------------------
(* The listener's side *)

\* The new descriptor goes to the listener's sock_conn.
AcceptIntoListener(l, c) ==
  /\ l \in up /\ pending[l] > 0
  /\ MayOpen(c)
  /\ \E fd \in NextFd :
       /\ sd' = [sd EXCEPT ![l] = fd]
       /\ table' = [table EXCEPT ![fd] = c]
  /\ up' = up \cup {c}
  /\ pending' = [pending EXCEPT ![l] = @ - 1]
  /\ UNCHANGED <<others, err, made, pc, rsd>>

\* The result of accept is not looked at.
AcceptUnchecked(l, c) ==
  /\ l \in up
  /\ MayOpen(c)
  /\ \E fd \in NextFd :
       /\ sd' = [sd EXCEPT ![c] = fd]
       /\ table' = [table EXCEPT ![fd] = c]
  /\ up' = up \cup {c}
  /\ pending' = [pending EXCEPT ![l] = @ - 1]
  /\ UNCHANGED <<others, err, made, pc, rsd>>

\* accept, called again after EINTR, gives a descriptor; that its options cannot be
\* set is logged and ignored.
sock_accept(l, c) ==
  /\ l \in up /\ pending[l] > 0
  /\ MayOpen(c)
  /\ \E fd \in NextFd :
       /\ sd' = [sd EXCEPT ![c] = fd]
       /\ table' = [table EXCEPT ![fd] = c]
  /\ up' = up \cup {c}
  /\ pending' = [pending EXCEPT ![l] = @ - 1]
  /\ UNCHANGED <<others, err, made, pc, rsd>>

\* accept fails, for whatever reason: sock_accept returns false.
AcceptFails(l) == l \in up /\ UNCHANGED vars

sock_reject_all(l) ==
  /\ l \in up /\ pc[l] = "idle"
  /\ pc' = [pc EXCEPT ![l] = "rejecting"]
  /\ UNCHANGED <<table, others, sd, err, made, up, rsd, pending>>

RejectAccept(l) ==
  /\ pc[l] = "rejecting" /\ rsd[l] = -1
  /\ pending[l] > 0
  /\ \E fd \in NextFd :
       /\ rsd' = [rsd EXCEPT ![l] = fd]
       /\ table' = [table EXCEPT ![fd] = "rejected"]
  /\ pending' = [pending EXCEPT ![l] = @ - 1]
  /\ UNCHANGED <<others, sd, err, made, up, pc>>

\* The number is kept, and closed again.
RejectCloseAgain(l) ==
  /\ pc[l] = "rejecting" /\ rsd[l] # -1
  /\ table' = CloseFd(rsd[l])
  /\ UNCHANGED <<others, sd, err, made, up, pc, rsd, pending>>

RejectClose(l) ==
  /\ pc[l] = "rejecting" /\ rsd[l] # -1
  /\ table' = CloseFd(rsd[l])
  /\ rsd' = [rsd EXCEPT ![l] = -1]
  /\ UNCHANGED <<others, sd, err, made, up, pc, pending>>

\* accept fails: nobody waits any more, there is no descriptor to reject with, or
\* whatever else; some may be left waiting.
RejectEnds(l) ==
  /\ pc[l] = "rejecting" /\ rsd[l] = -1
  /\ pc' = [pc EXCEPT ![l] = "idle"]
  /\ UNCHANGED <<table, others, sd, err, made, up, rsd, pending>>

-------------------------------------------------------------------------------
(* The rest of the program and of the world *)

OtherOpens ==
  /\ \E fd \in NextFd :
       /\ table' = [table EXCEPT ![fd] = "other"]
       /\ others' = others \cup {fd}
  /\ UNCHANGED <<sd, err, made, up, pc, rsd, pending>>

OtherCloses(fd) ==
  /\ fd \in others /\ (fd = 0 => ~StdinOpen)
  /\ table' = CloseFd(fd)
  /\ others' = others \ {fd}
  /\ UNCHANGED <<sd, err, made, up, pc, rsd, pending>>

Arrives(l) ==
  /\ l \in up /\ pending[l] < MaxPending
  /\ pending' = [pending EXCEPT ![l] = @ + 1]
  /\ UNCHANGED <<table, others, sd, err, made, up, pc, rsd>>

Next ==
  \/ \E c \in Conn :
       \/ sock_conn_create(c) \/ sock_conn_destroy(c)
       \/ Socket(c) \/ SocketFails(c) \/ Opened(c) \/ OpenFails(c) \/ sock_close(c)
  \/ \E l \in Listener :
       \/ \E c \in Client : sock_accept(l, c)
       \/ AcceptFails(l) \/ Arrives(l)
       \/ sock_reject_all(l) \/ RejectAccept(l) \/ RejectClose(l) \/ RejectEnds(l)
  \/ OtherOpens
  \/ \E fd \in Fds : OtherCloses(fd)

Spec == Init /\ [][Next]_vars

-------------------------------------------------------------------------------
(* Properties *)

TypeOK ==
  /\ table \in [Fds -> Conn \cup {"free", "other", "log", "rejected"}]
  /\ others \subseteq Fds
  /\ sd \in [Conn -> Fds \cup {-1}] /\ err \in [Conn -> {"none", "errno"}]
  /\ made \subseteq Conn /\ up \subseteq made
  /\ pc \in [Conn -> {"idle", "opening", "rejecting"}]
  /\ rsd \in [Listener -> Fds \cup {-1}]
  /\ pending \in [Listener -> 0..MaxPending]

\* A sock_conn that is up has the descriptor of its own socket, whatever numbers
\* the failed, closed and rejected ones of the other threads left behind.
OwnsDescriptor == \A c \in up : sd[c] \in Fds /\ table[sd[c]] = c

\* The library closes no descriptor of the rest of the program, and hands none of
\* its own over to it.
OthersKept == \A fd \in Fds : table[fd] = "other" <=> fd \in others

\* No socket stays open that neither a sock_conn that is up, nor a call in progress,
\* could ever close (the checks `sd < 0` of cmn_sock.c:298 and `sc->sd >= 0` of
\* cmn_sock.c:410 take 0 for a descriptor like any other).
NoLeak ==
  \A fd \in Fds :
    /\ table[fd] \in Conn =>
         /\ sd[table[fd]] = fd
         /\ table[fd] \in up \/ pc[table[fd]] = "opening"
    /\ table[fd] = "rejected" => \E l \in Listener : rsd[l] = fd
=============================================================================
