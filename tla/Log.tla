---------------------------------- MODULE Log ----------------------------------
(***************************************************************************)
(* cmn/cmn_log.c: the descriptor of the log file, in the table it shares   *)
(* with the sock_conns of Sock and the rest of the program.                *)
(*                                                                         *)
(* One thread opens, reopens (on a signal, say) and closes the log; every  *)
(* thread may write a line at any time, so one can be written while the    *)
(* descriptor is closed, or when its number already belongs to another     *)
(* file.  The log goes to a file; on the console nothing is ever closed.   *)
(* The numbers of the table are those other than STDERR_FILENO, which the  *)
(* program keeps open, so the tests against it are always true.            *)
(***************************************************************************)
EXTENDS Sock

CONSTANT MaxErrors  \* bound: the failed writes counted

ASSUME LogAssumption == MaxErrors \in Nat

VARIABLES
  logfd, nerror,  \* fd and nerror of the static struct logger
  lpc             \* the log is "closed", "open", or inside log_reopen: "reopening"

logVars == <<logfd, nerror, lpc>>
sockVars == <<others, sd, err, made, up, pc, rsd, pending>>

\* The logger is static: fd is 0 before log_open.
LogInit == Init /\ logfd = 0 /\ nerror = 0 /\ lpc = "closed"

\* open() of the file takes the lowest free descriptor, or fails.
OpenLog ==
  \/ \E fd \in NextFd : logfd' = fd /\ table' = [table EXCEPT ![fd] = "log"]
  \/ logfd' = -1 /\ UNCHANGED table

CloseLog == IF logfd \in Fds THEN CloseFd(logfd) ELSE table

\* CMN_ERROR leaves fd negative.
log_open ==
  /\ lpc = "closed"
  /\ OpenLog
  /\ lpc' = IF logfd' = -1 THEN "closed" ELSE "open"
  /\ UNCHANGED <<sockVars, nerror>>

log_close ==
  /\ lpc = "open"
  /\ table' = CloseLog
  /\ lpc' = "closed"
  /\ UNCHANGED <<sockVars, logfd, nerror>>

\* The descriptor is not closed: the next open takes another.
ReopenWithoutClose ==
  /\ lpc = "open"
  /\ lpc' = "reopening"
  /\ UNCHANGED <<table, sockVars, logfd, nerror>>

\* log_reopen closes the descriptor; fd keeps the number.
ReopenCloses ==
  /\ lpc = "open"
  /\ table' = CloseLog
  /\ lpc' = "reopening"
  /\ UNCHANGED <<sockVars, logfd, nerror>>

\* It opens the file again; that it cannot is ignored.
ReopenOpens ==
  /\ lpc = "reopening"
  /\ OpenLog
  /\ lpc' = "open"
  /\ UNCHANGED <<sockVars, nerror>>

\* _log in any thread: a line goes to whatever the number stands for now.  A write
\* that fails, as one to nothing does, is counted.
LogLine ==
  /\ logfd >= 0
  /\ nerror < MaxErrors
  /\ nerror' \in {nerror + 1} \cup (IF table[logfd] = "free" THEN {} ELSE {nerror})
  /\ UNCHANGED <<table, sockVars, logfd, lpc>>

\* After a failed open nothing is written.
LogSilent == logfd < 0 /\ UNCHANGED <<vars, logVars>>

LogNext ==
  \/ Next /\ UNCHANGED logVars
  \/ log_open \/ log_close \/ ReopenCloses \/ ReopenOpens \/ LogLine \/ LogSilent

LogSpec == LogInit /\ [][LogNext]_<<vars, logVars>>

-------------------------------------------------------------------------------
(* Properties *)

\* The log file is open once while the log is open (unless it could not be opened)
\* and never otherwise: no reopening leaves a descriptor behind, and no thread that
\* closes a connection closes the log instead.  While the log is open and not being
\* reopened, a line therefore goes to the log or nowhere.
LogKeepsOneFile ==
  \A fd \in Fds : table[fd] = "log" <=> (lpc = "open" /\ logfd = fd)
=============================================================================
