-------------------------------- MODULE Pidfile --------------------------------
(***************************************************************************)
(* cmn/cmn_pidfile.c beside cmn/cmn_shm.c: the processes of Shm also write *)
(* their number into one file, with a system call per step, and may crash  *)
(* or fork between any two of them.                                        *)
(*                                                                         *)
(* The file holds nothing, the number of a process, the first digits of    *)
(* one, or what is left when a number is written over a longer one.        *)
(***************************************************************************)
EXTENDS Shm

ASSUME PidfileAssumption == Proc \cap {"absent", "empty", "cut", "mixed"} = {}

VARIABLES
  file,   \* "absent", "empty", "cut", "mixed", or the process whose number it holds
  fpc,    \* of each process: "idle", or in pidfile_create about to "open" or to
          \* "write", be it to a file that is "unlinked"
  holds,  \* history: the processes that were told OK, until they end or somebody
          \* removes the file or replaces it with is_replace
  clash   \* history: has a pidfile_create overlapped with another one, or with a
          \* pidfile_remove?

pidVars == <<file, fpc, holds, clash>>

PidInit ==
  /\ ShmInit
  /\ file = "absent"
  /\ fpc = [p \in Proc |-> "idle"]
  /\ holds = {} /\ clash = FALSE

\* A process between two calls of the library.
Idle(p) == p \in alive /\ fpc[p] = "idle"

\* The pid file comes first: a program writes it before it uses the segment.
Starting(p) == Idle(p) /\ p \notin called

-------------------------------------------------------------------------------
(* pidfile_create *)

\* The size found by stat is not looked at.
StatAlwaysGoesOn(p, is_replace) ==
  /\ Starting(p)
  /\ file # "absent"
  /\ fpc' = [fpc EXCEPT ![p] = "open"]
  /\ holds' = IF is_replace THEN {} ELSE holds
  /\ clash' = (clash \/ \E q \in Proc : fpc[q] # "idle")
  /\ UNCHANGED <<shmVars, file>>

\* stat finds the file, and it is empty or may be replaced.
PidStat(p, is_replace) ==
  /\ Starting(p)
  /\ file # "absent"
  /\ file = "empty" \/ is_replace
  /\ fpc' = [fpc EXCEPT ![p] = "open"]
  /\ holds' = IF is_replace THEN {} ELSE holds
  /\ clash' = (clash \/ \E q \in Proc : fpc[q] # "idle")
  /\ UNCHANGED <<shmVars, file>>

\* stat fails, or finds a file that is in use: CMN_ERROR.
PidRefused(p, is_replace) ==
  /\ Starting(p)
  /\ file = "absent" \/ (file # "empty" /\ ~is_replace)
  /\ UNCHANGED <<shmVars, pidVars>>

\* open makes the file if it has gone since, and truncates it.
PidOpen(p) ==
  /\ p \in alive /\ fpc[p] = "open"
  /\ file' = "empty"
  /\ fpc' = [fpc EXCEPT ![p] = "write"]
  /\ UNCHANGED <<shmVars, holds, clash>>

PidOpenFails(p) ==
  /\ p \in alive /\ fpc[p] = "open"
  /\ fpc' = [fpc EXCEPT ![p] = "idle"]
  /\ UNCHANGED <<shmVars, file, holds, clash>>

\* write, close, CMN_OK.  Over a longer number, the end of that one stays.
PidWrite(p) ==
  /\ p \in alive /\ fpc[p] = "write"
  /\ file' \in IF file \in {"empty", p} THEN {p} ELSE {p, "mixed"}
  /\ holds' = holds \cup {p}
  /\ fpc' = [fpc EXCEPT ![p] = "idle"]
  /\ UNCHANGED <<shmVars, clash>>

\* write stores some of the digits: only a result below 0 is an error, so CMN_OK.
PidWriteShort(p) ==
  /\ p \in alive /\ fpc[p] = "write"
  /\ file' = IF file = "empty" THEN "cut" ELSE "mixed"
  /\ holds' = holds \cup {p}
  /\ fpc' = [fpc EXCEPT ![p] = "idle"]
  /\ UNCHANGED <<shmVars, clash>>

\* The file was unlinked since the open: CMN_OK, and the number is lost with it.
PidWriteLost(p) ==
  /\ p \in alive /\ fpc[p] = "unlinked"
  /\ holds' = holds \cup {p}
  /\ fpc' = [fpc EXCEPT ![p] = "idle"]
  /\ UNCHANGED <<shmVars, file, clash>>

\* write fails: the file stays empty.
PidWriteFails(p) ==
  /\ p \in alive /\ fpc[p] \in {"write", "unlinked"}
  /\ fpc' = [fpc EXCEPT ![p] = "idle"]
  /\ UNCHANGED <<shmVars, file, holds, clash>>

-------------------------------------------------------------------------------
\* unlink, whoever calls it; nothing is said of a failure.
pidfile_remove(p) ==
  /\ Idle(p)
  /\ file' = "absent"
  /\ fpc' = [q \in Proc |-> IF fpc[q] = "write" THEN "unlinked" ELSE fpc[q]]
  /\ holds' = {}
  /\ clash' = (clash \/ \E q \in Proc : fpc[q] # "idle")
  /\ UNCHANGED shmVars

\* Somebody makes the file that pidfile_create expects to find.
Touch ==
  /\ file = "absent"
  /\ file' = "empty"
  /\ UNCHANGED <<shmVars, fpc, holds, clash>>

PidfileCall(p) ==
  \/ \E is_replace \in BOOLEAN : PidStat(p, is_replace) \/ PidRefused(p, is_replace)
  \/ PidOpen(p) \/ PidOpenFails(p) \/ PidWrite(p) \/ PidWriteShort(p)
  \/ PidWriteLost(p) \/ PidWriteFails(p)
  \/ pidfile_remove(p)

\* The processes of Shm: a crash can hit the middle of pidfile_create, a fork and the
\* calls for the segment cannot.
PidExit(p) ==
  /\ Exit(p)
  /\ fpc' = [fpc EXCEPT ![p] = "idle"]
  /\ holds' = holds \ {p}
  /\ UNCHANGED <<file, clash>>

PidNext ==
  \/ Touch
  \/ \E p \in Proc :
       \/ PidfileCall(p)
       \/ /\ Idle(p) /\ (ShmCall(p) \/ \E q \in Proc : Fork(p, q))
          /\ UNCHANGED pidVars
       \/ Start(p) /\ UNCHANGED pidVars
       \/ PidExit(p)

PidSpec == PidInit /\ [][PidNext]_<<shmVars, pidVars>>

-------------------------------------------------------------------------------
(* Properties *)

\* As long as no pidfile_create overlaps with another one or with a pidfile_remove, the
\* process that was last told OK is the only one that was, until it ends or somebody
\* removes the file or asks for a replacement, and the file holds its number, or after a
\* short write the first digits of it: over refusals, failed opens and writes, and
\* crashes in the middle of pidfile_create.
PidfileNamesHolder == ~clash => \A p \in holds : holds = {p} /\ file \in {p, "cut"}
=============================================================================
