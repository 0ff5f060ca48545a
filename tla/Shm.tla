---------------------------------- MODULE Shm ----------------------------------
(***************************************************************************)
(* cmn/cmn_shm.c: a System V segment created under one key by programs     *)
(* that may crash, fork, and start again.                                  *)
(*                                                                         *)
(* Every process has one struct cmn_shm; it calls shm_create before the    *)
(* other operations, and after that any of them in any order, whatever the *)
(* results were.  The kernel (external) keeps a segment until it is        *)
(* removed and nobody has it attached, and never uses an identifier again. *)
(* Identifier 0 is the one of a segment that none of the processes made,   *)
(* and it is also what a fresh struct holds.                               *)
(***************************************************************************)
EXTENDS Integers

CONSTANTS
  Proc,    \* processes
  MaxSegs  \* bound: the segments created in a run

ASSUME ShmAssumption == MaxSegs \in Nat

VARIABLES
  alive,    \* the processes that run
  called,   \* those that called shm_create, or inherited a struct that did
  sid,      \* shm->sid, 0 until shmget is called
  addr,     \* shm->addr: Null, Failed, or the address shmat gave, named by its
            \* segment
  mapped,   \* kernel: the segments each process has attached
  keyed,    \* kernel: the segment found under the key, or NoSegment
  segs,     \* kernel: segments created so far; they are numbered from 1
  removed,  \* kernel: segments with IPC_RMID done
  family,   \* history: the processes that descend from the creator of a segment
  stuck     \* history: those that had something attached when a repeated
            \* shm_create failed

shmVars == <<alive, called, sid, addr, mapped, keyed, segs, removed, family, stuck>>

Segs == 1..MaxSegs
NoSegment == -1

\* NULL and (void *) -1.
Null == -2
Failed == -1

ShmInit ==
  /\ alive = {} /\ called = {}
  /\ sid = [p \in Proc |-> 0] /\ addr = [p \in Proc |-> Null]
  /\ mapped = [p \in Proc |-> {}]
  /\ keyed = NoSegment /\ segs = 0
  /\ removed \in {{}, {0}}  \* there may be no segment 0
  /\ family = [s \in Segs |-> {}] /\ stuck = {}

\* The kernel still knows a segment that is not removed, or that somebody has.
Exists(s) == s \in 0..segs /\ (s \in removed => \E p \in Proc : s \in mapped[p])

-------------------------------------------------------------------------------
\* shmget with IPC_CREAT | IPC_EXCL makes a segment.
CreateOk(p) ==
  /\ p \in alive
  /\ keyed = NoSegment /\ segs < MaxSegs
  /\ called' = called \cup {p}
  /\ segs' = segs + 1
  /\ keyed' = segs'
  /\ sid' = [sid EXCEPT ![p] = segs']
  /\ family' = [family EXCEPT ![segs'] = {p}]
  /\ stuck' = stuck \ {p}
  /\ UNCHANGED <<alive, addr, mapped, removed>>

\* IPC_EXCL is left out: shmget finds the segment of somebody else.
CreateKeepsSid(p) ==
  /\ p \in alive
  /\ called' = called \cup {p}
  /\ sid' = [sid EXCEPT ![p] = IF keyed # NoSegment THEN keyed ELSE -1]
  /\ UNCHANGED <<alive, addr, mapped, keyed, segs, removed, family, stuck>>

\* shmget fails: with EEXIST, or for want of memory or permission.
CreateFails(p) ==
  /\ p \in alive
  /\ called' = called \cup {p}
  /\ sid' = [sid EXCEPT ![p] = -1]
  /\ stuck' = IF mapped[p] # {} THEN stuck \cup {p} ELSE stuck
  /\ UNCHANGED <<alive, addr, mapped, keyed, segs, removed, family>>

\* There is no key and ftok fails: CMN_ERROR before shmget, and sid stays what it is
\* in a fresh struct.  A key, once there, is kept.
CreateNoKey(p) ==
  /\ p \in alive
  /\ sid[p] = 0
  /\ called' = called \cup {p}
  /\ UNCHANGED <<alive, sid, addr, mapped, keyed, segs, removed, family, stuck>>

\* A second shmat is not refused.
AttachAgain(p) ==
  /\ p \in alive \cap called
  /\ sid[p] >= 0
  /\ IF Exists(sid[p])
     THEN /\ addr' = [addr EXCEPT ![p] = sid[p]]
          /\ mapped' = [mapped EXCEPT ![p] = @ \cup {sid[p]}]
     ELSE /\ addr' = [addr EXCEPT ![p] = Failed]
          /\ UNCHANGED mapped
  /\ UNCHANGED <<alive, called, sid, keyed, segs, removed, family, stuck>>

\* Refused if sid is invalid or addr is set.  Failed counts as set.
shm_attch(p) ==
  /\ p \in alive \cap called
  /\ sid[p] >= 0 /\ addr[p] = Null
  /\ IF Exists(sid[p])
     THEN /\ addr' = [addr EXCEPT ![p] = sid[p]]
          /\ mapped' = [mapped EXCEPT ![p] = @ \cup {sid[p]}]
     ELSE /\ addr' = [addr EXCEPT ![p] = Failed]
          /\ UNCHANGED mapped
  /\ UNCHANGED <<alive, called, sid, keyed, segs, removed, family, stuck>>

AttachRefused(p) ==
  /\ p \in alive \cap called
  /\ sid[p] < 0 \/ addr[p] # Null
  /\ UNCHANGED shmVars

\* shmdt of the address; nothing else changes, neither if it is attached nor if
\* shmdt fails.
shm_detach(p) ==
  /\ p \in alive \cap called
  /\ mapped' = [mapped EXCEPT ![p] = IF sid[p] >= 0 THEN @ \ {addr[p]} ELSE @]
  /\ UNCHANGED <<alive, called, sid, addr, keyed, segs, removed, family, stuck>>

\* The address is detached first; it is forgotten only if shmdt fails, that is if
\* nothing is attached there.
shm_remove(p) ==
  /\ p \in alive \cap called
  /\ sid[p] >= 0
  /\ LET stale == addr[p] >= 0 /\ addr[p] \notin mapped[p]
     IN  addr' = [addr EXCEPT ![p] = IF stale THEN Null ELSE @]
  /\ mapped' = [mapped EXCEPT ![p] = @ \ {addr[p]}]
  /\ IF Exists(sid[p])
     THEN /\ removed' = removed \cup {sid[p]}
          /\ keyed' = IF keyed = sid[p] THEN NoSegment ELSE keyed
     ELSE UNCHANGED <<removed, keyed>>
  /\ UNCHANGED <<alive, called, sid, segs, family, stuck>>

-------------------------------------------------------------------------------
(* Processes come and go *)

\* A process starts, with a zeroed struct.
Start(p) ==
  /\ p \notin alive
  /\ alive' = alive \cup {p}
  /\ UNCHANGED <<called, sid, addr, mapped, keyed, segs, removed, family, stuck>>

\* A process forks, as daemon_init does: struct and attachments are inherited.
Fork(p, q) ==
  /\ p \in alive /\ q \notin alive
  /\ alive' = alive \cup {q}
  /\ called' = IF p \in called THEN called \cup {q} ELSE called
  /\ sid' = [sid EXCEPT ![q] = sid[p]] /\ addr' = [addr EXCEPT ![q] = addr[p]]
  /\ mapped' = [mapped EXCEPT ![q] = mapped[p]]
  /\ family' = [s \in Segs |-> IF p \in family[s] THEN family[s] \cup {q}
                                                   ELSE family[s]]
  /\ stuck' = IF p \in stuck THEN stuck \cup {q} ELSE stuck
  /\ UNCHANGED <<keyed, segs, removed>>

\* It exits or crashes, at any point: its memory and its attachments go, its segment
\* does not.
Exit(p) ==
  /\ p \in alive
  /\ alive' = alive \ {p} /\ called' = called \ {p}
  /\ sid' = [sid EXCEPT ![p] = 0] /\ addr' = [addr EXCEPT ![p] = Null]
  /\ mapped' = [mapped EXCEPT ![p] = {}]
  /\ family' = [s \in Segs |-> family[s] \ {p}]
  /\ stuck' = stuck \ {p}
  /\ UNCHANGED <<keyed, segs, removed>>

ShmCall(p) ==
  \/ CreateOk(p) \/ CreateFails(p) \/ CreateNoKey(p)
  \/ shm_attch(p) \/ AttachRefused(p) \/ shm_detach(p) \/ shm_remove(p)

ShmNext ==
  \E p \in Proc :
    ShmCall(p) \/ Start(p) \/ Exit(p) \/ \E q \in Proc : Fork(p, q)

ShmSpec == ShmInit /\ [][ShmNext]_shmVars

-------------------------------------------------------------------------------
(* Properties *)

TypeOK ==
  /\ called \subseteq alive /\ alive \subseteq Proc
  /\ sid \in [Proc -> Segs \cup {-1, 0}]
  /\ addr \in [Proc -> Segs \cup {0, Null, Failed}]
  /\ mapped \in [Proc -> SUBSET (Segs \cup {0})]
  /\ keyed \in Segs \cup {NoSegment} /\ segs \in 0..MaxSegs
  /\ removed \subseteq Segs \cup {0} /\ family \in [Segs -> SUBSET Proc]
  /\ stuck \subseteq alive

\* A process has one segment attached at most, the one addr leads to, and as long as
\* no repeated shm_create has failed with it attached, sid lets shm_detach and
\* shm_remove give it back.  After such a failure sid is -1 and both leave the
\* attachment alone, until a shm_create succeeds or the process ends.
NoLostMapping ==
  \A p \in alive : \A s \in mapped[p] : addr[p] = s /\ (sid[p] >= 0 \/ p \in stuck)

\* A process attaches and removes only the segment that its sid names, and that one was
\* created by it or by a process it was forked from, never by another program that made
\* its own shm_create fail.  The one exception is segment 0: a process whose shm_create
\* did not get as far as shmget goes on with the 0 of the fresh struct, and attaches and
\* removes whatever segment has this identifier.
OnlyOwnSegments ==
  [][/\ \A p \in alive : \A s \in mapped'[p] \ mapped[p] :
          sid[p] = s /\ (s # 0 => p \in family[s])
     /\ \A s \in removed' \ removed :
          \E p \in alive : sid[p] = s /\ (s # 0 => p \in family[s])]_shmVars
=============================================================================
