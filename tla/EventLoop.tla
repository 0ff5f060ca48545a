------------------------------ MODULE EventLoop ------------------------------
(***************************************************************************)
(* cmn/cmn_event.c: registration of descriptors with epoll and the wait    *)
(* that hands a batch of events to a callback.                             *)
(*                                                                         *)
(* epoll itself is external: level triggered, it reports up to nevent      *)
(* registered descriptors that are ready, the longest unreported first.    *)
(* Everything runs on one thread, so registrations change only between two *)
(* waits or inside a callback, that is in the middle of a batch.           *)
(***************************************************************************)
EXTENDS Integers, Sequences

CONSTANTS
  Fd,        \* descriptors
  Ptr,       \* the data pointers they are registered with
  NEvent,    \* evb->nevent, the size of evb->event
  Conds,     \* the sets of conditions a descriptor may be in
  Timeouts   \* the finite timeouts passed to event_wait, in ticks

Condition == {"IN", "OUT", "HUP"}

ASSUME EventAssumption ==
  /\ NEvent \in Nat \ {0}
  /\ Conds \subseteq SUBSET Condition
  /\ Timeouts \subseteq Nat

VARIABLES
  interest,  \* epoll's interest list: fd |-> what for and with which pointer
  order,     \* the registered descriptors, longest unreported first
  cond,      \* what holds of each descriptor: "IN", "OUT", "HUP"
  pc,        \* of the thread: "none" without an event base, "idle" outside of
             \* event_wait, "poll" blocked in epoll_wait, "callback" in evb->cb
  arr,       \* evb->event: entries stay there from one wait to the next
  nreturned, i,        \* locals of event_wait
  timeout, left, \* its argument and what epoll_wait still has to wait
  moved,     \* history: pointers whose registration went away since the batch
             \* was fetched
  seen       \* history: what held of the descriptors of the batch when it was
             \* fetched

epollVars == <<interest, order, cond>>
waitVars == <<pc, arr, nreturned, i, timeout, left>>
batchVars == <<moved, seen>>
vars == <<interest, order, cond, pc, arr, nreturned, i, timeout, left, moved, seen>>

\* The timeout of an indefinite wait.
Forever == -1

NoEntry == [ptr |-> "none", events |-> {}]
Unregistered == [events |-> "none", ptr |-> "none"]

Registered(fd) == interest[fd] # Unregistered

Init ==
  /\ interest = [fd \in Fd |-> Unregistered]
  /\ order = <<>>
  /\ cond = [fd \in Fd |-> {}]
  /\ pc = "none"
  /\ arr = [k \in 1..NEvent |-> NoEntry]
  /\ nreturned = 0 /\ i = 0 /\ timeout = 0 /\ left = 0
  /\ moved = {} /\ seen = <<>>

-------------------------------------------------------------------------------
(* epoll *)

\* EPOLLHUP and EPOLLERR are reported whether asked for or not.
Reported(fd) ==
  IF Registered(fd) THEN cond[fd] \cap {interest[fd].events, "HUP"} ELSE {}

\* The elements of a sequence that are in a set, in their order.
Only(seq, S) ==
  LET upto[n \in 0..Len(seq)] ==
        IF n = 0 THEN <<>>
        ELSE IF seq[n] \in S THEN Append(upto[n - 1], seq[n]) ELSE upto[n - 1]
  IN  upto[Len(seq)]

\* What epoll_wait would return now: descriptors, in the order they are reported.
ReadyList == Only(order, {fd \in Fd : Reported(fd) # {}})
Fetched == SubSeq(ReadyList, 1, IF Len(ReadyList) < NEvent THEN Len(ReadyList) ELSE NEvent)

\* The state of a descriptor changes: data arrives, is consumed, a peer goes.
Change(fd, c) ==
  /\ cond[fd] # c
  /\ cond' = [cond EXCEPT ![fd] = c]
  /\ UNCHANGED <<interest, order, waitVars, batchVars>>

-------------------------------------------------------------------------------
(* event_base_create and event_base_destroy, outside of event_wait           *)

\* An empty epoll instance and an array of zeroes.
event_base_create ==
  /\ pc = "none"
  /\ arr' = [k \in 1..NEvent |-> NoEntry]
  /\ pc' = "idle"
  /\ UNCHANGED <<epollVars, nreturned, i, timeout, left, batchVars>>

\* epoll_create1 or an allocation fails: what was made is closed and freed.
CreateFails == pc = "none" /\ UNCHANGED vars

\* Closing the epoll descriptor ends every registration.
event_base_destroy ==
  /\ pc = "idle"
  /\ interest' = [fd \in Fd |-> Unregistered]
  /\ order' = <<>>
  /\ pc' = "none"
  /\ UNCHANGED <<cond, arr, nreturned, i, timeout, left, batchVars>>

-------------------------------------------------------------------------------
(* event_add_read, event_add_write, event_del: called by the application     *)
(* between two waits or by the callback.                                     *)

AppRuns == pc \in {"idle", "callback"}

\* EPOLL_CTL_ADD of a descriptor that is not in the list.
Add(fd, events, p) ==
  /\ AppRuns
  /\ ~Registered(fd)
  /\ interest' = [interest EXCEPT ![fd] = [events |-> events, ptr |-> p]]
  /\ order' = Append(order, fd)
  /\ UNCHANGED <<cond, waitVars, batchVars>>

event_add_read(fd, p) == Add(fd, "IN", p)
event_add_write(fd, p) == Add(fd, "OUT", p)

\* EPOLL_CTL_ADD of a descriptor in the list fails with EEXIST, for reading and
\* writing alike; EPOLL_CTL_DEL of one that is not fails with ENOENT.  Either way
\* -1 is returned and the registrations stay as they were.
AddExisting(fd) == AppRuns /\ Registered(fd) /\ UNCHANGED vars

DelMissing(fd) == AppRuns /\ ~Registered(fd) /\ UNCHANGED vars

Forget(fd) ==
  /\ interest' = [interest EXCEPT ![fd] = Unregistered]
  /\ order' = Only(order, Fd \ {fd})
  /\ moved' = IF pc = "callback" THEN moved \cup {interest[fd].ptr} ELSE moved

event_del(fd) ==
  /\ AppRuns
  /\ Registered(fd)
  /\ Forget(fd)
  /\ UNCHANGED <<cond, waitVars, seen>>

-------------------------------------------------------------------------------
(* event_wait *)

Wait(t) ==
  /\ pc = "idle"
  /\ pc' = "poll"
  /\ timeout' = t /\ left' = t
  /\ UNCHANGED <<epollVars, arr, nreturned, i, batchVars>>

\* A hangup goes unsaid when there is something to read.
MaskReadOrHangup(evs) ==
  (IF "IN" \in evs THEN {"EVENT_READ"} ELSE IF "HUP" \in evs THEN {"EVENT_ERR"} ELSE {})
    \cup (IF "OUT" \in evs THEN {"EVENT_WRITE"} ELSE {})

\* The flags of one epoll event, as the callback gets them.
Mask(evs) ==
  (IF "HUP" \in evs THEN {"EVENT_ERR"} ELSE {})
    \cup (IF "IN" \in evs THEN {"EVENT_READ"} ELSE {})
    \cup (IF "OUT" \in evs THEN {"EVENT_WRITE"} ELSE {})

\* epoll_wait has returned.
WaitOver == timeout' = 0 /\ left' = 0

\* event_wait returns: its locals are gone.
Returns == pc' = "idle" /\ nreturned' = 0 /\ i' = 0 /\ moved' = {} /\ seen' = <<>>

\* epoll_wait fills the front of the array; the loop calls back for the first.
PollEvents ==
  /\ pc = "poll"
  /\ Fetched # <<>>
  /\ arr' = [k \in 1..NEvent |->
               IF k <= Len(Fetched)
               THEN [ptr |-> interest[Fetched[k]].ptr, events |-> Reported(Fetched[k])]
               ELSE arr[k]]
  /\ order' = Only(order, Fd \ {Fetched[k] : k \in DOMAIN Fetched}) \o Fetched
  /\ nreturned' = Len(Fetched)
  /\ i' = 1
  /\ pc' = "callback"
  /\ moved' = {} /\ seen' = [k \in DOMAIN Fetched |-> cond[Fetched[k]]]
  /\ WaitOver
  /\ UNCHANGED <<interest, cond>>

\* A wait that timed out is begun again.
PollTimeoutRetries ==
  /\ pc = "poll"
  /\ Fetched = <<>> /\ left = 0
  /\ left' = timeout
  /\ UNCHANGED <<epollVars, pc, arr, nreturned, i, timeout, batchVars>>

\* The timeout expires with nothing to report: CMN_OK.
PollTimeout ==
  /\ pc = "poll"
  /\ Fetched = <<>> /\ left = 0
  /\ WaitOver /\ Returns
  /\ UNCHANGED <<epollVars, arr>>

\* Any other failure of epoll_wait: CMN_ERROR; or no events from an indefinite wait:
\* CMN_EEVENT.
PollError ==
  /\ pc = "poll"
  /\ WaitOver /\ Returns
  /\ UNCHANGED <<epollVars, arr>>

\* A signal interrupts epoll_wait (EINTR) before its time is over: the loop calls
\* it again with the whole timeout.
PollInterrupted ==
  /\ pc = "poll"
  /\ Fetched = <<>> /\ left # 0
  /\ left' = timeout
  /\ UNCHANGED <<epollVars, pc, arr, nreturned, i, timeout, batchVars>>

Tick ==
  /\ pc = "poll"
  /\ Fetched = <<>> /\ left > 0
  /\ left' = left - 1
  /\ UNCHANGED <<epollVars, pc, arr, nreturned, i, timeout, batchVars>>

\* The loop runs to the end of the array, not of what was returned.
CallbackReturnsWholeArray ==
  /\ pc = "callback"
  /\ IF i < NEvent
     THEN i' = i + 1 /\ UNCHANGED <<pc, nreturned, batchVars>>
     ELSE Returns
  /\ UNCHANGED <<epollVars, arr, timeout, left>>

\* Only the first event of a batch is handed to the callback.
CallbackReturnsFirstOnly ==
  /\ pc = "callback"
  /\ Returns
  /\ UNCHANGED <<epollVars, arr, timeout, left>>

\* The callback returns: the next event of the batch, or the end of the wait.
CallbackReturns ==
  /\ pc = "callback"
  /\ IF i < nreturned
     THEN i' = i + 1 /\ UNCHANGED <<pc, nreturned, batchVars>>
     ELSE Returns
  /\ UNCHANGED <<epollVars, arr, timeout, left>>

-------------------------------------------------------------------------------
AppStep ==
  \E fd \in Fd :
    \/ \E p \in Ptr : event_add_read(fd, p) \/ event_add_write(fd, p)
    \/ AddExisting(fd) \/ event_del(fd) \/ DelMissing(fd)

LoopStep ==
  \/ \E t \in Timeouts \cup {Forever} : Wait(t)
  \/ PollEvents \/ PollTimeout \/ Tick \/ CallbackReturns

Next ==
  \/ event_base_create \/ CreateFails \/ event_base_destroy
  \/ AppStep \/ LoopStep \/ PollInterrupted \/ PollError
  \/ \E fd \in Fd : \E c \in Conds : Change(fd, c)

Spec == Init /\ [][Next]_vars

\* The application keeps calling event_wait and its callback returns; epoll_wait
\* does not fail for ever with events to report.
LiveSpec == Spec /\ WF_vars(LoopStep) /\ SF_vars(PollEvents)

-------------------------------------------------------------------------------
(* Properties *)

\* The arguments of the callback that is running.
CallbackPtr == arr[i].ptr
CallbackEvents == Mask(arr[i].events)

\* A callback gets a pointer that is registered, or that was when this batch was
\* fetched and lost its registration to a callback of the same batch: never one
\* left in the array by an earlier wait.
NoOldPointer ==
  pc = "callback" =>
    \/ \E fd \in Fd : interest[fd].ptr = CallbackPtr
    \/ CallbackPtr \in moved

\* A callback always has a cause: it is told to read or write only what could be read
\* or written when the batch was fetched, and hears of a hangup if and only if there
\* was one, whatever else its descriptor was registered for and reported.
CallbackHasCause ==
  pc = "callback" =>
    /\ CallbackEvents # {}
    /\ "EVENT_READ" \in CallbackEvents => "IN" \in seen[i]
    /\ "EVENT_WRITE" \in CallbackEvents => "OUT" \in seen[i]
    /\ "EVENT_ERR" \in CallbackEvents <=> "HUP" \in seen[i]

\* A registered descriptor that stays ready is served, although signals and errors
\* interrupt the wait and callbacks of the same batch register and unregister the
\* others.
Served ==
  \A fd \in Fd, p \in Ptr :
    (interest[fd].ptr = p /\ Reported(fd) # {})
      ~> (interest[fd].ptr # p \/ Reported(fd) = {}
            \/ (pc = "callback" /\ CallbackPtr = p))

\* A wait with a timeout ends once the signals do, although each of them begins it
\* anew and descriptors become ready and unready in the meantime.
WaitEnds ==
  <>[][~PollInterrupted]_vars
    => ((pc = "poll" /\ timeout # Forever) ~> pc # "poll")
=============================================================================
