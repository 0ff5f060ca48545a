# Specifications of aircmn

aircmn is a C library of building blocks for servers: lock-free queues that may
live in shared memory, a layout of such queues in one segment, an epoll loop,
sockets, System V segments, an array used as a stack, configuration files,
metrics, logging and process start. This directory holds TLA+ modules of the
parts that have behaviour worth checking, TLC configurations that check them on
small instances, and proofs, for every instance, of every safety property that the
runs check: about the record ring, with and without store buffers, the byte buffer, the
segment and the array in it, the event loop, the stream, the descriptors, the segments
of the system, the pid file, the metrics and the configuration.

The repository has no tests and little documentation. The comments at the head
of the source files and the assertions (compiled out by default) are what it says
about itself; the properties below start from those.

## 1. The system

### Components, state and operations

| component | state | operations | what makes it correct |
|---|---|---|---|
| **ring** `cmn_ring.c` | `rpos`, `wpos`, `cap + 1` slots of `elem_size` bytes | `ring_push` by one thread; `ring_pop`, `ring_flush` by one other; `ring_full`, `ring_empty`, `ring_nelem` by both | a bounded queue: nothing torn, lost, repeated or reordered, without a lock; errors are honest |
| **rbuf** `cmn_rbuf.c` | `rpos`, `wpos` in `0..cap + 1`, `cap + 1` bytes | `rbuf_write` / `rbuf_wcap` by one thread, `rbuf_read` / `rbuf_rcap` by one other | a bounded queue of bytes; the two capacities add up; a write is not short of what was promised |
| **event** `cmn_event.c` | epoll's interest list, the event array, the callback | `event_base_create`, `event_base_destroy`, `event_add_read`, `event_add_write`, `event_del`, `event_wait` | a callback hears of its own batch only, for a reason; who stays ready is served |
| **sms** `sms_bucket.c` | a segment: base record, statistics, rings and arrays | `sms_calc_size`, `sms_init`, `sms_summary`, `sms_info` | buckets do not overlap; the offsets computed in three places agree |
| **sock** `cmn_sock.c` | a `sock_conn` per connection (descriptor, counters, error) and the process's descriptor table | connect, listen, accept, reject, close; send, receive | every connection has its own descriptor, none leaks, no foreign one is closed; no byte is lost over short transfers and retries |
| **shm** `cmn_shm.c` | `sid` and `addr` of a `struct cmn_shm`; the kernel's segments | `shm_create`, `shm_attch`, `shm_detach`, `shm_remove` | an attachment can be given back, no foreign segment is attached or removed |
| **array** `cmn_array.c` | `nelem`, `nalloc`, a block | push, pop, add, sort, free, setup, `array_each` with a callback | a stack; an iteration visits what was there when it began |
| **conf** `cmn_conf.c` | a file; two locals per lookup | `cfg_get_key`, `cfg_get_key_with_len` | the first setting of the key in the first section of the name is found, and fits |
| **metric** `cmn_metric.c` | tables of counters, gauges and floating point numbers | `metric_update_val`, `metric_incr_n`, `metric_decr_n`, `metric_reset`, `metric_print` | no addition is lost among threads; a report fits its buffer |
| **procinfo** `mon_proc.c` | a start time, a table; one local clock reading per update | `procinfo_create`, `procinfo_destroy`, `procinfo_update`, `procinfo_update_metrics` | the values of one update belong together |
| **log** `cmn_log.c` | one descriptor, a count of failed writes, static buffers | open, close, reopen, a line from any thread | one open file while the log is open, none otherwise, whatever other threads do with descriptors |
| **pidfile** `cmn_pidfile.c` | a file | `pidfile_create` (stat, open, write), `pidfile_remove` | the file names the process that was told it has it |
| **daemon** `cmn_daemon.c` | - | fork, session, directory | its fork is an action of `Shm` |
| **base** `cmn_base.c` | - | wrappers of library calls | what `cmn_scnprintf` returns: in `Metric`; the rest is not modelled |
| **hash** `cmn_hash.c` | - | pure functions | not modelled |
| **queue** `cmn_queue.h` | - | vendored BSD macros | not modelled |

### How they interact

- `sms` sets rings and arrays up in a segment obtained through `shm`
  (`sms_bucket.c:73-104`). A ring may therefore be shared by two *processes*, and
  outlives both: `Ring` lets either side die between any two steps.
- The array in such a segment outlives the program that used it: `Segment` composes
  the layout with an `Array` placed in it, and lets the program end at any point, the
  next one running `sms_init` over what is left.
- `event` calls back into the application, which changes the registrations while a
  batch is being handed out; `array_each` calls back too. Both are modelled with
  the callback's calls as steps between two steps of the library.
- `event` and `sock` meet in the kernel: `Server` runs `EventLoop` with an epoll that
  reports the stream of `SockIO`, and calls `sock_recv` from the callbacks.
- A program writes its pid file and then uses its segment; both outlive it.
  `Pidfile` extends `Shm`, with one set of processes, forks and crashes for both.
- `procinfo` updates the tables of `metric`, and other threads count requests in,
  reset and print tables meanwhile: `ProcInfo` over the operators of `Metric`.
- `sock` and `log` share the descriptor table of the process with everything else:
  `Log` extends `Sock`, so that numbers the log gives up for a moment are taken by
  connections and the other way round.
- The threads of a ring and of an rbuf share nothing but the structure itself.

### What is hard here

Interleavings of the two threads of a ring at the grain of single bytes; the
relaxed ordering of its atomics; the death of one side; index arithmetic around a
wrapped, exactly full buffer; positions of an rbuf that may stand one past the end;
registrations changed in the middle of a batch; failures in the middle of opening
a connection while other threads, the logger among them, reuse descriptor numbers;
repeated and failed calls
on a segment over forks, crashes and restarts; EINTR, EAGAIN and short transfers; a
wait that every signal begins anew; a file that is tested, opened and written in three
steps; metrics stored one by one while the clock is set back and others reset them.
`PROJECT.json` lists each one at its line.

## 2. The modules

| module | models | state | actions |
|---|---|---|---|
| `BoundedFifo` | what a queue promises (abstract) | `queue`, `out`, `mark` | `Put`, `Take`, `Skip`, `FlushBegin/End/Abort` |
| `RingIndex` | `ring_nelem` and the next position | - | - |
| `Ring` | `cmn_ring.c`, one access to shared memory per step | the struct; both calls' locals; `out`, what the caller got | `Push*`, `Pop*`, `Flush*`, `PushCrash`, `PopCrash` |
| `RingTSO` | the same with store buffers | plus `pushBuf`, `popBuf` and each thread's view of its position | plus `PushCommit`, `PopCommit` |
| `RingProofs`, `RingTSOProofs` | theorems about `Ring` and about `RingTSO` | | |
| `Rbuf` | `cmn_rbuf.c`, one access per step | the struct; both calls' locals; `out` | `AskRoom`, `Write*`, `Read*` |
| `RbufProofs` | theorems about `Rbuf` | | |
| `EventLoop` | `cmn_event.c` over an external epoll | interest list, ready order, event array, the loop's locals, the time left | `event_base_create/destroy`, `event_add_*`, `event_del`, `Wait`, `Poll*`, `Tick`, `CallbackReturns`, `Change` |
| `EventLoopProofs` | theorems about `EventLoop` | | |
| `Sms` | the layout of `sms_bucket.c` | base record, bucket table, where each bucket was set up | `InitBase`, `InitBucket`, `Restart` |
| `Array` | `cmn_array.c` | the struct, the block, `array_each` in progress | all calls, `EachStart/Next/End` |
| `Stack` | what the array promises (abstract) | `stack` | |
| `Segment` | `Sms` and an `Array` in one of its buckets | that of both | `PlaceBucket` (with `array_setup`), `Use`, `RestartUsers` |
| `SegmentProofs` | theorems about `Segment`, so about `Sms` and `Array` | | |
| `SockIO` | `sock_send`, `sock_recv` over a stream | the stream, both `sock_conn`s | `Send*`, `Recv*`, `Shutdown`, `Break` |
| `Server` | a program with an event loop (`Loop == INSTANCE EventLoop`) and the stream of `SockIO` | that of both, and the program's | `Watch`, `WaitAgain`, `Poll`, `CallbackReads`, `CallbackEnds`, `Close`, `Sender` |
| `StreamProofs` | theorems about `Server`, so about `SockIO` and the loop under it | | |
| `Sock` | the life of descriptors in `cmn_sock.c` | descriptor table, `sd` and `err` of each `sock_conn`, each thread's place in its call | open, accept, reject, close, and the rest of the program |
| `Log` | the logger of `cmn_log.c` in the table of `Sock` | plus `logfd`, `nerror` and where the log's owner is | plus `log_open`, `log_close`, `ReopenCloses`, `ReopenOpens`, `LogLine`, `LogSilent` |
| `SockProofs` | theorems about `Sock` and `Log` | | |
| `Shm` | `cmn_shm.c` | struct and attachments of each process, the kernel's segments | the four calls, `Start`, `Fork`, `Exit` |
| `Pidfile` | `cmn_pidfile.c` beside `Shm`, one system call per step | plus the file, and where each process is in its call | plus `PidStat`, `PidOpen`, `PidWrite`, their failures, short and lost writes, `pidfile_remove`, `Touch`, `PidExit` |
| `Metric` | what each operation of `cmn_metric.c` makes of a value | - | - |
| `ProcInfo` | `mon_proc.c` and the users of metrics, one store per step | the clock, the tables, each thread's locals | `procinfo_*`, `Store*`, `Request*`, `metric_reset`, `metric_print`, `Tick` |
| `Conf` | `cmn_conf.c`, one line per step | file, arguments, locals | `Skip`, `SectionStarts`, `KeyFound`, `Overrun`, `NotFound`, `OpenFails` |
| `ProcessProofs` | theorems about `Conf`, `Pidfile` (so about `Shm`) and `ProcInfo`, a section each | | |

The modules `MC*` instantiate them for TLC. Definitions keep the names of the
source where they can; a definition whose name says what is wrong with it
(`PopStoreEarly`, `ring_full_never`) stands beside the right one as a plausible
bug, and is used by nothing: substituting it must break a property.
`PROJECT.json` says which, and gives the lines of every definition.

### Choices a reader should know of

- **Granularity.** In `Ring` and `Rbuf` a step is one load or store of a position
  or the copy of one byte: everything the other thread can observe. A load of the
  thread's own position commutes with everything and is merged with the next step.
  In `Sock`, `Shm` and `Pidfile` a step is one system call, in `ProcInfo` one store,
  one atomic addition or one metric printed. `EventLoop`, `Array` and `Conf` run on
  one thread; a step ends where a callback or a system call begins.
- **History.** `out` (`Ring`, `Rbuf`) is what the caller received. `moved`
  and `seen` (`EventLoop`), `first` and `visited` (`Array`), `family` and `stuck` (`Shm`),
  `others` (`Sock`), `holds` and `clash` (`Pidfile`), `total`, `fresh`, `inside` and `carried`
  (`ProcInfo`) record what the properties compare with. None guards a step of the
  library (`inside` guards the application: a thread ends a request it has begun).
- **Ring.** `ring_flush` is called by the popping thread: it writes `rpos`, and the
  comment at `cmn_ring.c:8` allows one writer. `cap = 2^32 - 1`, where
  `cap + 1` is 0, is excluded by `RingAssumption`.
- **Rbuf.** `Modulus` stands for 2^32 in the truncations of `_min` and the unsigned
  subtractions. With `AsksRoom` the writer calls `rbuf_wcap` and writes no more.
  Without it a write can go on from slot 0 over unread bytes: with `rpos = 0`,
  `rpos - 1` at `cmn_rbuf.c:190` is the largest `uint32_t`. The runs keep to
  `AsksRoom = TRUE` and to lengths below `Modulus`; outside of that the code does
  not do what the comment at `cmn_rbuf.c:65` says.
- **Sms.** Sizes are those of the x86-64 build. `ALIGN_BLOCK_SIZE` is modelled by
  what it computes, `d + d % 8`, which is not a rounding up: a bucket may start at
  an odd address. No property claims otherwise.
- **Sock.** `StdinOpen` says that the program keeps descriptor 0 for itself. If
  not, `socket()` may return 0 and the error exits (`cmn_sock.c:332` and `381`, which
  test `sd > 0`) leave it open: `NoLeak` needs `StdinOpen`. The application opens
  what is not up and closes what is up, once. `accept` may fail for a reason of its own
  at any time; then `sock_accept` changes nothing and `sock_reject_all` ends.
- **SockIO.** A `write` that takes nothing without an error (`SendZero`) is CMN_OK.
  `sock_recv` records no error at the end of file; that the application stops there, or
  after an error, is `rstop`.
- **Log.** One thread owns the log; every thread writes lines. `log_reopen` is two
  steps, as it closes before it opens (`cmn_log.c:54`): between them `LogLine` writes
  to whatever has the number by then, as the code does. The property is about the
  log's own descriptor.
- **Array.** The application pops and gets only what the assertions allow. The callback
  of `array_each` may call anything but `array_each`. After a pop, a sort, a free or an
  `array_add` the iteration goes on to the count it read at its start
  (`cmn_array.c:152`), as in the code, but what it hands out is no longer compared:
  `ForgetEach` ends the history, and `VisitsWhatWasThere` speaks of callbacks that push.
  `array_add` is called with every index up to `nalloc + 1`, which stands for all that
  the test at `cmn_array.c:76` lets through: it stores behind the array. `StoresInside`
  names this call as the only one that does; the byte it hits is not followed further.
- **Segment.** Only in the configurations of `Used` is the array followed beyond
  `sms_init`: in the others the layout is all there is to see. One program at a time
  has the segment; a reader that is attached during `sms_init` is not modelled.
- **Server.** The program is the simplest that uses both libraries: one `sock_recv`
  per callback, no other reader of the connection. `CallbackFindsData` holds of such a
  program only, and says so.
- **Shm.** A key, once `ftok` gave one, is kept, so that `shm_create` can end before
  `shmget` only with a fresh struct (`CreateNoKey`); its `sid` is then 0, and the calls
  after it attach or remove the segment that has this identifier, which is nobody's in
  the model and may not exist. `filename` is an array in the struct, so that the test
  for NULL at `cmn_shm.c:11` never holds. After a repeated `shm_create` that fails with
  something attached, `sid` is -1 and neither `shm_detach` (52) nor `shm_remove` (62)
  gives the attachment back: `stuck` has these processes, until a create succeeds.
- **Pidfile.** `pidfile_create` expects a file to exist (`cmn_pidfile.c:14`); `Touch`
  is whoever makes it. The file is its contents as far as they matter: nothing, one
  number, the first digits of one, or a number over a longer one. A short write and a
  write to a file that was unlinked meanwhile are both answered CMN_OK.
- **Metric.** `Modulus` stands for 2^64, `IntMax` for 2^31 - 1. A gauge stays far from
  the limits of `int64_t` and is not reduced. The metrics taken from `getrusage` are one
  step (`StoreUsage`), and the pid, which never changes, is left out. The casts to int in
  `_vscnprintf` are `ToInt`: `ReportFits` is about buffers of 1 to `IntMax` bytes, and
  the instance has one beyond, too.
- **ProcInfo.** `mon_proc.c:45-46` stores *time* and *uptime* the wrong way round for
  their descriptions in `mon_proc.h:10-11`. `OneInstant` asks for the distance of the two
  clocks only, so that it holds, or fails, of either reading.
- **EventLoop.** epoll is level-triggered and reports the longest unreported first.
  `left` is the rest of the timeout; after a signal the loop waits the whole of it
  again (`PollInterrupted`), so that no bound on `event_wait` by its timeout holds:
  `WaitEnds` is what remains of it.
- **Conf.** Lines fit the line buffer, names are trimmed and case-folded already, lengths
  are positive. A key or value may be longer than `key_buf` or `value_buf`
  (`LongKey`, `MaxValueLen`): `cfg_token_copy` does not look, and `Overrun` is where the
  lookup is no longer followed. A header of another section that has a '=' is compared
  like a setting, as the code falls through to it: a key that begins with '[' can be
  found there, and `FindsTheSetting` leaves such keys (`Bracketed`) out.

## 3. The runs

| run | instance | what it shows |
|---|---|---|
| `ring` | 3 slots of 2 one-bit bytes, crashes of both sides | types; the copies never meet in a slot; what a call learnt stays good; errors are honest; what is published is what was pushed; the ring implements `BoundedFifo`; and `Drains` |
| `ring_tso` | the same with 3 buffered stores, in order | relaxed atomics are enough on x86-64: no store is on its way into an unread slot (`NoStoreIntoUnread`), and `BoundedFifo` is implemented |
| `ring_weak` | 2 slots, stores out of order | expected violation: `wpos` becomes visible before the bytes |
| `rbuf` | 4 bytes, writes of 0-3, reads of 0-4 | capacities add up, concurrent runs are disjoint, lengths are as promised, `BoundedFifo` is implemented |
| `event` | 2 descriptors, 2 pointers, batches of 2, a timeout of 2 | a callback gets a pointer of its own batch and is told what was there; `Served`; `WaitEnds` |
| `segment` | up to 3 buckets over 18 shapes; an array of 3 elements of 3 values, behind and between others | the three computations agree and footprints are disjoint (`LayoutAgrees`, `BytesOfItsOwn`); the array stores only into its bucket but for an `array_add` beyond it (`StoresInside`), implements `Stack`, iterates over and pops what was there, and is empty after a restart (`StartsEmpty`) |
| `sms_summary` | up to 2 buckets | expected violation: `sms_summary` looks at scaled addresses |
| `server` | 6 bytes, a buffer of 2, requests of up to 3, batches of 2 | stream intact, end of file is the end, a callback finds data, all arrives (`AllArrives`) |
| `sock` | 1 listener, 2 others, a log, 4 descriptors | own descriptors, no leak, nobody else's file closed, `LogKeepsOneFile` |
| `pidfile` | 2 processes, 3 segments and segment 0, one file | attachments can be given back (but for `stuck`), no foreign segment touched but segment 0, the file names who was told OK |
| `procinfo` | 2 threads in 3 mixes, counters modulo 7, a clock of 4 values, an int up to 8 | clocks of one instant, the gauge counts the requests, a report fits |
| `conf` | files of up to 4 lines, 2 sections, 4 keys (one too long, one in brackets), values of up to 2 characters and one too long | the lookup agrees with its definition over the whole file |

### Why the bounds are enough to be interesting

- *ring*: three slots give a full ring, an empty one, one element in each slot and
  every wrapped position; two bytes of two values make a torn element differ from
  a whole one. The proofs remove the bound.
- *ring_tso*: three buffered stores hold a whole push, so that a position can be
  behind both bytes; `ring_weak` reorders them with a single element.
- *rbuf*: with four bytes a run can wrap with parts of one and two bytes, end on the
  last slot (leaving the position at `cap + 1`), and be zero; reads may ask for more
  than there is.
- *event*: a batch of two has a second event that the callback of the first can make
  stale, and entries of an earlier batch can stay behind a shorter one. Two pointers
  tell old from new. A timeout of two has a signal before, between and after its ticks.
  A descriptor is readable and hung up, or writable, or nothing: a hangup is told beside
  something else or alone, as the descriptor is registered for reading or for writing.
- *segment*: 0, 1 and 3 elements of 1, 4 and 7 bytes pad in different ways; three
  buckets give one with neighbours on both sides; every call inside an
  iteration has room; `array_add` has an index below, at and beyond `nalloc`; a restart
  comes at each point.
- *server*: the buffer is smaller than a request, so transfers are short; the stream is
  as long as two requests and three buffers; a batch holds the connection behind or
  before the other descriptor. The proofs remove the bounds.
- *sock*: four descriptors for three `sock_conn`s, the log and a file: the table fills
  up, and freed numbers are handed out again. One connection waits (`MaxPending`; with
  two nothing changes but the run time), and one failed write is counted
  (`MaxErrors`).
- *pidfile*: a creator, and its child or a stranger; the third segment is created after
  one was removed and replaced, so that a number in a struct can be two behind. Two
  processes are enough for every property, as each relates one process to another one at
  most: two calls that overlap, a call and a `pidfile_remove`, a segment and who made it.
  The proofs remove the bounds.
- *procinfo*: the clock is set back, and a counter of seven values goes around below 0;
  with seven the two differences that `OneInstant` allows are two different ones for
  every start time but 0. Reports of two metrics of up to three characters overflow
  buffers of one and three bytes, fit into eight, and ten is a size that an int of at
  most eight turns into a negative number. Each mix (`Programs`) puts together the calls that disturb each other: all of
  them at once differ from these in size only, and the proofs are about any mix.
- *conf*: a setting before the section, the section twice, a key set twice, a header with
  a '=' on either side of the section, a key or value too long before, in and behind it.
  The section asked for is always the same, and the lengths 1 to 3 are asked for with one
  key: the other names differ in nothing that the code looks at.

`CHECK_DEADLOCK FALSE` is set for `sms_summary` and `conf`, whose computations end.
In `server` both sides stop after an error or the end of file, but the loop goes on
waiting.

### Fairness

- `Drains` (`Ring!LiveSpec`): weak fairness of polling: the popping thread keeps
  calling `ring_pop`, finishes a flush it began, and dies only finitely often. Nothing
  is asked of the producer, nor that the consumer ever flushes.
- `Served` and `WaitEnds` (`EventLoop!LiveSpec`): weak fairness of the loop (the
  application calls `event_wait` again, time passes and callbacks return) and strong
  fairness of `PollEvents`: `epoll_wait` may be interrupted and may fail, but not every
  time there is something to report. That signals stop is not assumed: it is the
  antecedent of `WaitEnds`, and without it the property does not hold of the code.
- `AllArrives` (`Server!LiveServerSpec`): weak fairness of the sender, who calls again
  after short transfers and EAGAIN, and of the program, whose calls and callbacks
  return; strong fairness of `Watch`, for it may go on reading before it registers the
  connection, but not for ever; and of `epoll_wait` returning with events. An
  interrupted call changes nothing and so does not count as a step; a `write` that takes
  nothing and is answered CMN_OK (`SendZero`) does, and strong fairness of `SendSome` says
  that it is not the only answer for ever. A reset is allowed and ends the claim.

## 4. The proofs

Every invariant and every action property of the runs that are expected to pass is a
theorem, for all values of the constants that meet the assumptions of the modules, and
so are the four refinements. Where a theorem has a hypothesis of its own, it is one the
run makes too, by its constants, and it is named here. Every inductive invariant was
model-checked before it was proved.

The library's theorems on induction take an operator, which the provers cannot
instantiate. Where an induction is needed (sums of sizes, the elements of a sequence
that are in a set) it goes over a *set* of numbers instead: `SetInduction` in
`SegmentProofs` and `EventLoopProofs` is derived from the well-foundedness of strict
inclusion on finite sets. Definitions that the proofs must look into are recursive
functions (`Total` of `Sms`, `Only` of `EventLoop`).

### The ring

`RingProofs` proves about `Ring`, for every capacity, element size and set of byte
values (`RingAssumption`: a natural, a positive number, a set that is not empty):

| theorem | states |
|---|---|
| `Invariance` | `Spec => []IInv` |
| `TypeCorrect` | `Spec => []TypeOK` |
| `Snapshots` | `Spec => []SnapshotsStayGood` |
| `Exclusion` | `Spec => []SlotExclusive` |
| `PublishedIntact` | `Spec => PushedIntact` |
| `Honesty` | `Spec => ErrorsHonest` |
| `Refinement` | `Spec => FifoSpec` |

The argument. `SlotExclusive` is not inductive: that the two copies are in different
slots follows from what each call learnt when it began, that there was room or that
there was an element. `IInv` adds exactly that. `PushConsistent` says that a push in
progress still has its room and has copied a prefix of its element; `PopConsistent`
that a pop in progress still has its element and that what it copied is still in the
slot, and that a flush will not move `rpos` past `wpos`. Each side's part is kept by
its own steps, and by the other's because they only ever make more room, or add
elements. `TypeStep`, `PushStepKeeps` and `PopStepKeeps` have one case per action.

Under them are lemmas on positions (`OneLap`, `Wrap`, `NextPosValue`,
`DistanceValue`, `SlotAt`) and on the contents between two positions
(`ContentsElsewhere`: a store into the free slot is not seen; `ContentsAppend`:
advancing `wpos` appends one element; `ContentsDrop`: advancing `rpos` removes the
oldest). With `IInv` they give what each step does to `Queue`, and each of those is a
step of `BoundedFifo` or a stutter: `PushStore` is `Put`, `PopStore` is `Take` or
`Skip`, a flush is `FlushBegin` and `FlushEnd`, the death of the popping side in a
flush is `FlushAbort`, everything else stutters.

`RingTSOProofs` proves about `RingTSO`, again for every capacity, element size and set of
byte values, and for store buffers of any length. All three theorems assume `KeepsOrder`,
that stores reach memory in the order of the program, as on x86-64; without it
`ring_weak` shows the counterexample.

| theorem | states |
|---|---|
| `Invariance` | `Spec => []IInv` |
| `StoresStayBehind` | `Spec => []NoStoreIntoUnread` |
| `Refinement` | `Spec => FifoSpec` |

Here a position has two values: the published one, and the one its owner already counts
with. `PushInOrder` says that the stores that wait lead from one to the other, slot by
slot, each element whole before the position behind it, and that this never reaches the
published `rpos`; `PopInOrder` the same of the popping side. Everything is measured as a
distance from the published `rpos` (`Rebase`, `NextFurther`, `Between`), so that a commit
of either side is a change of one number. In the refinement `PushCommit` of a position is
`Put`; a pop is `Take` when its own position moves, and its commit stutters.

### The byte buffer

`RbufProofs` proves about `Rbuf`, for every capacity, modulus and set of bytes, what the
code promises a careful caller (`Careful`): one who asks `rbuf_wcap` and writes no more
(`AsksRoom`), and whose read lengths fit 32 bits. Neither can be left out: without the
first a write runs over unread bytes, without the second `_min` loses the length.

| theorem | states |
|---|---|
| `CapacitiesAddUp` | `Spec => []RoomAddsUp` |
| `RunsApart` | `Spec => []RunsDisjoint` |
| `TransfersAreFull` | `Spec => LengthsAgree` |
| `Refinement` | `Spec => FifoSpec` |

`IInv` is `BufferOK` (positions in `0..cap + 1`, never further apart than the capacity),
`WriterOK` (what is left of a write lies in the free part, what it stored is in its
slots) and `ReaderOK` (what is left of a read lies in the full part, unchanged). The
position one past the end stands for slot 0, which is why the lemmas work with
remainders throughout.

### The segment and the array

`SegmentProofs` proves about `Segment`, for any configurations, sizes of records and
elements, and for any array in use:

| theorem | states | assuming |
|---|---|---|
| `ComputationsAgree` | `SegmentSpec => []LayoutAgrees` | |
| `BucketsApart` | `SegmentSpec => []BytesOfItsOwn` | `Fitting` |
| `FreshStart` | `SegmentSpec => StartsEmpty` | |
| `NeighboursUntouched` | `SegmentSpec => StoresInside` | |
| `PoppedKept` | `SegmentSpec => PoppedIntact` | |
| `VisitsInOrder` | `SegmentSpec => []VisitsWhatWasThere` | |
| `IsStack` | `SegmentSpec => ImplementsStack` | |

`Fitting` says that every bucket's size is below the modulus of a `uint32_t` and that
there are no more configurations than `SMS_MAX_BUCKET_NUM`; beyond either the buckets do
overlap. `NeighboursUntouched` has no hypothesis: the calls that store outside are named
in the property itself. `LayoutOK` puts the loop of `sms_init` at a partial sum of the
sizes that `sms_calc_data_size` adds up (`TotalValue`, `SumGrows`), which the loop of
`sms_calc_size` reaches in its own way (`SegmentTotalValue`); `ArrayOK` and `EachOK` are about the array at rest and inside
of an iteration, `StartOK` about the moment between the placing of its bucket and the end
of the start.

### The event loop and the stream

`EventLoopProofs` proves about `EventLoop`, for any descriptors, pointers, conditions and
timeouts and batches of every size:

| theorem | states |
|---|---|
| `Invariance` | `Spec => []LoopInv` |
| `PointersCurrent` | `Spec => []NoOldPointer` |
| `CallbacksCaused` | `Spec => []CallbackHasCause` |

The properties are about the callback that runs. That it is told of reading, of writing
or of a hangup is compared with what the descriptor was like when the batch was fetched
(`seen`), which later changes do not touch. `BatchIsCurrent` extends them to all of
the batch, those entries included that are still to be handed over, and
`ListsRegistered` is what a fetch relies on: the queue of epoll lists each registered
descriptor once. `OnlyValue` says what the recursive `Only` computes.

`StreamProofs` proves about `Server`, for streams, buffers, requests and batches of any
size:

| theorem | states |
|---|---|
| `BytesIntact` | `ServerSpec => []StreamIntact` |
| `EofLast` | `ServerSpec => []EofIsTheEnd` |
| `CalledForData` | `ServerSpec => CallbackFindsData` |

The first is about the concatenation of what was received and what is on the wire.
`StreamInv` says it byte by byte (`BytesInOrder`), which a `sock_recv` that takes a
prefix and a `sock_send` that appends preserve by arithmetic on indices; `Counters` is
the counter that the next request is computed from, and `EndIsFinal` that nothing is
sent after the shutdown. `ServerNextIsStream` reduces every step of the program, the
event loop included, to a step of the stream or a stutter.

`CalledForData` is about both halves: the steps that concern the loop are steps of an
instance of `EventLoopProofs` (`LoopMoves`), whose invariant is used as it stands.
`BatchHolds` adds that the connection is in a batch at most once and stays readable from
the fetch until its own callback reads: nobody else takes bytes, and `epoll` looked when
the batch was fetched. `WatchFirst` says that no read begun before the registration is
still under way when the program waits.

### Descriptors

`SockProofs` proves about `Log`, and so about `Sock` inside it, for any sets of
listeners and other `sock_conn`s and any number of descriptors (`SockAssumption`,
`LogAssumption`: the bounds are naturals and a `sock_conn` is none of the other things
a descriptor may stand for):

| theorem | states |
|---|---|
| `Invariance` | `LogSpec => []IInv` |
| `TypeCorrect` | `LogSpec => []TypeOK` |
| `Ownership` | `LogSpec => []OwnsDescriptor` |
| `OthersUntouched` | `LogSpec => []OthersKept` |
| `NothingLeaks` | `LogSpec => []NoLeak`, for a program that keeps descriptor 0 (`StdinOpen`) |
| `OneLogFile` | `LogSpec => []LogKeepsOneFile` |

The properties are not inductive one by one: what a close may touch depends on who
else has the number. `IInv` is their conjunction with what makes every owner's claim
explicit: a `sock_conn` in the middle of being opened has its descriptor already
(`HoldersOwn`), so has a listener in the middle of rejecting, and no two of those have
the same (`RejectersOwn`). A step then either takes a number that is free, closes one
that its caller owns, or leaves the table alone. That the number is the lowest is not
used. `SockKeeps` and `LogKeeps` have one step per action.

### The process

`ProcessProofs` proves about `Pidfile`, and so about `Shm` inside it, for any set of
processes and any number of segments:

| theorem | states |
|---|---|
| `MappingsKept` | `PidSpec => []NoLostMapping` |
| `OwnSegmentsOnly` | `PidSpec => OnlyOwnSegments` |
| `HolderNamed` | `PidSpec => []PidfileNamesHolder` |

`SegInv` adds to `NoLostMapping` that a process that is gone has nothing attached
(`NoneLeftBehind`: a number used again starts clean) and that whatever a process has in
`sid` was made by its family, unless it is the 0 of a fresh struct (`Kinship`), which is
what `OnlyOwnSegments` asks of each step. `FileInv` says that, unless two calls overlapped, at most one
process is in a call, and that the file is as its place in the call requires.

About `ProcInfo` it proves, for any number of threads, any mix of calls,
any width of a counter, and clocks, buffers and lengths of any size:

| theorem | states |
|---|---|
| `RequestsCounted` | `Spec => []GaugeCountsRequests` |
| `ReportsFit` | `Spec => []ReportFits` |
| `ClocksAgree` | `Spec => []OneInstant` |

The set of threads is finite (`ProcAssumption`). `CallsOK` says whose table a call
works on, so that no update touches another thread's (`ClockStored`), and neither does
a request or a reset (`OthersStored`). `GaugeInv` is the property with the types it
needs. That a report fits is shown for sizes from 1 to `IntMax`, where what is left of the
buffer is such a size again at every turn and the casts do nothing. `InstantInv` follows an update through its two stores: after the first, *time*
is already of the `nowtime` that the second will store, however far the clock has
moved. `ClocksAgree` is proved for one of the two differences that
`OneInstant` allows, the one the code has. The values wrap: `DifferenceOfRemainders` is the lemma on `%` that lets the
difference be taken after each was reduced.

About `Conf` it proves, for files of any length, any names, keys and lengths, and any
choice of keys and values that are too long:

| theorem | states |
|---|---|
| `SettingFound` | `ConfSpec => []FindsTheSetting` |

`SearchOK` is the invariant of the loop over the lines: before the section no header of
its name was passed; in it, the first such header was, and since then neither a header
nor the key (`EnteredAt`). `BodyIs` turns the definition of the section, which looks at
the whole file, into what the loop has seen; `ComparedInBody` says that a line compared
inside the section is one of it, and that no earlier one set the key. That texts are
sequences is in `ConfAssumption`.

### Only model-checked

The liveness properties: `Drains`, `Served`, `WaitEnds` and `AllArrives`. The provers
reach neither ENABLED nor, with it, what fairness adds to a specification. The runs that
are expected to fail have nothing to prove: TLC's counterexample is the result.

## 5. Findings

- `ring_weak`: the atomics of the ring are relaxed (`cmn_ring.c:74`), which orders
  nothing. On x86-64 the processor orders the stores anyway (`ring_tso`), and the call
  of `memcpy` has kept the compiler from moving the store; elsewhere a popping thread
  can read an element that is not there yet. Release and acquire would say what is
  meant.
- `sms_summary`: `root + b->offset` is arithmetic on `struct base *`
  (`sms_bucket.c:172, 180, 227, 235`): what is printed lies far behind the ring.

Seen while modelling, and left out of a property, which says so, or excluded from the
runs by an assumption named above:

- `cmn_rbuf.c:190, 133`: a write to an rbuf beyond its room; lengths of 2^32 and more.
- `cmn_sock.c:332, 381`: a descriptor 0 that is leaked.
- `cmn_ring.h:24`: sizes of rings and arrays that overflow `uint32_t`.
- `cmn_array.c:76`: `array_add` stores behind the array for every index beyond `nalloc`
  (`StoresInside` names it).
- `cmn_array.c:152`: `array_each` hands out elements that are gone when its callback pops
  (`VisitsWhatWasThere` is about callbacks that push). A callback that calls `array_each`
  is not modelled.
- `cmn_base.c:156, 160`: `cmn_scnprintf` returns -1 for a buffer of no bytes, against its
  comment (`cmn_base.c:144`), and can return a negative number for one of more than
  2^31 - 1 (`ReportFits` is about the sizes between).
- `cmn_conf.c:72, 76, 131, 135`: keys and values longer than `key_buf` and `value_buf` run
  over their end (`Overrun`). A key that begins with '[' is found in the header of another
  section.
- `cmn_shm.c:17`: after a failed `ftok` a fresh struct goes on with `sid` 0, which the
  other calls take for a segment (`OnlyOwnSegments` names segment 0).
- `cmn_shm.c:52, 62`: after a repeated `shm_create` that fails, an attachment can no longer
  be given back (`NoLostMapping`, `stuck`).
- `cmn_pidfile.c:32`: a short write of the number is answered CMN_OK (`"cut"` in
  `PidfileNamesHolder`).
- `mon_proc.c:45-46`: *time* and *uptime* are stored the wrong way round for their
  descriptions in `mon_proc.h:10-11` (`OneInstant` leaves open which is which).

Modelled as they are: timeouts restarted by signals (`cmn_event.c:220`); a pid file that
cannot be made again once it is removed (`cmn_pidfile.c:14`); a `sock_reject_all` that
rejects nobody when the table is full (`cmn_sock.c:487`); a log line that goes into another
file in the middle of a reopen (`cmn_log.c:54`).

## 6. Plan

Done so far, in this order: the ring and its abstract queue, its proofs, the ring
with store buffers, the rbuf, the event loop, the layout, the sockets and the log
with their proofs, the segment, the array, the configuration lookup; then the
compositions (the array in the segment with restarts, the stream under the event loop),
the pid file beside the segment, the metrics, and the proofs about them; then the proofs
about the rest: the rbuf, the segment and the array, the ring with store buffers, the
event loop, what its callbacks find, and the configuration lookup.

Next, the modules:

1. **Event loop**: a callback that destroys its own base or waits on it.
2. **Rbuf with store buffers**, as for the ring.
3. **Readers of a segment** that are attached while `sms_init` runs again.

Then, the proofs: every new property of these, as it comes; and what the liveness
properties rest on that is itself a safety property, such as a measure that each step of
a fair behaviour decreases.

### Not modelled

- *base* but for `cmn_scnprintf`: stateless wrappers of library calls.
- *hash*: bit mixing without a property besides its definition.
- *queue*: vendored, used by no source file.
- Formatting, logging levels and the static buffers of the log, name resolution, socket
  options, the straight-line system calls of `cmn_daemon.c`.
- A NULL callback of the event loop, the NULL configuration of `sms_init`, and more
  configurations than `SMS_MAX_BUCKET_NUM`, which write past the table: `PROJECT.json`
  lists them as hazards with the reason.
