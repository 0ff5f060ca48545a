------------------------------- MODULE ProcInfo -------------------------------
(***************************************************************************)
(* mon/mon_proc.c and the metrics of an application: every store, every    *)
(* atomic addition and every metric printed is a step, and the threads     *)
(* interleave between them.                                                *)
(*                                                                         *)
(* Each thread has a struct proc_metrics of its own, named after it; the   *)
(* Owner calls procinfo_create, procinfo_destroy and procinfo_update, the  *)
(* others pass theirs to procinfo_update_metrics.  All of them may count   *)
(* their requests in one more table, App.  The pid never changes, and the  *)
(* metrics taken from getrusage are not told apart: one step stands for    *)
(* storing them.                                                           *)
(***************************************************************************)
EXTENDS Metric, Sequences, FiniteSets

CONSTANTS
  Thread, Owner,  \* the threads, and the one that calls procinfo_create
  Programs,       \* what the threads of a program do, out of Kind
  MaxClock,       \* bound: the largest time, in seconds since the epoch
  Sizes,          \* the sizes of the buffers that a report is printed into
  Lengths         \* the lengths of a metric in print; 0 is an error

Kind == {"info", "requests", "reset", "print"}

\* The table of the application, and no table.
App == "app"
NoTable == "NULL"

ASSUME ProcAssumption ==
  /\ Owner \in Thread /\ App \notin Thread /\ NoTable \notin Thread
  /\ IsFiniteSet(Thread)
  /\ Programs \subseteq [Thread -> SUBSET Kind]
  /\ MaxClock \in Nat
  /\ Sizes \subseteq Nat
  /\ Lengths \subseteq 0..IntMax

VARIABLES
  program,         \* the program that runs
  clock,           \* time(): it goes on, and may be set
  g_proc_uptime, g_proc_metrics,
  metrics,         \* the value of each metric in each table
  pc, m, nowtime,  \* of each thread: where it is, the table it works on, and
                   \* the local nowtime
  k,               \* of each thread: the metric it resets or prints next
  nbuf, off,       \* of each thread: its buffer, and how far it is full; a number
                   \* below 0 stands for the uint64_t that far below 2^64
  total,           \* history: the characters it would take to print all so far
  fresh,           \* history: tables updated by a call that began after the last
                   \* procinfo_create or procinfo_destroy
  inside, carried  \* history: threads with a request in hand, and how many of
                   \* them there were when the gauge was last reset

infoVars == <<program, clock, g_proc_uptime, g_proc_metrics>>
printVars == <<nbuf, off, total>>
requestVars == <<inside, carried>>
vars == <<program, clock, g_proc_uptime, g_proc_metrics, metrics, pc, m, nowtime, k,
          nbuf, off, total, fresh, inside, carried>>

\* The metrics of a table in the order of the struct, and their types.
NamesOf(s) == IF s = App THEN <<"active", "served">> ELSE <<"time", "uptime">>

TypeOf == [time |-> "COUNTER", uptime |-> "COUNTER", active |-> "GAUGE", served |-> "COUNTER"]

Zeroes(s) == [f \in {NamesOf(s)[j] : j \in 1..2} |-> 0]

Init ==
  /\ program \in Programs
  /\ clock = 0
  /\ g_proc_uptime = 0 /\ g_proc_metrics = NoTable
  /\ metrics = [s \in Thread \cup {App} |-> Zeroes(s)]
  /\ pc = [t \in Thread |-> "idle"] /\ m = [t \in Thread |-> NoTable]
  /\ nowtime = [t \in Thread |-> 0] /\ k = [t \in Thread |-> 0]
  /\ nbuf = [t \in Thread |-> 0] /\ off = [t \in Thread |-> 0]
  /\ total = [t \in Thread |-> 0]
  /\ fresh = {} /\ inside = {} /\ carried = 0

\* A thread between two calls, in a program where it makes calls of this kind.
Free(t, kind) == pc[t] = "idle" /\ kind \in program[t]

\* Time goes by, or somebody sets the clock.
Tick ==
  /\ \E t \in Thread : "info" \in program[t]
  /\ clock' \in 0..MaxClock
  /\ UNCHANGED <<program, g_proc_uptime, g_proc_metrics, metrics, pc, m, nowtime, k,
                 printVars, fresh, requestVars>>

\* A call is over: its locals are gone.
Return(t) ==
  /\ pc' = [pc EXCEPT ![t] = "idle"]
  /\ m' = [m EXCEPT ![t] = NoTable]
  /\ nowtime' = [nowtime EXCEPT ![t] = 0]
  /\ k' = [k EXCEPT ![t] = 0]

-------------------------------------------------------------------------------
(* mon_proc.c *)

\* A second call overwrites what the first one set.
procinfo_create(t) ==
  /\ t = Owner /\ Free(t, "info")
  /\ g_proc_metrics' = t
  /\ g_proc_uptime' = clock
  /\ fresh' = {}
  /\ UNCHANGED <<program, clock, metrics, pc, m, nowtime, k, printVars, requestVars>>

procinfo_destroy(t) ==
  /\ t = Owner /\ Free(t, "info")
  /\ g_proc_metrics' = NoTable
  /\ g_proc_uptime' = 0
  /\ fresh' = {}
  /\ UNCHANGED <<program, clock, metrics, pc, m, nowtime, k, printVars, requestVars>>

\* The base pointer of the macros, and the one call of time().
UpdateStart(t, base) ==
  /\ Free(t, "info")
  /\ pc' = [pc EXCEPT ![t] = "time"]
  /\ m' = [m EXCEPT ![t] = base]
  /\ nowtime' = [nowtime EXCEPT ![t] = clock]
  /\ fresh' = fresh \cup ({base} \ {NoTable})
  /\ UNCHANGED <<infoVars, metrics, k, printVars, requestVars>>

\* Only the Owner changes g_proc_metrics, so it is the same for the whole update.
procinfo_update(t) == t = Owner /\ UpdateStart(t, g_proc_metrics)
procinfo_update_metrics(t) == t # Owner /\ UpdateStart(t, t)

\* UPDATE_VAL stores nothing if the base is NULL.
UPDATE_VAL(base, f, v) ==
  metrics' = IF base = NoTable THEN metrics
             ELSE [metrics EXCEPT ![base][f] = metric_update_val(TypeOf[f], v)]

\* The metric called time gets the seconds since procinfo_create, modulo 2^64 if the
\* clock was set back.
StoreTime(t) ==
  /\ pc[t] = "time"
  /\ UPDATE_VAL(m[t], "time", nowtime[t] - g_proc_uptime)
  /\ pc' = [pc EXCEPT ![t] = "uptime"]
  /\ UNCHANGED <<infoVars, m, nowtime, k, printVars, fresh, requestVars>>

\* The clock is read a second time.
StoreUptimeNow(t) ==
  /\ pc[t] = "uptime"
  /\ UPDATE_VAL(m[t], "uptime", clock)
  /\ pc' = [pc EXCEPT ![t] = "usage"]
  /\ UNCHANGED <<infoVars, m, nowtime, k, printVars, fresh, requestVars>>

\* The metric called uptime gets the seconds since the epoch.
StoreUptime(t) ==
  /\ pc[t] = "uptime"
  /\ UPDATE_VAL(m[t], "uptime", nowtime[t])
  /\ pc' = [pc EXCEPT ![t] = "usage"]
  /\ UNCHANGED <<infoVars, m, nowtime, k, printVars, fresh, requestVars>>

\* getrusage, and all the metrics taken from it.
StoreUsage(t) ==
  /\ pc[t] = "usage"
  /\ Return(t)
  /\ UNCHANGED <<infoVars, metrics, printVars, fresh, requestVars>>

-------------------------------------------------------------------------------
(* Counting requests: INCR and DECR are atomic *)

RequestBegins(t) ==
  /\ Free(t, "requests") /\ t \notin inside
  /\ metrics' = [metrics EXCEPT ![App].active = metric_incr_n("GAUGE", @, 1)]
  /\ inside' = inside \cup {t}
  /\ UNCHANGED <<infoVars, pc, m, nowtime, k, printVars, fresh, carried>>

RequestServed(t) ==
  /\ Free(t, "requests") /\ t \in inside
  /\ metrics' = [metrics EXCEPT ![App].served = metric_incr_n("COUNTER", @, 1)]
  /\ UNCHANGED <<infoVars, pc, m, nowtime, k, printVars, fresh, requestVars>>

RequestEnds(t) ==
  /\ Free(t, "requests") /\ t \in inside
  /\ metrics' = [metrics EXCEPT ![App].active = metric_decr_n("GAUGE", @, 1)]
  /\ inside' = inside \ {t}
  /\ UNCHANGED <<infoVars, pc, m, nowtime, k, printVars, fresh, carried>>

-------------------------------------------------------------------------------
(* metric_reset, one metric at a time *)

\* A thread resets its own table or the application's.
ResetStart(t, s) ==
  /\ Free(t, "reset") /\ s \in {t, App}
  /\ pc' = [pc EXCEPT ![t] = "reset"]
  /\ m' = [m EXCEPT ![t] = s]
  /\ k' = [k EXCEPT ![t] = 1]
  /\ fresh' = fresh \ {s}
  /\ UNCHANGED <<infoVars, metrics, nowtime, printVars, requestVars>>

metric_reset(t) ==
  LET f == NamesOf(m[t])[k[t]] IN
  /\ pc[t] = "reset"
  /\ metrics' = [metrics EXCEPT ![m[t]][f] = 0]
  /\ carried' = IF f = "active" THEN Cardinality(inside) ELSE carried
  /\ IF k[t] = Len(NamesOf(m[t]))
     THEN Return(t)
     ELSE k' = [k EXCEPT ![t] = @ + 1] /\ UNCHANGED <<pc, m, nowtime>>
  /\ UNCHANGED <<infoVars, printVars, fresh, inside>>

-------------------------------------------------------------------------------
(* A report: off += metric_print(buf + off, nbuf - off, ..) for every metric *)

PrintStart(t, s, n) ==
  /\ Free(t, "print")
  /\ pc' = [pc EXCEPT ![t] = "print"]
  /\ m' = [m EXCEPT ![t] = s]
  /\ k' = [k EXCEPT ![t] = 1]
  /\ nbuf' = [nbuf EXCEPT ![t] = n]
  /\ off' = [off EXCEPT ![t] = 0] /\ total' = [total EXCEPT ![t] = 0]
  /\ UNCHANGED <<infoVars, metrics, nowtime, fresh, requestVars>>

metric_print(t, n) ==
  /\ pc[t] = "print"
  /\ off' = [off EXCEPT ![t] = @ + cmn_scnprintf(nbuf[t] - off[t], n)]
  /\ total' = [total EXCEPT ![t] = @ + n]
  /\ IF k[t] = Len(NamesOf(m[t]))
     THEN Return(t)
     ELSE k' = [k EXCEPT ![t] = @ + 1] /\ UNCHANGED <<pc, m, nowtime>>
  /\ UNCHANGED <<infoVars, metrics, nbuf, fresh, requestVars>>

-------------------------------------------------------------------------------
InfoStep(t) ==
  \/ procinfo_create(t) \/ procinfo_destroy(t)
  \/ procinfo_update(t) \/ procinfo_update_metrics(t)
  \/ StoreTime(t) \/ StoreUptime(t) \/ StoreUsage(t)

MetricStep(t) ==
  \/ RequestBegins(t) \/ RequestServed(t) \/ RequestEnds(t)
  \/ \E s \in {t, App} : ResetStart(t, s)
  \/ metric_reset(t)
  \/ \E s \in Thread \cup {App}, n \in Sizes : PrintStart(t, s, n)
  \/ \E n \in Lengths : metric_print(t, n)

Next == Tick \/ \E t \in Thread : InfoStep(t) \/ MetricStep(t)

Spec == Init /\ [][Next]_vars

-------------------------------------------------------------------------------
(* Properties *)

\* Between two updates the two clocks of a table are of one instant: the one that counts
\* from the epoch is ahead of the one that counts from procinfo_create by exactly the time
\* of that call (modulo 2^64), however long the update took, whichever function made it,
\* though the clock be set back and other tables be reset and updated meanwhile.  Which
\* of the two is the one from the epoch is left open: mon_proc.h describes time as that,
\* and mon_proc.c stores it into uptime.
OneInstant ==
  \A s \in fresh : (\A t \in Thread : m[t] # s) =>
    (metrics[s].uptime - metrics[s].time) % Modulus
      \in {g_proc_uptime % Modulus, (-g_proc_uptime) % Modulus}

\* The gauge of requests in hand is right whatever the threads interleave, short only
\* of the requests that were in hand when metric_reset passed it.
GaugeCountsRequests == metrics[App].active = Cardinality(inside) - carried

\* A report put together with "off +=" never runs past its buffer: it ends one byte
\* before the end, for the '\0', or holds all of what was to be printed (the idiom that
\* the comment at cmn_base.c:148 is about).  That is for buffers of 1 to INT_MAX bytes:
\* of none, or of more than an int can say, cmn_scnprintf can return a number below 0.
ReportFits ==
  \A t \in Thread : nbuf[t] \in 1..IntMax =>
    off[t] = IF total[t] < nbuf[t] THEN total[t] ELSE nbuf[t] - 1
=============================================================================
