-------------------------------- MODULE Metric --------------------------------
(***************************************************************************)
(* cmn/cmn_metric.c and include/cmn_metric.h: what each operation makes of *)
(* the value of one metric, and how many characters it prints.             *)
(*                                                                         *)
(* A counter is a uint64_t and wraps; a gauge is an int64_t that stays far *)
(* from its limits, and a floating point number is represented by an       *)
(* integer.                                                                *)
(***************************************************************************)
EXTENDS Integers

CONSTANTS
  Modulus,  \* of a counter: 2^64, smaller for model checking
  IntMax    \* the largest int: 2^31 - 1, smaller for model checking

ASSUME MetricAssumption == Modulus \in Nat \ {0} /\ IntMax \in Nat \ {0}

MetricType == {"COUNTER", "GAUGE", "FPN"}

\* What fits into the member of the union that the type selects.
Stored(type, v) == IF type = "COUNTER" THEN v % Modulus ELSE v

\* The value after metric_incr_n.
metric_incr_n(type, v, delta) ==
  IF type \in {"COUNTER", "GAUGE"} THEN Stored(type, v + delta) ELSE v

\* The test is that of a counter.
DecrOfCounter(type, v, delta) ==
  IF type = "COUNTER" THEN Stored(type, v - delta) ELSE v

\* The value after metric_decr_n, which leaves counters alone.
metric_decr_n(type, v, delta) ==
  IF type = "GAUGE" THEN Stored(type, v - delta) ELSE v

metric_update_val(type, v) == Stored(type, v)

-------------------------------------------------------------------------------
(* _vscnprintf, for a buffer of size bytes and a text of n characters; n is  *)
(* not positive if there is nothing to print or the format is in error.  The *)
(* size is a size_t, what is returned an int.                                *)

\* Returns what vsnprintf does: the length of the text, whatever the size.
LengthOfText(size, n) == IF n <= 0 THEN 0 ELSE n

\* A size_t that is cast to int.
ToInt(x) ==
  LET r == x % (2 * (IntMax + 1))
  IN  IF r <= IntMax THEN r ELSE r - 2 * (IntMax + 1)

cmn_scnprintf(size, n) ==
  IF n <= 0 THEN 0 ELSE IF n < ToInt(size) THEN n ELSE ToInt(size - 1)
=============================================================================
