---------------------------------- MODULE Sms ----------------------------------
(***************************************************************************)
(* sms/sms_bucket.c: one segment holding a base record, a statistics       *)
(* record and the rings and arrays ("buckets") of a configuration, laid    *)
(* out one after the other.                                                *)
(*                                                                         *)
(* The size of the segment (sms_calc_size), the offsets published in the   *)
(* bucket table and the addresses the rings and arrays are set up at are   *)
(* computed in three places; the properties are about their agreement.     *)
(* Addresses are byte offsets from the base record.                        *)
(***************************************************************************)
EXTENDS Integers, Sequences

CONSTANTS
  BaseSize, StatSize,    \* sizeof(struct base), sizeof(struct statistics)
  BucketSize, CfgSize,   \* sizeof(struct bucket), sizeof(struct base_config)
  HdrSize,               \* RING_HDR_SIZE and ARRAY_HDR_SIZE
  MaxBuckets,            \* SMS_MAX_BUCKET_NUM
  Modulus,               \* of uint32_t: 2^32, smaller for model checking
  Config, MaxConfigs     \* the configurations passed, and the most at a time

ASSUME SmsAssumption ==
  /\ {BaseSize, StatSize, BucketSize, CfgSize, HdrSize, MaxBuckets, Modulus} \subseteq Nat \ {0}
  /\ StatSize = 8 + MaxBuckets * (BucketSize + CfgSize)
  /\ Config \subseteq [type : {"ARRAY", "RING"}, cap : Nat, elem_size : Nat]
  /\ MaxConfigs \in Nat

VARIABLES
  cfg,               \* the configurations, in order
  pc,                \* "called", "placing" the buckets, "done"
  root,              \* the offsets and sizes stored in struct base
  buckets,           \* the bucket table, filled from the front
  placed,            \* where the ring or array of each bucket was set up
  offset, position   \* locals of sms_init_statistics

vars == <<cfg, pc, root, buckets, placed, offset, position>>

NoLayout == [statistic_offset |-> 0, statistic_size |-> 0, data_offset |-> 0, data_size |-> 0]

Init ==
  /\ cfg \in UNION {[1..n -> Config] : n \in 0..MaxConfigs}
  /\ pc = "called"
  /\ root = NoLayout
  /\ buckets = <<>> /\ placed = <<>>
  /\ offset = 0 /\ position = 0

-------------------------------------------------------------------------------
(* Sizes *)

ALIGN_BLOCK_SIZE(d) == d + (d % 8)

\* The extra slot of a ring is forgotten.
AllocSizeNoExtra(c) == (HdrSize + c.elem_size * c.cap) % Modulus

\* array_alloc_size and ring_alloc_size: the same expression, in uint32_t.
AllocSize(c) == (HdrSize + c.elem_size * (c.cap + 1)) % Modulus

\* The local total of sms_calc_data_size, after each number of turns of its loop.
Total(cs) ==
  LET total[n \in 0..Len(cs)] ==
        IF n = 0 THEN 0 ELSE total[n - 1] + ALIGN_BLOCK_SIZE(AllocSize(cs[n]))
  IN  total

sms_calc_data_size(cs) == Total(cs)[Len(cs)]

\* The same of sms_calc_size, which has a loop of its own.
SegmentTotal(cs) ==
  LET total[n \in 0..Len(cs)] ==
        IF n = 0 THEN ALIGN_BLOCK_SIZE(BaseSize) + ALIGN_BLOCK_SIZE(StatSize)
                 ELSE total[n - 1] + ALIGN_BLOCK_SIZE(AllocSize(cs[n]))
  IN  total

sms_calc_size(cs) == SegmentTotal(cs)[Len(cs)]

BASE_STATISTICAL_AREA == BaseSize + (BaseSize % 8)
BASE_DATA_AREA == BASE_STATISTICAL_AREA + StatSize + (StatSize % 8)

-------------------------------------------------------------------------------
(* sms_init *)

\* The base record is filled in; sms_init_statistics clears the statistics and enters
\* its loop.
InitBase ==
  /\ pc = "called"
  /\ root' = [statistic_offset |-> ALIGN_BLOCK_SIZE(BaseSize),
              statistic_size |-> ALIGN_BLOCK_SIZE(StatSize),
              data_offset |-> ALIGN_BLOCK_SIZE(BaseSize) + ALIGN_BLOCK_SIZE(StatSize),
              data_size |-> sms_calc_data_size(cfg)]
  /\ offset' = root'.data_offset
  /\ position' = 0
  /\ buckets' = <<>> /\ placed' = <<>>
  /\ pc' = IF cfg = <<>> THEN "done" ELSE "placing"
  /\ UNCHANGED cfg

\* The position is advanced by the size of the structure, not of the bucket.
InitBucketUnpadded ==
  LET c == cfg[Len(buckets) + 1]
      size == ALIGN_BLOCK_SIZE(AllocSize(c))
  IN
  /\ pc = "placing"
  /\ buckets' = Append(buckets, [type |-> c.type, cap |-> c.cap, offset |-> offset, size |-> size])
  /\ placed' = Append(placed, BASE_DATA_AREA + position)
  /\ offset' = offset + size
  /\ position' = position + AllocSize(c)
  /\ pc' = IF Len(buckets') = Len(cfg) THEN "done" ELSE "placing"
  /\ UNCHANGED <<cfg, root>>

\* One turn of the loop: array_setup or ring_setup at the position, and the entry
\* of the bucket table.
InitBucket ==
  LET c == cfg[Len(buckets) + 1]
      size == ALIGN_BLOCK_SIZE(AllocSize(c))
  IN
  /\ pc = "placing"
  /\ buckets' = Append(buckets, [type |-> c.type, cap |-> c.cap, offset |-> offset, size |-> size])
  /\ placed' = Append(placed, BASE_DATA_AREA + position)
  /\ offset' = offset + size
  /\ position' = position + size
  /\ pc' = IF Len(buckets') = Len(cfg) THEN "done" ELSE "placing"
  /\ UNCHANGED <<cfg, root>>

\* The program ends, in the middle of sms_init or long after it, and calls sms_init
\* again when it is started the next time: the segment is as it left it.
Restart ==
  /\ pc # "called"
  /\ pc' = "called"
  /\ offset' = 0 /\ position' = 0
  /\ UNCHANGED <<cfg, root, buckets, placed>>

Next == InitBase \/ InitBucket \/ Restart

Spec == Init /\ [][Next]_vars

\* The address at which sms_summary and sms_info look for bucket k: "root +
\* b->offset" is arithmetic on a struct base *.
SummaryAddress(k) == BaseSize * buckets[k].offset

-------------------------------------------------------------------------------
(* Properties *)

\* What the owner of bucket k may touch: the header, and elem_size bytes per slot,
\* of which a ring has one more than its capacity (cmn_ring.c:6).
Footprint(k) ==
  LET c == cfg[k] IN
  placed[k]..(placed[k] + HdrSize
                + c.elem_size * (IF c.type = "RING" THEN c.cap + 1 ELSE c.cap) - 1)

\* The statistics record, and the part of it that describing bucket k writes.
Statistics == BASE_STATISTICAL_AREA..(BASE_STATISTICAL_AREA + StatSize - 1)
TableEntry(k) ==
  LET at == BASE_STATISTICAL_AREA + 8 + (k - 1) * BucketSize IN at..(at + BucketSize - 1)
ConfigEntry(k) ==
  LET at == BASE_STATISTICAL_AREA + 8 + MaxBuckets * BucketSize + (k - 1) * CfgSize
  IN  at..(at + CfgSize - 1)

\* Every bucket keeps to bytes of its own: no two overlap, none reaches into the
\* records at the front or past the segment that sms_calc_size asked for, and
\* describing a bucket writes inside the statistics record.
BytesOfItsOwn ==
  \A k \in DOMAIN buckets :
    /\ Footprint(k) \subseteq BASE_DATA_AREA..(sms_calc_size(cfg) - 1)
    /\ \A j \in DOMAIN buckets : j # k => Footprint(j) \cap Footprint(k) = {}
    /\ Statistics \subseteq BaseSize..(BASE_DATA_AREA - 1)
    /\ TableEntry(k) \subseteq Statistics /\ ConfigEntry(k) \subseteq Statistics

\* The three computations agree: the offset in the table is where the structure
\* was set up, and the last bucket ends where base and sms_calc_size say.
LayoutAgrees ==
  /\ \A k \in DOMAIN buckets : buckets[k].offset = placed[k]
  /\ pc = "done" => /\ root.data_offset + root.data_size = sms_calc_size(cfg)
                    /\ offset = sms_calc_size(cfg)

\* sms_summary shows the rings and arrays that sms_init set up.
SummaryShowsBuckets == \A k \in DOMAIN buckets : SummaryAddress(k) = placed[k]
=============================================================================
