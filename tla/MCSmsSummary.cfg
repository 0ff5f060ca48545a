CONSTANTS
  BaseSize = 120
  StatSize = 776
  BucketSize = 80
  CfgSize = 16
  HdrSize = 16
  MaxBuckets = 8
  Modulus = 4096
  Config <- Words
  MaxConfigs = 2
SPECIFICATION Spec
INVARIANTS SummaryShowsBuckets
