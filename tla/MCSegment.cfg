CONSTANTS
  BaseSize = 120
  StatSize = 776
  BucketSize = 80
  CfgSize = 16
  HdrSize = 16
  MaxBuckets = 8
  Modulus = 4096
  Config <- Shapes
  MaxConfigs = 3
  NAlloc = 3
  Value = {1, 2, 3}
  Used <- InTheMiddle
  At = 2
SPECIFICATION SegmentSpec
INVARIANTS BytesOfItsOwn LayoutAgrees VisitsWhatWasThere
PROPERTIES StoresInside StartsEmpty PoppedIntact ImplementsStack
