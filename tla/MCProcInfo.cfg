CONSTANTS
  Modulus = 7
  IntMax = 8
  Thread = {"t1", "t2"}
  Owner = "t1"
  Programs <- Mixes
  MaxClock = 3
  Sizes = {1, 3, 8, 10}
  Lengths = {0, 1, 2, 3}
SPECIFICATION Spec
INVARIANTS OneInstant GaugeCountsRequests ReportFits
