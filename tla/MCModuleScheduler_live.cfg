SPECIFICATION FairSpec
CONSTANTS
  p1 = p1
  p2 = p2
  Partitions = {p1, p2}
  None = None
  Windows <- GappedWindows
  Frame = 6
  MaxLate = 2
  BootTicks = {0, 1, 5, 20}
  ClockModulus = 24
  Word = 24
PROPERTIES EachPartitionServed IdleTakesEffect CatchesUp
