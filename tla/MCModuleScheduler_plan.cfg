SPECIFICATION FirstEpochSpec
CONSTANTS
  p1 = p1
  p2 = p2
  Partitions = {p1, p2}
  None = None
  Windows <- ConfiguredWindows
  Frame = 10
  MaxLate = 2
  BootTicks = {0, 1, 2, 3}
  ClockModulus = 45
  Word = 450
INVARIANTS TypeOK PlanFollowed IdleRequestHitsCaller
PROPERTIES IdleIsFinal ImplementsPlan
CHECK_DEADLOCK FALSE
