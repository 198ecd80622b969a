CONSTANTS
  a = a
  b = b
  c = c
  None = None
  Procs = {a, b, c}
  ErrorHandler = None
  Periodic = {}
  Period <- PeriodOfTwo
  BasePriority <- TwoLevels
  Priorities = {2}
  Timeouts = {0, 1, 2}
  FirstReleases = {1}
  MaxLag = 1
  Resources = {}
  Mutexes = {}
  PriorityQueued = {}
  MaxQueue = 1
  Services = {"START", "STOP_SELF", "TIMED_WAIT"}
SPECIFICATION FairTimedSpec
PROPERTY TimedWaitEnds
PROPERTY NoStarvation
