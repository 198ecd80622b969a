CONSTANTS
  a = a
  b = b
  c = c
  None = None
  Procs = {a, b, c}
  ErrorHandler = None
  Periodic = {c}
  Period <- PeriodOfTwo
  BasePriority <- TwoLevels
  Priorities = {2}
  Timeouts <- ZeroOneForever
  FirstReleases = {1}
  MaxLag = 2
  Resources = {}
  Mutexes = {}
  PriorityQueued = {}
  MaxQueue = 1
  Services = {"SET_PRIORITY", "SUSPEND_SELF", "SUSPEND", "RESUME", "STOP_SELF", "STOP", "START", "DELAYED_START", "TIMED_WAIT", "PERIODIC_WAIT"}
SPECIFICATION TimedSpec
INVARIANT TypeOK
INVARIANT RunningIsCurrent
INVARIANT PriorityRespected
INVARIANT NoDrift
PROPERTY TimeNeverRevives
PROPERTY NoEarlyWake
SYMMETRY Peers
