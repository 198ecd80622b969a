CONSTANTS
  a = a
  b = b
  c = c
  s1 = s1
  None = None
  Procs = {a, b, c}
  ErrorHandler = None
  Periodic = {}
  Period <- NoPeriod
  BasePriority <- ThreeLevels
  Priorities = {1, 3}
  Timeouts = {1}
  FirstReleases = {0}
  MaxLag = 1
  Resources = {s1}
  Mutexes = {}
  Services = {"START", "WAIT_SEMAPHORE", "SIGNAL_SEMAPHORE"}
  Semaphores = {s1}
  InitialValue <- OneToken
  MaximumValue <- TwoTokens
  PriorityQueued = {s1}
  MaxQueue = 3
SPECIFICATION SemSpec
INVARIANT TimedOutLeavesQueue
