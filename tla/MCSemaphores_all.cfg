CONSTANTS
  a = a
  b = b
  c = c
  s1 = s1
  None = None
  Procs = {a, b, c}
  ErrorHandler = None
  Periodic = {}
  Period <- NoPeriod
  BasePriority <- ThreeLevels
  Priorities = {1, 3}
  Timeouts <- ForeverOrTick
  FirstReleases = {0}
  MaxLag = 1
  Resources = {s1}
  Mutexes = {}
  Services = {"START", "WAIT_SEMAPHORE", "SIGNAL_SEMAPHORE", "STOP", "SUSPEND", "RESUME"}
  Semaphores = {s1}
  InitialValue <- OneToken
  MaximumValue <- TwoTokens
  PriorityQueued = {s1}
  MaxQueue = 2
SPECIFICATION SemSpec
INVARIANT SemTypeOK
INVARIANT NoIdleToken
INVARIANT QueuedAreWaiting
INVARIANT ReturnTellsTruth
INVARIANT QueueOrdered
