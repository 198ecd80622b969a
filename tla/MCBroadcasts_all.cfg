CONSTANTS
  a = a
  b = b
  c = c
  e1 = e1
  k1 = k1
  m1 = m1
  m2 = m2
  None = None
  Procs = {a, b, c}
  ErrorHandler = None
  Periodic = {}
  Period <- NoPeriod
  BasePriority <- ThreeLevels
  Priorities = {1}
  Timeouts <- Forever
  FirstReleases = {0}
  MaxLag = 1
  Resources = {e1, k1}
  Mutexes = {}
  Services = {"START", "STOP", "SET_EVENT", "RESET_EVENT", "WAIT_EVENT",
              "DISPLAY_BLACKBOARD", "CLEAR_BLACKBOARD", "READ_BLACKBOARD"}
  PriorityQueued = {}
  MaxQueue = 2
  Events = {e1}
  Blackboards = {k1}
  Messages = {m1, m2}
SPECIFICATION CastSpec
INVARIANT NoWaitOnRaised
INVARIANT ReleasedByRaise
INVARIANT ReadersGetNews
INVARIANT PriorityRespected
