CONSTANTS
  h = h
  a = a
  b = b
  errors = errors
  None = None
  Procs = {h, a, b}
  ErrorHandler = h
  Periodic = {}
  Period <- NoPeriod
  BasePriority <- HandlerAbove
  Priorities = {1}
  Timeouts = {1}
  FirstReleases = {0}
  MaxLag = 1
  Resources = {errors}
  Mutexes = {}
  Services = {"START", "STOP", "STOP_SELF", "RESUME", "RAISE_APPLICATION_ERROR", "GET_ERROR_STATUS", "fault"}
  PriorityQueued = {}
  MaxQueue = 3
  ErrorList = errors
  MaxErrors = 2
  MaxWritten = 5
SPECIFICATION HealthSpec
INVARIANT HandlerFirst
INVARIANT WaiterInReach
