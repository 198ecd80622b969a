CONSTANTS
  a = a
  b = b
  c = c
  m1 = m1
  lk = lk
  None = None
  Procs = {a, b, c}
  ErrorHandler = None
  Periodic = {}
  Period <- NoPeriod
  BasePriority <- ThreeLevels
  Priorities = {1, 5}
  Timeouts <- Forever
  FirstReleases = {0}
  MaxLag = 1
  Resources = {m1, lk}
  Mutexes = {m1, lk}
  PriorityQueued = {m1}
  MaxQueue = 2
  Services = {"START", "STOP_SELF", "SET_PRIORITY", "TIMED_WAIT", "ACQUIRE_MUTEX", "RELEASE_MUTEX", "RESET_MUTEX", "LOCK_PREEMPTION", "UNLOCK_PREEMPTION"}
  MutexPriority <- Ceilings
  PreemptionLock = lk
  MaxLockLevel = 2
SPECIFICATION MutexSpec
INVARIANT MutexTypeOK
INVARIANT OwnershipAgrees
INVARIANT OwnerHasCeiling
INVARIANT WaitersWait
INVARIANT PreemptionLocked
INVARIANT LockLevelAgrees
