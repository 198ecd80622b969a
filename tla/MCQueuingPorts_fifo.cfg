CONSTANTS
  a = a
  b = b
  q1 = q1
  m1 = m1
  m2 = m2
  None = None
  Procs = {a}
  ErrorHandler = None
  Periodic = {}
  Period <- NoPeriod
  BasePriority <- Equal
  Priorities = {1}
  Timeouts <- ForeverOrTick
  FirstReleases = {0}
  MaxLag = 1
  Resources = {q1}
  Mutexes = {}
  Services = {"START", "RECEIVE_QUEUING_MESSAGE", "CLEAR_QUEUING_PORT"}
  PriorityQueued = {q1}
  MaxQueue = 2
  InPort = q1
  MaxNbMessages = 2
  Word = 8
  MaxMessageSize = 32
  Messages = {m1, m2}
SPECIFICATION AlignedSpec
INVARIANT CountInRange
PROPERTY ImplementsFIFO
PROPERTY ReceiverUnblocked
