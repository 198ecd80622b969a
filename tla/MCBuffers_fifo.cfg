CONSTANTS
  a = a
  b = b
  c = c
  r0 = r0
  w0 = w0
  r1 = r1
  w1 = w1
  m1 = m1
  m2 = m2
  None = None
  Procs = {a, c}
  ErrorHandler = None
  Periodic = {}
  Period <- NoPeriod
  BasePriority <- TwoLevels
  Priorities = {1}
  Timeouts <- ForeverOrTick
  FirstReleases = {0}
  MaxLag = 1
  Resources = {r0, w0}
  Mutexes = {}
  Services = {"START", "SEND_BUFFER", "RECEIVE_BUFFER", "STOP"}
  PriorityQueued = {r0, w0}
  MaxQueue = 2
  NbBuffers = 1
  MaxNbMessage <- Capacities
  Messages = {m1, m2}
  Length <- Lengths
  Readers <- ReaderQueues
  Writers <- WriterQueues
SPECIFICATION BufSpec
INVARIANT BufTypeOK
INVARIANT NobodyWaitsInVain
INVARIANT WaitersAreServed
PROPERTY ImplementsFIFOs
