CONSTANTS
  Nodes = {n1}
  Requests = {r1, r2}
  Probes = {p1}
  MaxConcurrent = 1
  MaxLeaks = 1
  MaxOps = 2
  Absent = Absent
  Tasks = {t1, t2}
  Queue = 1
  Ring = 1
  Windows = 2
  Clock = 1
  Notices = 1
  Channel = 1
  Retries = 1
  Callers = {c1, c2, c3}
  Instances = {i1, i2}
  Home <- MCHome
  PinNodes <- MCPinNodes
  None = None
  Bodies <- MCBodies
  MaxFrames = 2
  MaxEvents = 3
  Anywhere = FALSE
SPECIFICATION PartsSpec
SYMMETRY MCExchange
INVARIANTS PartsTypeOK LeasesCovered CapacityHonoured KeptInSomePool AnswersAccounted PinGone ChunksImmaterial
CHECK_DEADLOCK FALSE
