CONSTANTS
  Nodes = {n1}
  Requests = {r1, r2}
  Probes = {p1, p2}
  MaxConcurrent = 1
  MaxLeaks = 1
  MaxOps = 2
  Absent = Absent
SPECIFICATION Spec
SYMMETRY Symmetry
PROPERTY RecoveryReturnsNode
CHECK_DEADLOCK FALSE
