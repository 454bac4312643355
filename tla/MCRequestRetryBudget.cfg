CONSTANTS
  Nodes = {n1, n2, n3}
  Direct = direct
  None = None
  Requests <- MCRequests
  Delays = {0, 12000}
  BaseMax = 2
  EmptyMax = 3
  RetryBudget = 24000
  AllowDirect = TRUE
  MaxSpent = 60000
SPECIFICATION Spec
INVARIANT AttemptsEndInBudget
CHECK_DEADLOCK FALSE
