CONSTANTS
  i1 = i1
  i2 = i2
  r1 = r1
  r2 = r2
  r3 = r3
  Instances <- MCInstances
  Requests <- MCRequests
  Home <- MCHome
  Skew <- MCSkew
  Leases = {1, 2, 3}
  MaxConcurrent = 2
  MaxCalls = 2
  LeaseTtl = 2
  CooldownSecs = 2
  FailOpen = TRUE
  MaxWithdrawn = 1
SPECIFICATION Spec
INVARIANTS TypeOK SharedLimitHonoured CapacityKept
PROPERTIES ImplementsPermits GrantsGoOn
