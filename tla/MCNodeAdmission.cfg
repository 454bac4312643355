CONSTANTS
  Threads = {t1, t2}
  Resources <- MCResources
  Preflighted = {}
  Costs <- MCCosts
  Limit <- MCLimit
  CooldownSecs = 2
  MaxLate = 1
  MinConcurrent = 1
  MaxConcurrent = 2
  SuccessStep = 1
  FailurePercent = 50
  FailOpen = FALSE
SPECIFICATION Spec
INVARIANTS TypeOK LeasesAccounted LimitsHonoured RememberedServed
PROPERTY CooldownEnds
