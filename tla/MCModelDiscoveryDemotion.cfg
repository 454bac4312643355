CONSTANTS
  Models = {m1, m2}
  Free = {m1, m2}
  Operators = {"operator"}
  Operated = {m1}
  Served = {m1}
  RequiredProbes <- MCRequiredProbes
  AvailabilityProbe = "openai_nonstream_minimal"
  CcProbes = {"claudecode_anthropic_forced_tool"}
  Quorum = 2
  Threshold = 2
  MaxPerRound = 1
  CandidateFailures = 1
  MinCanaryRequests = 1
  MinSuccessBps = 9900
  Lists <- MCLists
  Answers <- MCAnswers
  MaxInterventions = 2
SPECIFICATION Spec
INVARIANTS DemotionHolds
