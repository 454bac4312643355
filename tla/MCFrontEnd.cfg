CONSTANTS
  Requests = {r1, r2, r3}
  Profiles <- MCProfiles
  Enabled = TRUE
  Slots <- MCSlots
  Polls = 2
  Static <- MCStatic
  Hidden = {"helper"}
  Aliases <- MCAliases
  Found <- MCFound
  Alias <- MCAlias
  None = None
  Allowlist = {"new"}
  Mode = "active_only"
  Threshold = 2
  Batches = 2
SPECIFICATION FrontEndSpec
INVARIANTS FrontEndTypeOK CountExact
PROPERTIES ImplementsPermits EveryArrivalAnswered ListingFollowsProbes
