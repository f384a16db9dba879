CONSTANTS
  NoCap = NoCap
  NoCall = NoCall
  Call = {a1, a2}
  Scheduled = {}
  CapChoices = {1}
  DefaultCap = NoCap
  Costs = {1}
  RateLimitMaxRuns = 3
  MaxRetries = 0
  TTLCoversRun = TRUE
SPECIFICATION Spec
INVARIANT OvershootBelowOneRun
SYMMETRY CallSymmetry
CHECK_DEADLOCK FALSE
