CONSTANTS
  Keep = Keep
  Tick = {t1}
  Patch = {p1}
  Crons = {{1, 3, 5}, {2, 5}}
  Horizon = 4
  MaxCrashes = 0
  MaxUnanswered = 1
  Thread = {u1, u2}
  NoProvider = NoProvider
  Provider = {q1, q2}
  Threshold = 2
  Cooldown = 1
  NoCap = NoCap
  NoCall = NoCall
  Call = {s1, s2}
  Scheduled = {s1}
  CapChoices = {2}
  DefaultCap = NoCap
  Costs = {}
  RateLimitMaxRuns = 1
  MaxRetries = 1
  TTLCoversRun = TRUE
SPECIFICATION ServicesSpec
INVARIANTS
  NothingRunsOn
  ResultIsDelivered
  NoBoxLeftBehind
  OpenMeansFailing
PROPERTIES
  DueFires
  LockEventuallyFree
  AcceptedEnds
  CallEnds
  SandboxesImplementBoundedCall
  ClosesEarlyByLateCall
  Recovers
CHECK_DEADLOCK FALSE
