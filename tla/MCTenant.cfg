CONSTANTS
  NoCap = NoCap
  NoCall = NoCall
  Call = {s1, a1}
  Scheduled = {s1}
  CapChoices = {1, NoCap}
  DefaultCap = NoCap
  Costs = {1}
  RateLimitMaxRuns = 1
  MaxRetries = 1
  TTLCoversRun = FALSE
  Fires = 3
  Channel <- MCChannel
  AlertAt = 2
  Kpi = {1, 2}
  DriftThreshold = 0
  DefaultThreshold = 20
  PRequest = {p1, p2}
  Name = {m1, m2}
  Cron = {c1, c2}
  Pair <- MCPair
  Chan = {slack}
  HealthWindow = 1
  MaxFires = 1
  Omit = Omit
  None = None
  Bad = Bad
  NoRequest = NoRequest
  TRun = {r1}
  Erasure = {e1}
  SweepJob = {w1}
  MaxOperations = 2
SPECIFICATION TenantSpec
VIEW TenantView
INVARIANTS
  TenantTypeOK
  InFlightUnlessDisturbed
  NoLeakedLock
  AdmittedPerWindow
  AlertOnCrossing
  DigestOnDrift
  NoEditLost
  FiresBySchedule
  ErasureIsComplete
  SweepKeepsFresh
  ExportIsConsistent
CHECK_DEADLOCK FALSE
