CONSTANTS
  NoRun = NoRun
  Run = {r1, r2}
  Request = {q1, q2}
  MaxActors = 3
  MaxPatches = 1
  MaxSwept = 1
  Loader = {l1, l2}
  File <- MCFile
  MaxHeaderScan = 3
  x1 = x1
  x2 = x2
  n1 = n1
  CRun = {x1, x2}
  TenantOf <- MCTenantOf
  PoolThread = {h1, h2}
  CTenant = {n1}
  Database = {postgres}
  Shared = {postgres}
  Api = Api
  MaxEdits = 1
  Nobody = Nobody
  NoValue = NoValue
  Cell <- MCCell
  Forecast <- MCForecast
  MaxRows = 6
  Null = Null
  ARequest = {a1, a2}
  User = {u1, u2}
  Org = {o1}
  PlatformAdmins = {u1}
  Owner = o1
  Target = {o1, u2}
  LogLimits = {1}
  LogTime = {1, 2}
  Unnamed = Unnamed
  NoOrg = NoOrg
SPECIFICATION RunsSpec
VIEW RunsView
INVARIANTS
  RunsTypeOK
  GateHolds
  PendingHasArtifacts
  OneDecision
  LoadsWhatIsThere
  ConnectsToItsOwn
  ChecksAreRight
  LoggedOnce
SYMMETRY Symmetry
CHECK_DEADLOCK FALSE
