SPECIFICATION Spec
CONSTANTS
  Requests = {r1, r2, r3}
  Servers = {s1}
  Profiles = {p1}
  PoolSize = 2
  RollbackMayFail = TRUE
  MaxFigures = 1
  MaxFaults = 1
  NoRequest = NoRequest
  NoConnection = NoConnection
  NoInsights = NoInsights
  NoSnapshot = NoSnapshot
SYMMETRY Symmetry
CHECK_DEADLOCK FALSE
INVARIANTS
  InsightsAreNotOld
