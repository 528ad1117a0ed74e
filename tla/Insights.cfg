SPECIFICATION Spec
CONSTANTS
  Requests = {r1, r2, r3}
  Servers = {s1, s2}
  Profiles = {p1, p2}
  PoolSize = 2
  RollbackMayFail = FALSE
  MaxFigures = 1
  MaxFaults = 2
  NoRequest = NoRequest
  NoConnection = NoConnection
  NoInsights = NoInsights
  NoSnapshot = NoSnapshot
SYMMETRY Symmetry
CHECK_DEADLOCK FALSE
INVARIANTS
  TypeOK
  ConnectionsAreReturned
  GenerationIsNeeded
  InsightsAreNotOld
