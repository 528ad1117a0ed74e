SPECIFICATION Spec
CONSTANTS
  Statements = {s1}
  LineNumbers = {l1}
  Attempts = {a1}
  Messages = {m1, m2}
  Requests = {r1, r2}
  NoAttempt = NoAttempt
  NoStatement = NoStatement
  NoMessage = NoMessage
  LeaseTime = 1
  VisibilityTime = 2
  MaxReceive = 1
  MaxTime = 4
  MaxFaults = 2
SYMMETRY Symmetry
CHECK_DEADLOCK FALSE
INVARIANTS
  QueuedIsBacked
  SourceFailureNeedsChange
  TypeOK
  SafetyInv
PROPERTIES
  LifecycleImplemented
