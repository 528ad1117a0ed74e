SPECIFICATION FairSpec
CONSTANTS
  InitialBackoff = 1
  MaxBackoff = 3
  ShutdownTimeout = 3
  MaxFailures = 4
CHECK_DEADLOCK FALSE
INVARIANTS
  TypeOK
  StopsByDeadline
  AbandonedIsAborted
  ShutdownFailsNothing
  BackoffMatchesFailures
  DatabaseIsLeft
PROPERTIES
  ShutdownEnds
  KeepsReceiving
