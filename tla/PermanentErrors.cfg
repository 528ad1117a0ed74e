SPECIFICATION Spec
CONSTANTS
  InitialBackoff = 1
  MaxBackoff = 1
  ShutdownTimeout = 1
  MaxFailures = 1
CHECK_DEADLOCK FALSE
INVARIANTS
  PermanentFailuresAreExplicit
