SPECIFICATION QueuedSpec
CONSTANTS
  Statements = {s1}
  LineNumbers = {l1, l2}
  Attempts = {a1}
  Messages = {m1}
  Requests = {}
  NoAttempt = NoAttempt
  NoStatement = NoStatement
  NoMessage = NoMessage
  LeaseTime = 1
  VisibilityTime = 2
  MaxReceive = 2
  MaxTime = 4
  MaxFaults = 0
SYMMETRY Symmetry
CHECK_DEADLOCK FALSE
PROPERTIES
  CompletingUpdateChecksLease
