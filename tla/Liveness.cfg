SPECIFICATION RequestedFairSpec
CONSTANTS
  Statements = {s1}
  LineNumbers = {l1}
  Attempts = {a1, a2}
  Messages = {m1}
  Requests = {r1}
  NoAttempt = NoAttempt
  NoStatement = NoStatement
  NoMessage = NoMessage
  LeaseTime = 1
  VisibilityTime = 2
  MaxReceive = 2
  MaxTime = 12
  MaxFaults = 1
CHECK_DEADLOCK FALSE
PROPERTIES
  WorkSettles
