SPECIFICATION QueuedSpec
CONSTANTS
  Statements = {s1}
  LineNumbers = {l1, l2}
  Attempts = {a1, a2, a3}
  Messages = {m1}
  Requests = {}
  NoAttempt = NoAttempt
  NoStatement = NoStatement
  NoMessage = NoMessage
  LeaseTime = 1
  VisibilityTime = 2
  MaxReceive = 2
  MaxTime = 6
  MaxFaults = 2
SYMMETRY Symmetry
CHECK_DEADLOCK FALSE
INVARIANTS
  LinesOfOneAttempt
  AckOnlySettled
PROPERTIES
  LeaseIsExclusive
  OnlyTheHolderWrites
  TerminalIsFinal
