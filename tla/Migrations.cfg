SPECIFICATION FairSpec
CONSTANTS
  Runners = {p1, p2}
  Latest = 3
  Images = {1, 2, 3}
  Repeatable = {2}
  MetadataVersion = 3
  MaxFaults = 2
INVARIANTS
  TypeOK
  AppliedOnce
  RecordedIsApplied
  DoneIsApplied
  MetadataIsComplete
PROPERTIES
  SchemaArrives
