SPECIFICATION FairSpec
CONSTANTS
  Kinds = {"select", "capture"}
  MaxRows = 4
INVARIANTS
  CountsExact
  ClaimCovers
  KeptIsAnnounced
PROPERTIES
  CommittedIsRecorded
  StopEnds
CHECK_DEADLOCK FALSE
