SPECIFICATION FairSpec
CONSTANTS
  Scripts <- MCScripts
  Drivers = {"mysql", "postgres", "sqlite"}
  Modes <- MCModes
  Eagers = {TRUE, FALSE}
  MaxRuns = 3
  MaxBegins = 1
INVARIANTS
  OwnTransactions
  NothingTwice
  ResumeExact
  AllOrNothing
  ClaimHolds
  CachesFollow
PROPERTY SlotFreed
CHECK_DEADLOCK FALSE
