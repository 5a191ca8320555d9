\* One task of an SSM profile, due before the start: two runs of it, by the
\* schedule or by hand, and one upset of any kind at any moment.
SPECIFICATION FairSpec
CONSTANTS
  t1 = t1
  Tasks = {t1}
  SsmTasks = {t1}
  Periods = {1}
  Limits = {2}
  MaxRetries = 1
  MaxTime = 3
  MaxRuns = 2
  MaxUpsets = 1
INVARIANTS
  NoOverlap FiresOnce SessionsAreOwned MissedIsSkipped
PROPERTIES
  PauseIsDeserved EditsAreKept RunsEnd DueIsTaken
\* The bounds on runs and upsets let the system stop.
CHECK_DEADLOCK FALSE
