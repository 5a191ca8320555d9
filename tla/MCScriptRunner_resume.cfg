SPECIFICATION Spec
CONSTANTS
  Scripts <- FewScripts
  Drivers = {"mysql"}
  Modes <- MCModes
  Eagers = {TRUE}
  MaxRuns = 2
  MaxBegins = 1
INVARIANT RestartRepeatsNothing
CHECK_DEADLOCK FALSE
