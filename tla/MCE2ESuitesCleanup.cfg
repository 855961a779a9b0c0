SPECIFICATION Spec
CONSTANTS
  Suites = {"storage", "postgres"}
  MaxRuns = 2
  Campaigns <- Once
  MayClean <- Once
  MayLose <- Once
PROPERTY CleanupComplete
CHECK_DEADLOCK FALSE
