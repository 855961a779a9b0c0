SPECIFICATION Spec
CONSTANTS
  Suites = {"storage", "postgres"}
  MaxRuns = 2
  Campaigns <- Once
  MayClean = {}
  MayLose = {}
PROPERTY IsolatedSuites
CHECK_DEADLOCK FALSE
