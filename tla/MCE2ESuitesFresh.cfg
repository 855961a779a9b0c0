SPECIFICATION Spec
CONSTANTS
  Suites = {"storage", "postgres"}
  MaxRuns = 2
  Campaigns <- Twice
  MayClean = {}
  MayLose = {}
PROPERTY FreshResources
CHECK_DEADLOCK FALSE
