SPECIFICATION FairSpec
CONSTANTS
  Suites = {"storage", "postgres"}
  MaxRuns = 2
  Campaigns <- OnceOrTwice
  MayClean <- Twice
  MayLose <- Twice
INVARIANTS TypeOK NoOrphans NamesBeforeReady OwnResources
PROPERTY EventuallyClean
CHECK_DEADLOCK FALSE
