SPECIFICATION ReleaseFairSpec
CONSTANTS
  i1 = i1
  i2 = i2
  Runs = {i1, i2}
  MaxSecond = 2
  MaxSource = 3
  Broken = {2}
INVARIANTS ReleaseTypeOK ClaimIsPullable BrokenNeverLive SuccessIsReleased
PROPERTIES NeverRollsBack RemovedStaysRemoved ReleaseArrives
CHECK_DEADLOCK FALSE
