SPECIFICATION FairSpec
CONSTANTS
  i1 = i1
  Runs = {i1}
  MaxSecond = 1
  MaxSource = 2
  Broken = {2}
  Hyperscalers = {"google","aws","azure"}
  Apis = {"crossplane","kubevela"}
INVARIANTS TypeOK NoOrphanedDatabase
PROPERTY DestroyEnds
CHECK_DEADLOCK FALSE
