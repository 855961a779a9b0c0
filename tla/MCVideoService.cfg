SPECIFICATION FairSpec
CONSTANTS
  Requests = {r1, r2}
  Users = {u1}
  Ids = {i1}
  Titles = {t1}
  Empty = Empty
  None = None
  Environments <- AllEnvironments
  MaxConns = 1
  MaxRestarts = 1
INVARIANTS
  TypeOK
  IInv
  RefusedNeverStored
  StatementWasAllowed
  AnsweredOnce
  AckedIsStored
  ReadsSeeAcked
  ConnectionsAccounted
PROPERTIES
  EveryRequestEnds
  ExhaustionEnds
  StoreRefined
