SPECIFICATION Spec
CONSTANTS
  Requests = {r1, r2}
  Users = {u1}
  Ids = {i1}
  Titles = {t1}
  Empty = Empty
  None = None
  Environments <- GoodEnvironments
  MaxConns = 2
  MaxRestarts = 0
INVARIANT SessionReused
