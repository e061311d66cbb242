SPECIFICATION FairSpec
CONSTANTS
  None = None
  t1 = t1
  t2 = t2
  t3 = t3
  r1 = r1
  r2 = r2
  Callers = {t1, t2}
  Clients = {c1, c2}
  Rows = {r1, r2}
  MaxAttempts = 2
  Work <- Crossing
INVARIANT PoolClean
INVARIANT UpdatesCount
INVARIANT Reported
PROPERTY CallsEnd
