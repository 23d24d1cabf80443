SPECIFICATION FairSpec
CONSTANTS
  p1 = p1
  Runs = {r1, r2}
  Actors = {a1}
  Keys = {k1, k2}
  Workers = {w1}
  Policies = {p1}
  ReserveOf <- MCReserveOf
  LimitOf <- MCLimitOf
  Amounts = {2}
  DailyLimit = 2
  ReconcileBatch = 1
  None = None
PROPERTY
  EveryRunEnds
CHECK_DEADLOCK FALSE
