SPECIFICATION Spec
CONSTANTS
  p1 = p1
  Runs = {r1, r2}
  Actors = {a1}
  Keys = {k1, k2}
  Workers = {w1, w2}
  Policies = {p1, p2}
  ReserveOf <- MCReserveOf
  LimitOf <- MCLimitOf
  Amounts = {2, 5}
  DailyLimit = 2
  ReconcileBatch = 1
  None = None
SYMMETRY Symmetry
INVARIANTS
  AtMostOneExposed
  AtMostOnceCall
  SpendBounded
  ArtifactIffReview
  CancelHonoured
PROPERTIES
  TriggersAccept
  KeepsLedger
CHECK_DEADLOCK FALSE
