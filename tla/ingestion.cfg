SPECIFICATION OrderedSpec
CONSTANTS
  Files = {f1}
  Indexes = {i1}
  PrivateIndexes = {i1}
  Actors = {a1}
  Keys = {1, 2, 3}
  Workers = {w1, w2}
  FileQuota = 1
  MaxAttempts = 3
  ReconcileBatch = 1
  None = None
INVARIANTS
  ResultOfLatestAttempt
  RunsOnlyAsAsked
  CancelFinal
PROPERTIES
  TriggersAccept
  EveryJobSettles
CHECK_DEADLOCK FALSE
