SPECIFICATION SeededSpec
CONSTANTS
  Texts = {t1}
  Originals = {}
  Periods <- MCPeriods
  Null = Null
  MaxEvidence = 1
  MaxDocuments = 3
  MaxVersions = 3
  MaxIndexes = 4
  MaxNotes = 1
  MaxChanges = 3
  MaxTime = 1
  Definitions <- MCDefinitions
  MaxDatasets = 2
  MaxEvaluations = 1
CHECK_DEADLOCK FALSE
INVARIANTS
  MemoryWithinPeriods
  OwnerEvidenceStaysPrivate
  CuratedOnceFromItsReview
  BaselineDescribesToday
PROPERTIES
  EvidenceStoodAtActivation
