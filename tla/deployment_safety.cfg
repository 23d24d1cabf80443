SPECIFICATION Spec
CONSTANTS
  r1 = r1
  r2 = r2
  r3 = r3
  r4 = r4
  Releases = {r1, r2, r3, r4}
  Schema <- MCSchema
  Broken = {r4}
  Backups = {b1, b2}
  Mixed = Mixed
  None = None
  MaxData = 1
SYMMETRY MCSymmetry
CHECK_DEADLOCK FALSE
INVARIANTS
  RecordedCanRun
  BackupIsOneMoment
  ServiceSurvives
