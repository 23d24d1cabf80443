SPECIFICATION SeededSpec
CONSTANTS
  b1 = b1
  q1 = q1
  t1 = t1
  t2 = t2
  Brands = {b1}
  Products = {q1}
  Texts = {t1, t2}
  None = None
  Created = {}
  MaxRecords = 15
  MaxTime = 1
  Posts = {p1}
  MaxVersion = 11
  MaxRevisions = 2
  MaxPackages = 2
CHECK_DEADLOCK FALSE
INVARIANTS
  ApprovalIsCurrent
  PackageAsApproved
  DecisionsAnswerReviews
  ActivePackageStands
PROPERTIES
  KeepsPublication
