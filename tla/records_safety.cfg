SPECIFICATION RecordsSpec
CONSTANTS
  Brands = {b1}
  Products = {q1}
  Texts = {}
  None = None
  Created = {"source_item", "product_version", "claim_policy"}
  MaxRecords = 5
  MaxTime = 1
CHECK_DEADLOCK FALSE
INVARIANTS
  FamiliesAreLines
  ConfirmedIsSupported
