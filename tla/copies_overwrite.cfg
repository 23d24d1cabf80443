SPECIFICATION Spec
CONSTANTS
  Editors = {e1, e2}
  None = None
  MaxVersion = 4
  MaxCopies = 3
CHECK_DEADLOCK FALSE
PROPERTY NoLastWriteWins
