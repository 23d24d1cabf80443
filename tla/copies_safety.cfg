SPECIFICATION Spec
CONSTANTS
  Editors = {e1, e2}
  None = None
  MaxVersion = 4
  MaxCopies = 3
SYMMETRY Symmetry
CHECK_DEADLOCK FALSE
PROPERTIES
  RevisionsBuildOnLast
  CopiesBuildOnLast
