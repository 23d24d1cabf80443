SPECIFICATION Spec
CONSTANTS
  Items = {i1, i2, i3}
  Keys = {k1, k2, k3}
  Sessions = {s1, s2}
  None = None
  EdgeLimit = 3
SYMMETRY MCSymmetry
INVARIANTS
  NoCycle
  DoneRestsOnDone
  OneItemPerRequest
