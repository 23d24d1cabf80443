SPECIFICATION Spec
CONSTANTS
  Identities = {i1, i2}
  Flows = {f1, f2}
  Callbacks = {c1, c2, c3}
  Tokens = {t1, t2}
  Requests = {r1, r2, r3}
  None = None
SYMMETRY MCSymmetry
INVARIANTS
  RedeemedOnce
  OutIsOut
