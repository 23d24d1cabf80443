SPECIFICATION SeededSpec
CONSTANTS
  Profiles = {"editor", "copywriter", "content_planner"}
  Contracts = {c1, c2}
  MaxChanges = 8
  Runs = {r1, r2}
  Tabs = {t1, t2}
  Evidence = {e1, e2}
  Gaps = {g1}
  Findings = {f1}
  None = None
  MaxWrites = 10
SYMMETRY MCSymmetry
CHECK_DEADLOCK FALSE
INVARIANTS
  AdoptedAfterItsSource
  GapsAreInherited
PROPERTIES
  ActsUnderItsSelection
  ActsOnWhatWasSeen
  GuardsAccept
