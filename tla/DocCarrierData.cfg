SPECIFICATION Spec
CONSTANTS
  Msg = {m1, m2}
  Row = {c1}
  Variant = {v1}
  Bad = {}
  NeedsFrom = 2
  MaxVersion = 2
  MaxSettings = 0
  MaxRestarts = 0
CHECK_DEADLOCK FALSE
INVARIANTS
  NoBlank
