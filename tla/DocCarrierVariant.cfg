SPECIFICATION Spec
CONSTANTS
  Msg = {m1, m2}
  Row = {c1}
  Variant = {v1, v2}
  Bad = {}
  NeedsFrom = 3
  MaxVersion = 1
  MaxSettings = 0
  MaxRestarts = 0
CHECK_DEADLOCK FALSE
INVARIANTS
  OwnVariant
