SPECIFICATION Spec
CONSTANTS
  Msg = {m1, m2}
  Row = {c1}
  Variant = {v1}
  Bad = {}
  NeedsFrom = 2
  MaxVersion = 1
  MaxSettings = 1
  MaxRestarts = 0
CHECK_DEADLOCK FALSE
INVARIANTS
  NeverStale
