SPECIFICATION Spec
CONSTANTS
  Msg = {m1}
  Row = {c1}
  Variant = {v1}
  Bad = {1}
  NeedsFrom = 2
  MaxVersion = 1
  MaxSettings = 0
  MaxRestarts = 0
CHECK_DEADLOCK FALSE
PROPERTIES
  NotTriedAgain
