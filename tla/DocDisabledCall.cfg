SPECIFICATION Spec
CONSTANTS
  e1 = e1
  e2 = e2
  t1 = t1
  p1 = p1
  p2 = p2
  w1 = w1
  w2 = w2
  Event = {e1, e2}
  Endpoint = {p1}
  Worker = {w1, w2}
  Ping = {}
  Fanned = {e1, e2}
  Answers <- Failing
  Edits <- AllEdits
  MaxAttempts = 2
  DisableAfter = 2
  NoSuccessMin = 2
  LateExpiry = FALSE
  MaxEdits = 1
  MaxCrashes = 0
CHECK_DEADLOCK FALSE
PROPERTIES
  NoCallWhenDisabled
