SPECIFICATION FairSpec
CONSTANTS
  e1 = e1
  e2 = e2
  t1 = t1
  p1 = p1
  p2 = p2
  w1 = w1
  w2 = w2
  Event = {e1, t1}
  Endpoint = {p1}
  Worker = {w1, w2}
  Ping = {t1}
  Fanned = {e1}
  Answers = {"ok", "error"}
  Edits = {"subscription", "delete", "enable", "retry"}
  MaxAttempts = 2
  DisableAfter = 2
  NoSuccessMin = 1
  LateExpiry = FALSE
  MaxEdits = 1
  MaxCrashes = 1
CHECK_DEADLOCK FALSE
INVARIANTS
  OpenIsScheduled
  DisabledWindsDown
  OneCallAtATime
PROPERTIES
  KeepsPromise
  Settles
  EventReachesSubscribers
