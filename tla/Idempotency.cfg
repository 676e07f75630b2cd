SPECIFICATION FairSpec
CONSTANTS
  Request = {r1, r2, r3}
  Key = {k1, k2}
  Body = {b1, b2}
  Own = {k2}
  Big = {k1}
  Connections = 2
  MaxRequests = 3
  MaxFaults = 1
CHECK_DEADLOCK FALSE
INVARIANTS
  AtMostOnce
  AnswerIsTrue
PROPERTIES
  EveryRequestEnds
