SPECIFICATION FairSpec
CONSTANTS
  Request = {r1, r2}
  Key = {k1}
  Body = {b1}
  Own = {}
  Big = {k1}
  Connections = 1
  MaxRequests = 2
  MaxFaults = 1
CHECK_DEADLOCK FALSE
INVARIANTS
  ReplayIsWhole
  RefusalIsKept
