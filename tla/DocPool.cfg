SPECIFICATION Spec
CONSTANTS
  Request = {r1, r2}
  Key = {k1, k2}
  Body = {b1}
  Own = {k1, k2}
  Big = {}
  Connections = 2
  MaxRequests = 2
  MaxFaults = 1
INVARIANTS
  NeverClogged
