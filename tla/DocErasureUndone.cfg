SPECIFICATION Spec
CONSTANTS
  Request = {r1, r2}
  List = {l1}
  Single = {}
  Added = {"gdpr_erasure"}
  MaxRequests = 3
  MaxFaults = 0
CHECK_DEADLOCK FALSE
INVARIANTS
  StatusOfRow
