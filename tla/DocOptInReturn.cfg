SPECIFICATION Spec
CONSTANTS
  Request = {r1}
  List = {l1}
  Single = {}
  Added = {"manual"}
  MaxRequests = 4
  MaxFaults = 0
CHECK_DEADLOCK FALSE
PROPERTIES
  ReturnIsHeard
