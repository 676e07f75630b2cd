SPECIFICATION Spec
CONSTANTS
  Request = {r1, r2}
  List = {l1, l2}
  Single = {l2}
  Added = {"complaint", "gdpr_erasure", "hard_bounce", "manual"}
  MaxRequests = 5
  MaxFaults = 1
CHECK_DEADLOCK FALSE
SYMMETRY Symmetry
INVARIANTS
  EffectsApplied
  ConfirmedHasProof
PROPERTIES
  HardBlockStays
  OptOutHolds
  NoReturnUnasked
