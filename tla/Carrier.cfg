SPECIFICATION FairSpec
CONSTANTS
  Msg = {m1, m2}
  Row = {c1, c2}
  Variant = {v1}
  Bad = {2}
  NeedsFrom = 2
  MaxVersion = 3
  MaxSettings = 1
  MaxRestarts = 1
CHECK_DEADLOCK FALSE
INVARIANTS
  EntryIsFresh
  NeverOlder
PROPERTIES
  Departs
