SPECIFICATION FairSpec
CONSTANTS
  Events = {e1, e2}
  Runs = {r1, r2}
  PageSize = 1
  MaxChanges = 3
  MaxFaults = 1
INVARIANT NothingMissed
PROPERTY EventuallyImported
CHECK_DEADLOCK FALSE
