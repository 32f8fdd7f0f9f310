SPECIFICATION FairSpec
CONSTANTS
  Flows = {1, 2}
  MaxPkts = 1
  MaxTries = 1
  NSlots = 1
  Settings <- MCSettings
INVARIANT NothingLeaks
PROPERTY OwnStream
PROPERTY EndReachesAll
CHECK_DEADLOCK FALSE
