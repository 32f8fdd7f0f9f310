SPECIFICATION Spec
CONSTANTS
  NSlots = 1
  Capacity = 1
  MaxTries = 1
  MaxConns = 2
  MaxPkts = 0
  Settings <- MCNotLate
CHECK_DEADLOCK FALSE
INVARIANT ExitFlagTells
