SPECIFICATION FairSpec
CONSTANTS
  NSlots = 1
  Capacity = 2
  MaxTries = 1
  MaxConns = 2
  MaxPkts = 2
  Settings <- MCSettings
CHECK_DEADLOCK FALSE
INVARIANT DescriptorsSound
INVARIANT RelayComplete
INVARIANT SlotGivenBack
PROPERTY ConnectionStays
PROPERTY EitherEndEndsAll
PROPERTY RunGoesOn
