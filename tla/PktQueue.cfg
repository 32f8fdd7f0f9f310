CONSTANTS
  Capacity = 2
  MaxPkts = 4
  MaxTries = 1
  MayShutdown = TRUE
  End = End
  Unfilled = Unfilled
SPECIFICATION FairSpec
INVARIANTS TypeOK NoStaleBlock RingOwnership
PROPERTIES FifoHandOff EveryPacketSent ThreadsEnd
\* a reader whose wake-up was lost stops for good
CHECK_DEADLOCK FALSE
