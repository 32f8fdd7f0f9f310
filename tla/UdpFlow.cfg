CONSTANTS
  Window = 4
  NumMod = 8
  ReclaimAfter = 3
  Envs <- AllEnvs
  None = None
  End = End
SPECIFICATION FairSpec
INVARIANT TypeOK
INVARIANT KeptUntilDelivered
INVARIANT OneCachedPerPosition
INVARIANT OncePerPacket
PROPERTY ImplementsChannel
PROPERTY LossesRecovered
CHECK_DEADLOCK FALSE
