CONSTANTS
  Window = 4
  NumMod = 16
  ReclaimAfter = 3
  Envs <- CrossingEnvs
  None = None
  End = End
SPECIFICATION Spec
INVARIANT DeliversPrefix
CHECK_DEADLOCK FALSE
