SPECIFICATION FairSpec
CONSTANTS
  Flows = {1, 2, 3}
  Lines = 3
  Queues = 2
  Idle = 1
  Ids = 3
  Settings <- MCSettings
INVARIANT SocketsKept
INVARIANT OwnSocket
PROPERTY IdleIsReleased
CHECK_DEADLOCK FALSE
