SPECIFICATION FairSpec
CONSTANTS
  Conns = {1, 2, 3}
  Workers = 1
  Requests = 3
  Lengths = {1, 2, 3, 4}
  Settings <- MCSettings
INVARIANT ChannelSound
PROPERTY FirstAnswered
CHECK_DEADLOCK FALSE
