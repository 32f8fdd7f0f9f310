SPECIFICATION FairSpec
CONSTANTS
  Ports = {1, 2}
  Threads = {1, 2, 3}
  Commanders = {c1}
  Commands = 2
  Settings <- MCSettings
INVARIANT ServersSound
PROPERTY StopsForGood
PROPERTY Progress
CHECK_DEADLOCK FALSE
