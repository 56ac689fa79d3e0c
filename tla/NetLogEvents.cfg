CONSTANTS
  LoopCap = 2
  Statuses = {"none", "home", "roaming"}
  MaxUrcs = 2
  MaxDrops = 1
  LogCap = 1
  Targets <- MCTargets
  Stored <- MCStored
  NoServer = ""
  Sockets = {1, 2}
  NoSocket = 0
  MaxSaves = 1
SPECIFICATION FairSpec
INVARIANTS
  StatusShown
  LogFollowsWifi
  LinesReachConfigured
  NoSocketLeak
PROPERTIES
  Reconnects
CHECK_DEADLOCK FALSE
