CONSTANTS
  LoopCap = 2
  Statuses = {"none", "home", "roaming"}
  MaxUrcs = 0
  MaxDrops = 0
  LogCap = 1
  Targets <- MCTargets
  Stored <- MCStored
  NoServer = ""
  Sockets = {1, 2}
  NoSocket = 0
  MaxSaves = 1
SPECIFICATION Spec
INVARIANTS
  LinesAlwaysReachConfigured
CHECK_DEADLOCK FALSE
