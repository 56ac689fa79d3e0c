CONSTANTS
  MaxPushes = 1
  Pushes <- MCLonger
  QueueCap = 1
  Channels = 1
  Attempts = 2
  Settings0 <- MCJson
  Offered <- MCNoOffer
  MaxSaves = 0
SPECIFICATION Spec
INVARIANTS
  DeletedWasReceivedWhole
CHECK_DEADLOCK FALSE
