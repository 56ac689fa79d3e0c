CONSTANTS
  MaxPushes = 1
  Pushes <- MCPushes
  QueueCap = 1
  Channels = 1
  Attempts = 2
  Settings0 <- MCJson
  Offered <- MCTorn
  MaxSaves = 1
SPECIFICATION Spec
INVARIANTS
  RequestsMatchSettings
CHECK_DEADLOCK FALSE
