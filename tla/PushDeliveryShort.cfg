CONSTANTS
  MaxPushes = 2
  Pushes <- MCPushes
  QueueCap = 1
  Channels = 2
  Attempts = 2
  Settings0 <- MCSettings
  Offered <- MCOffered
  MaxSaves = 1
SPECIFICATION FairSpec
INVARIANTS
  DeletedWasReceived
  ServedInOrder
PROPERTIES
  NoCopyAfterAnswer
  NoChannelSkipped
  PushesEnd
  ImplementsForwarding
CHECK_DEADLOCK FALSE
