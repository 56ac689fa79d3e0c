SPECIFICATION FairSpec
CONSTANTS
  Msgs = {"l1","x1"}
  Slots = {1}
  Direct = {"x1"}
  Garbled = {}
  EventCap = 1
  PushCap = 1
  ConcatCap = 1
  PartCap = 2
  Timeout = 1
  ListCap = 1
  RetryEnabled = TRUE
  WebSends = FALSE
  MaxRestarts = 1
  NoMsg = NoMsg
  BlackList = {"mallory", "admin"}
  Admin = "admin"
  Header <- MCHeader
PROPERTIES
  PartsLeaveBuffer
  StoredIsForwarded
