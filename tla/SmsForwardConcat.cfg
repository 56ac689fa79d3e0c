SPECIFICATION Spec
CONSTANTS
  Msgs = {"l1","l2","x1"}
  Slots = {1, 2}
  Direct = {"l2"}
  Garbled = {}
  EventCap = 1
  PushCap = 1
  ConcatCap = 2
  PartCap = 2
  Timeout = 1
  ListCap = 1
  RetryEnabled = FALSE
  WebSends = TRUE
  MaxRestarts = 0
  NoMsg = NoMsg
  BlackList = {"mallory", "admin"}
  Admin = "admin"
  Header <- MCHeader
INVARIANTS
  OneSlotPerLongSms
