SPECIFICATION Spec
CONSTANTS
  Msgs = {"s1","s2"}
  Slots = {1}
  Direct = {}
  Garbled = {}
  EventCap = 2
  PushCap = 2
  ConcatCap = 1
  PartCap = 2
  Timeout = 1
  ListCap = 1
  RetryEnabled = TRUE
  WebSends = FALSE
  MaxRestarts = 0
  NoMsg = NoMsg
  BlackList = {"mallory", "admin"}
  Admin = "admin"
  Header <- MCHeader
INVARIANTS
  DeletedWasPushed
