SPECIFICATION Spec
CONSTANTS
  Msgs = {"l1","l2","bad","spam","root"}
  Slots = {1, 2}
  Direct = {}
  Garbled = {"bad"}
  EventCap = 1
  PushCap = 1
  ConcatCap = 1
  PartCap = 2
  Timeout = 1
  ListCap = 1
  RetryEnabled = FALSE
  WebSends = FALSE
  MaxRestarts = 1
  NoMsg = NoMsg
  BlackList = {"mallory", "admin"}
  Admin = "admin"
  Header <- MCHeader
INVARIANTS
  TypeOK
  DeletedWasPushed
  IndexHeldOnce
  NeverPushedTwice
PROPERTIES
  ImplementsForwarding
