CONSTANTS
  t1 = t1
  t2 = t2
  None = None
  Tasks = {t1, t2}
  Senders = {t2}
  Size <- MCUnitSize
  Late = TRUE
  LineCap = 1
  PendingCap = 1
SPECIFICATION FairSpec
INVARIANTS
  BufferOwned
PROPERTIES CallsReturn
