CONSTANTS
  t1 = t1
  t2 = t2
  None = None
  Tasks = {t1, t2}
  Senders = {}
  Size <- MCSize
  Late = TRUE
  LineCap = 2
  PendingCap = 2
SPECIFICATION Spec
INVARIANTS
  BufferFits
