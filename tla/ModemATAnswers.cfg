CONSTANTS
  t1 = t1
  t2 = t2
  None = None
  Tasks = {t1, t2}
  Senders = {}
  Size <- MCBigSize
  Late = FALSE
  LineCap = 3
  PendingCap = 2
SPECIFICATION Spec
INVARIANTS
  OwnAnswer
  AnswerComplete
