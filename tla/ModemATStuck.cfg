CONSTANTS
  t1 = t1
  t2 = t2
  None = None
  Tasks = {t1, t2}
  Senders = {t2}
  Size <- MCBigSize
  Late = FALSE
  LineCap = 2
  PendingCap = 1
SPECIFICATION FairSpec
PROPERTIES
  PromptEnds
