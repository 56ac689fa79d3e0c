CONSTANTS
  Sms <- MCCut
  BufCap = 256
  NumberCap = 19
  TextCap = 480
SPECIFICATION Spec
INVARIANTS
  CutPduRefused
CHECK_DEADLOCK FALSE
