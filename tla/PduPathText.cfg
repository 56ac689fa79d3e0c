CONSTANTS
  Sms <- MCFull
  BufCap = 256
  NumberCap = 19
  TextCap = 480
SPECIFICATION Spec
INVARIANTS
  TextDecoded
CHECK_DEADLOCK FALSE
