CONSTANTS
  Sms <- MCSms
  BufCap = 256
  NumberCap = 19
  TextCap = 480
SPECIFICATION Spec
INVARIANTS
  OutputFits
  FieldsDecoded
  PlainTextDecoded
CHECK_DEADLOCK FALSE
