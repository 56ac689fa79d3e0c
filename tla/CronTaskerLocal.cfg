CONSTANTS
  N = 1
  DayLen = 8
  Zone = 4
  Times = {0, 1, 2}
  Intervals = {1}
  EditTimes = {}
  EditIntervals = {}
  RetryPeriod = 3
  QueueCap = 1
  Editable = {}
  MaxUpsets = 1
  MaxTime = 40
SPECIFICATION Spec
PROPERTIES
  RunsInLocalTime
CHECK_DEADLOCK FALSE
