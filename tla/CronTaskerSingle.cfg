CONSTANTS
  N = 1
  DayLen = 5
  Zone = 2
  Times = {0, 2}
  Intervals = {0, 1}
  EditTimes = {}
  EditIntervals = {}
  RetryPeriod = 3
  QueueCap = 1
  Editable = {}
  MaxUpsets = 1
  MaxTime = 26
SPECIFICATION Spec
PROPERTIES
  SingleRunsOnce
CHECK_DEADLOCK FALSE
