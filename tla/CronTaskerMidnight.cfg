CONSTANTS
  N = 1
  DayLen = 5
  Zone = 2
  Times = {4}
  Intervals = {1}
  EditTimes = {}
  EditIntervals = {}
  RetryPeriod = 3
  QueueCap = 1
  Editable = {}
  MaxUpsets = 0
  MaxTime = 30
SPECIFICATION Spec
PROPERTIES
  RunsEveryIntervalExactly
CHECK_DEADLOCK FALSE
