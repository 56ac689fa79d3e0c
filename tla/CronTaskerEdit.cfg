CONSTANTS
  N = 1
  DayLen = 5
  Zone = 2
  Times = {0, 2}
  Intervals = {1}
  EditTimes = {0, 2}
  EditIntervals = {1}
  RetryPeriod = 3
  QueueCap = 1
  Editable = {1}
  MaxUpsets = 0
  MaxTime = 26
SPECIFICATION Spec
PROPERTIES
  EditedRunsOnTime
CHECK_DEADLOCK FALSE
