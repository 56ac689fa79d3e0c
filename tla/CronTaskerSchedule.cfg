CONSTANTS
  N = 2
  DayLen = 4
  Zone = 2
  Times = {0, 3}
  Intervals = {0, 2}
  EditTimes = {0}
  EditIntervals = {0}
  RetryPeriod = 1
  QueueCap = 1
  Editable = {2}
  MaxUpsets = 1
  MaxTime = 22
SPECIFICATION Spec
INVARIANTS
  TypeOK
  NeverOverdue
  SavedWhenIdle
PROPERTIES
  RunsOnTime
  RunsEveryInterval
CHECK_DEADLOCK FALSE
