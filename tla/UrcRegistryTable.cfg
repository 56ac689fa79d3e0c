SPECIFICATION FairSpec
CONSTANTS
  Fixed = {cell, gnss}
  Pings = {web, cron}
  None = None
  MaxHandlers = 4
  Needed = 2
  MaxCount = 3
INVARIANTS NoDeadContext WaitersListen DispatchComplete
PROPERTIES PingReturns
