SPECIFICATION Spec
CONSTANTS
  Fixed = {cell, gnss}
  Pings = {web, cron}
  None = None
  MaxHandlers = 4
  Needed = 2
  MaxCount = 3
INVARIANTS CountsOwnReplies
