CONSTANTS
  N = 4
  Leavers = {}
  MaxJoins = 2
  MaxExits = 0
  MaxView = 2
  Schedules <- JoinTwice
SPECIFICATION Scheduled
INVARIANT SameHeight
CHECK_DEADLOCK FALSE
