CONSTANTS
  N = 4
  Leavers = {1}
  MaxJoins = 0
  MaxExits = 1
  MaxView = 2
  Schedules <- LeaderLeaves
SPECIFICATION Scheduled
INVARIANT NoneBlocked
CHECK_DEADLOCK FALSE
