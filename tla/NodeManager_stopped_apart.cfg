CONSTANTS
  N = 4
  Leavers = {}
  MaxJoins = 1
  MaxExits = 0
  MaxView = 1
  Schedules <- JoinInRound
SPECIFICATION Scheduled
INVARIANT SameView
CHECK_DEADLOCK FALSE
