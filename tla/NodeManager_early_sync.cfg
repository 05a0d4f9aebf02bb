CONSTANTS
  N = 4
  Leavers = {}
  MaxJoins = 1
  MaxExits = 0
  MaxView = 0
  Schedules <- EarlySync
SPECIFICATION FairScheduled
PROPERTY MembershipSettles
CHECK_DEADLOCK FALSE
