CONSTANTS
  N = 4
  Leavers = {3}
  MaxJoins = 0
  MaxExits = 1
  MaxView = 0
  Schedules <- SharedMap
SPECIFICATION FairScheduled
PROPERTY MembershipSettles
CHECK_DEADLOCK FALSE
