CONSTANTS
  N = 4
  Leavers = {}
  MaxJoins = 2
  MaxExits = 0
  MaxView = 0
  Schedules <- TwoJoins
SPECIFICATION FairScheduled
PROPERTY MembershipSettles
CHECK_DEADLOCK FALSE
