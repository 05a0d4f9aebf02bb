CONSTANTS
  N = 4
  Leavers = {3, 4}
  MaxJoins = 1
  MaxExits = 1
  MaxView = 5
  Schedules <- Everyday
SPECIFICATION FairScheduled
INVARIANTS TypeOK Inv MembersAgree NoneBlocked CalmSameView CalmSameHeight
PROPERTIES HighestQCTaken MembershipSettles CalmLeaderWaits
CHECK_DEADLOCK FALSE
