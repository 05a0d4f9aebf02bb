CONSTANTS
  N = 4
  Leavers = {4}
  MaxJoins = 1
  MaxExits = 1
  MaxView = 0
  Schedules <- JoinAndLeave
SPECIFICATION Scheduled
INVARIANT RestartedAfterAgreement
CHECK_DEADLOCK FALSE
