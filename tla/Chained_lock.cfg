CONSTANTS
  N = 4
  Genesis = genesis
  ClientCmds = {c1, c2, c3, c4}
  NoCmd = none
  MaxView = 6
  MaxTimeouts = 7
  Schedules <- LaggingLeader
SPECIFICATION Scheduled
PROPERTY LockNeverFalls
CHECK_DEADLOCK FALSE
