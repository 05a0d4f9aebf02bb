CONSTANTS
  N = 4
  Genesis = genesis
  ClientCmds = {c1, c2}
  NoCmd = none
  MaxView = 4
  MaxTimeouts = 2
  Schedules <- LaggingReplica
SPECIFICATION Scheduled
INVARIANT StalledLeaderTimesOut
CHECK_DEADLOCK FALSE
