CONSTANTS
  N = 4
  Genesis = genesis
  ClientCmds = {c1, c2, c3, c4}
  NoCmd = none
  MaxView = 6
  MaxTimeouts = 1
  Schedules <- LaggingReplica
SPECIFICATION Scheduled
INVARIANT SameViewSameData
CHECK_DEADLOCK FALSE
