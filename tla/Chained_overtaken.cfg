CONSTANTS
  N = 4
  Genesis = genesis
  ClientCmds = {c1}
  NoCmd = none
  MaxView = 2
  MaxTimeouts = 0
  Schedules <- ReorderingLeader
SPECIFICATION Scheduled
INVARIANT NextLeaderWaits
CHECK_DEADLOCK FALSE
