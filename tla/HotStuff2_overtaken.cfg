CONSTANTS
  N = 4
  Genesis = genesis
  c1 = c1
  ClientCmds = {c1}
  NoCmd = none
  MaxView = 2
  MaxTimeouts = 0
  Schedules <- ReorderingReplica
SPECIFICATION Scheduled
INVARIANT DataConsistence
CHECK_DEADLOCK FALSE
