CONSTANTS
  N = 4
  CheckpointNum = 4
  Genesis = genesis
  c1 = c1
  ClientCmds = {c1}
  NoCmd = none
  MaxView = 3
  MaxTimeouts = 3
  Schedules <- LaggingLeader
SPECIFICATION Scheduled
INVARIANT DataConsistence
CHECK_DEADLOCK FALSE
