CONSTANTS
  N = 4
  CheckpointNum = 4
  Genesis = genesis
  c1 = c1
  ClientCmds = {c1}
  NoCmd = none
  MaxView = 4
  MaxTimeouts = 3
  Schedules <- LaggingLeader
SPECIFICATION Scheduled
INVARIANT RedoneRequestsStored
CHECK_DEADLOCK FALSE
