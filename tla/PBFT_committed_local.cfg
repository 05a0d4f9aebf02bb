CONSTANTS
  N = 5
  CheckpointNum = 2
  Genesis = genesis
  c1 = c1
  ClientCmds = {c1}
  NoCmd = none
  MaxView = 2
  MaxTimeouts = 0
  Schedules <- ReorderingReplica
SPECIFICATION Scheduled
PROPERTY CommittedLocal
CHECK_DEADLOCK FALSE
