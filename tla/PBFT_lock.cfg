CONSTANTS
  N = 4
  CheckpointNum = 10
  Genesis = genesis
  c1 = c1
  c2 = c2
  c3 = c3
  c4 = c4
  c5 = c5
  ClientCmds = {c1, c2, c3, c4, c5}
  NoCmd = none
  MaxView = 6
  MaxTimeouts = 0
  Schedules <- Requests
SPECIFICATION FairScheduled
PROPERTY RequestHandled
CHECK_DEADLOCK FALSE
