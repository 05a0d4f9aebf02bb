CONSTANTS
  N = 4
  Genesis = genesis
  c1 = c1
  ClientCmds = {c1}
  NoCmd = none
  MaxView = 3
  MaxTimeouts = 3
  Schedules <- StoppedLeader
SPECIFICATION CrashSpec
PROPERTY EnteredWithoutSlow
CHECK_DEADLOCK FALSE
