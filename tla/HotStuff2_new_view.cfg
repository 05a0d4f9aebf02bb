CONSTANTS
  N = 4
  Genesis = genesis
  c1 = c1
  c2 = c2
  ClientCmds = {c1, c2}
  NoCmd = none
  MaxView = 2
  MaxTimeouts = 3
  Schedules <- LaggingLeader
SPECIFICATION Scheduled
INVARIANT ProposalOfNewViewVoted
CHECK_DEADLOCK FALSE
