CONSTANTS
  N = 4
  Genesis = genesis
  ClientCmds = {c1, c2, c3}
  NoCmd = none
  MaxView = 4
  MaxTimeouts = 4
  Schedules <- PromptNodes
SPECIFICATION Scheduled
INVARIANT ProposalOfNewViewVoted
CHECK_DEADLOCK FALSE
