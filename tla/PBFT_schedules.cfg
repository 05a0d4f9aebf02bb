CONSTANTS
  N = 4
  CheckpointNum = 2
  Genesis = genesis
  c1 = c1
  c2 = c2
  ClientCmds = {c1, c2}
  NoCmd = none
  MaxView = 4
  MaxTimeouts = 3
  Schedules <- Everyday
SPECIFICATION Scheduled
INVARIANTS TypeOK StoredCertified GenesisDecided VotesOnce
PROPERTY ImplementsLedger
CHECK_DEADLOCK FALSE
