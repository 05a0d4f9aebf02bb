CONSTANTS
  N = 4
  Genesis = genesis
  ClientCmds = {c1, c2, c3, c4, c5}
  NoCmd = none
  MaxView = 6
  MaxTimeouts = 2
  Schedules <- Everyday
SPECIFICATION Scheduled
INVARIANTS TypeOK StoredCertified GenesisStored
PROPERTY ImplementsLedger
CHECK_DEADLOCK FALSE
