CONSTANTS
  N = 4
  Genesis = genesis
  c1 = c1
  c2 = c2
  ClientCmds = {c1, c2}
  NoCmd = none
  MaxView = 3
  MaxTimeouts = 3
  Schedules <- Everyday
SPECIFICATION Scheduled
INVARIANTS TypeOK CertificatesBacked LockedNotCommitted DecidedNotPassedOver FirstViewEntered
PROPERTY ImplementsLedger
CHECK_DEADLOCK FALSE
