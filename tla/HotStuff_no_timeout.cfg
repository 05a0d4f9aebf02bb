CONSTANTS
    N = 4
    Genesis = genesis
    ClientCmds = {c1, c2}
    NoCmd = nocmd
    MaxView = 3
    MaxTimeouts = 0
    Slow = 0
SPECIFICATION FairSpec
CHECK_DEADLOCK FALSE
INVARIANTS DataConsistence Inv
PROPERTIES
    BlocksDurable
    RoundCompletes
    GenesisDecided
