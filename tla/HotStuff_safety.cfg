CONSTANTS
    N = 4
    Genesis = genesis
    ClientCmds = {c1}
    NoCmd = nocmd
    MaxView = 2
    MaxTimeouts = 2
    Slow = 0
SPECIFICATION Spec
CHECK_DEADLOCK FALSE
INVARIANTS
    OneNodePerView
PROPERTIES
    StoresCertifiedBlock
    LocksMonotonic
