CONSTANTS
    N = 4
    Genesis = genesis
    ClientCmds = {c1, c2}
    NoCmd = nocmd
    MaxView = 3
    MaxTimeouts = 1
    Slow = 0
SPECIFICATION Spec
SYMMETRY Symmetry
CHECK_DEADLOCK FALSE
INVARIANT DataConsistence
