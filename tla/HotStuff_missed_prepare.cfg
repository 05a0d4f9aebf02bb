CONSTANTS
    N = 5
    Genesis = genesis
    ClientCmds = {c1}
    NoCmd = nocmd
    MaxView = 2
    MaxTimeouts = 0
    Slow = 4
SPECIFICATION Spec
ACTION_CONSTRAINT Prompt
CHECK_DEADLOCK FALSE
PROPERTY StoresCertifiedBlock
