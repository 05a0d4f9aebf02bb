CONSTANTS
    N = 4
    Genesis = genesis
    ClientCmds = {}
    NoCmd = nocmd
    MaxView = 1
    MaxTimeouts = 4
    Slow = 0
SPECIFICATION Spec
ACTION_CONSTRAINT Prompt
CHECK_DEADLOCK FALSE
INVARIANT NewViewEntered
