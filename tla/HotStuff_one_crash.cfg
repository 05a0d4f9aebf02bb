CONSTANTS
    N = 4
    Genesis = genesis
    ClientCmds = {}
    NoCmd = nocmd
    MaxView = 2
    MaxTimeouts = 6
    Slow = 3
SPECIFICATION CrashSpec
CHECK_DEADLOCK FALSE
PROPERTY DecidedWithoutSlow
