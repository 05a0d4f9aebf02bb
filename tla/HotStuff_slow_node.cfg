CONSTANTS
    N = 4
    Genesis = genesis
    ClientCmds = {c1}
    NoCmd = nocmd
    MaxView = 6
    MaxTimeouts = 13
    Slow = 1
SPECIFICATION Spec
ACTION_CONSTRAINT Prompt
CHECK_DEADLOCK FALSE
INVARIANTS
    LockSafety
    DecidedOnOneChain
    TypeOK
    LockCoversVotes
PROPERTIES
    ImplementsAgreement
