CONSTANTS
    Callers = {loop}
    Timers = {t1, t2, t3, t4}
    MaxRounds = 3
SPECIFICATION Spec
SYMMETRY TimerSymmetry
CHECK_DEADLOCK FALSE
INVARIANT FlagTellsRunning
