CONSTANTS
    Callers = {loop, req}
    Timers = {t1, t2, t3, t4}
    MaxRounds = 2
SPECIFICATION FairSpec
CHECK_DEADLOCK FALSE
INVARIANT TimerRuns
PROPERTY CallsReturn
