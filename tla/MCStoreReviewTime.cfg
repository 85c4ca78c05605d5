CONSTANTS
    Runs = {r1, r2}
    Threads = {t1}
    Investigations = {i1}
    NoInvestigation = NoInvestigation
    Keys = {k1}
    None = None
    OneActive = TRUE
    StalePausedSweep = TRUE
    MaxVersion = 4
SPECIFICATION Spec
INVARIANT ReviewTimeIsCharged
CHECK_DEADLOCK FALSE
