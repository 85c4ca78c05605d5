CONSTANTS
    Runs = {r1, r2, r3}
    Threads = {t1}
    Investigations = {}
    NoInvestigation = NoInvestigation
    Keys = {k1, k2}
    None = None
    OneActive = FALSE
    StalePausedSweep = FALSE
    MaxVersion = 3
SPECIFICATION Spec
SYMMETRY Symmetry
INVARIANT SupersededChildIsOver
CHECK_DEADLOCK FALSE
