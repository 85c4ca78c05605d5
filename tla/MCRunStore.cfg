CONSTANTS
    Runs = {r1, r2}
    Threads = {t1, t2}
    Investigations = {i1}
    NoInvestigation = NoInvestigation
    Keys = {k1}
    None = None
    OneActive = TRUE
    StalePausedSweep = TRUE
    MaxVersion = 4
SPECIFICATION Spec
SYMMETRY Symmetry
INVARIANTS
    TypeOK
    OneActiveRun
    LogTellsState
    NoLostUpdate
    PausedIsResumable
    ClockStoppedWhileWaiting
PROPERTY TerminalForever
CHECK_DEADLOCK FALSE
