CONSTANTS
    NumJobs = 2
    MaxParallel = 1
    DeferralCap = 1
    MaxFaults = 1
    MaxCrashes = 1
SPECIFICATION FairSpec
INVARIANTS
    TypeOK
    CapacityRespected
    NeverFalselyFinished
    SavedRunsAreWatched
    AnalysisSeesWholeWave
PROPERTIES
    FinishedNeverRunsAgain
    WavesEnd
    CancelledIsSwept
CHECK_DEADLOCK FALSE
