SPECIFICATION Spec
CONSTANTS
    Keys = {k1}
    Handlers = {x1, x2}
    MaxRuns = 2
    MaxFaults = 2
    MaxCrashes = 1
    None = None
SYMMETRY Symmetry
INVARIANTS
    TypeOK
    JobHasRecord
    OneJobPerKey
    CancelledIsOff
    WorkingJobHasReceipt
    AnswersAgree
CHECK_DEADLOCK FALSE
