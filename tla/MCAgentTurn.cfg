SPECIFICATION Spec
CONSTANTS
    Agents = {honeydew, beaker}
    MaxTurns = 2
    MaxRetries = 1
    MaxResumes = 1
    MaxRotations = 2
    MinTurns = 1
    MaxFaults = 2
    MaxCrashes = 1
    MaxCalls = 1
SYMMETRY Symmetry
INVARIANTS
    TypeOK
    CallSpendsOneTurn
    NoPoisonedSession
    RunningTurnsAreOwned
PROPERTIES
    BudgetIsALedger
    RotationsAreSpaced
    CompletedTurnsAreKept
CHECK_DEADLOCK FALSE
