SPECIFICATION Spec
CONSTANTS
    MaxTurns = 7
    MaxRevisions = 0
    MaxRejected = 1
    MaxRedrafts = 1
    MaxReportRepairs = 1
    MaxFaults = 1
    MaxCrashes = 0
    MaxCalls = 1
    Pending = {}
    Denied = {"submit_experiment_matrix"}
INVARIANTS
    GatesAreDecidable
    ProtocolGateHolds
    CompleteIsEarned
CHECK_DEADLOCK FALSE
