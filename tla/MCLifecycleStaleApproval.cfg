SPECIFICATION Spec
CONSTANTS
    MaxTurns = 8
    MaxRevisions = 0
    MaxRejected = 1
    MaxRedrafts = 1
    MaxReportRepairs = 1
    MaxFaults = 0
    MaxCrashes = 0
    MaxCalls = 0
    Pending = {}
    Denied = {}
PROPERTIES
    MatrixApprovalIsCurrent
CHECK_DEADLOCK FALSE
