SPECIFICATION FairSpec
CONSTANTS
    MaxTurns = 6
    MaxRevisions = 0
    MaxRejected = 1
    MaxRedrafts = 2
    MaxReportRepairs = 1
    MaxFaults = 1
    MaxCrashes = 1
    MaxCalls = 0
    Pending = {}
    Denied = {}
PROPERTIES
    Settles
    CommittedApprovalActs
CHECK_DEADLOCK FALSE
