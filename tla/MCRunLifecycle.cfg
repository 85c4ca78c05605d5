SPECIFICATION Spec
CONSTANTS
    MaxTurns = 6
    MaxRevisions = 0
    MaxRejected = 1
    MaxRedrafts = 1
    MaxReportRepairs = 1
    MaxFaults = 1
    MaxCrashes = 1
    MaxCalls = 0
    Pending = {"propose_evaluation_contract", "submit_experiment_matrix", "other"}
    Denied = {"propose_evaluation_contract", "submit_experiment_matrix"}
INVARIANTS
    TypeOK
    JobsNeedBothApprovals
CHECK_DEADLOCK FALSE
