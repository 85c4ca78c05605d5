SPECIFICATION Spec
CONSTANTS
    Keys = {k1}
    Handlers = {x1, x2, x3}
    MaxRuns = 2
    MaxFaults = 1
    MaxCrashes = 1
    None = None
SYMMETRY Symmetry
INVARIANT JobsAreRecorded
CHECK_DEADLOCK FALSE
