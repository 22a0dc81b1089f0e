CONSTANTS
    Jobs = {j1}
    MaxRuns = 1
    MaxCrashes = 0
SPECIFICATION Spec
INVARIANTS
    CancelledWasStopped
CHECK_DEADLOCK FALSE
