CONSTANTS
    Jobs = {j1}
    MaxRuns = 1
    MaxCrashes = 0
SPECIFICATION Spec
INVARIANTS
    CaughtErrorsEndRuns
CHECK_DEADLOCK FALSE
