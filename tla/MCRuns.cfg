CONSTANTS
    Jobs = {j1}
    MaxRuns = 2
    MaxCrashes = 1
SPECIFICATION FairSpec
INVARIANTS
    TypeOK
    OnlyLastStepsHang
PROPERTIES
    ClosedIsFinal
    NothingAfterStop
    RunsEnd
    JobsAsked
CHECK_DEADLOCK FALSE
