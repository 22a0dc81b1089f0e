CONSTANTS
    r1 = r1
    Reviews = {r1}
    MaxChecks = 1
    MaxKept = 1
    MaxVisible = 2
    MaxActs = 1
    MaxBreaks = 0
    Outcomes <- EndedOrAdded
SPECIFICATION Spec
PROPERTY RunningEnds
CHECK_DEADLOCK FALSE
