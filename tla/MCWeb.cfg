CONSTANTS
    r1 = r1
    f1 = f1
    Reviews = {r1}
    Outcomes <- Ends
    Targets <- Executions
    Keys = {"k1", "k2"}
    Disks = {"d1", "d2"}
    MediaFiles <- Media
    SeedFiles <- Seeds
    Copies <- Twins
    PageSize = 1
    Files = {f1}
    Kept = 1
    Limit = 1
    MaxChecks = 1
    MaxKept = 0
    MaxVisible = 2
    MaxNotices = 1
    MaxValue = 2
    MaxEdits = 2
    MaxTokens = 2
    MaxCalls = 2
    MaxRuns = 2
    MaxFocus = 1
    MaxWrites = 2
    MaxVisits = 1
    MaxRequests = 2
    MaxReady = 2
    MaxViews = 3
    MaxItems = 2
    MaxScans = 3
    MaxChanges = 2
    MaxBreaks = 1
SPECIFICATION FairSpec
INVARIANTS TypeOK ShownIsMine SecretSentOnce TogglesKept LibraryForgotten OwnWritesShown PublishedOnce ViewsAgree ChangesTell
PROPERTIES EndIsTold SettledIsTold ListFollows OwnWriteShown NoFlicker ScrollShowsAll StepsTold
CHECK_DEADLOCK FALSE
