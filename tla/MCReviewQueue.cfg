CONSTANTS
    Reviews = {r1, r2}
    NoReview = NoReview
    MaxJobs = 1
    Files = {f1, f2}
    Torrents = {x1}
    None = None
    Matchers = {m1, m2}
    Clicks = {c1, c2}
    Worker = Worker
    Run = Run
    Settings <- AnySettings
    MaxQueue = 2
    MaxCrashes = 1
SPECIFICATION Spec
CONSTRAINT Small
SYMMETRY Symmetry
INVARIANTS
    TypeOK
    OneActivePerFile
    TorrentQueuedOnce
    VerifiedBeforeExecuted
    ApprovedOnce
PROPERTIES
    RefusedStaysOut
    RejectionIsFinal
    OnlyWithConsent
CHECK_DEADLOCK FALSE
