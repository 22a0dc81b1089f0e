CONSTANTS
    Reviews = {r1}
    NoReview = NoReview
    MaxJobs = 1
    Files = {f1}
    Torrents = {x1}
    None = None
    Matchers = {m1}
    Clicks = {c1}
    Worker = Worker
    Run = Run
    Settings <- VerifiedAutomatic
    MaxQueue = 2
    MaxCrashes = 0
SPECIFICATION Spec
PROPERTIES
    RunKeepsToRejections
CHECK_DEADLOCK FALSE
