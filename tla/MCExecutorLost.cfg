CONSTANTS
    pack = pack
    solo = solo
    side = side
    bare = bare
    h1 = h1
    h2 = h2
    p1 = p1
    p2 = p2
    Reviews = {pack}
    NoReview = NoReview
    Hashes = {h1, h2}
    NoHash = NoHash
    Paths = {p1, p2}
    Threads = {t1, t2}
    MaxJobs = 1
    MaxFaults = 1
    Hash <- MCHash
    Targets <- MCTargets
    Layout = {pack}
    Known = {pack}
    Linkless = {}
    Extras = {pack}
SPECIFICATION Spec
INVARIANTS
    NoJobIsLost
CHECK_DEADLOCK FALSE
