CONSTANTS
    pack = pack
    solo = solo
    side = side
    bare = bare
    h1 = h1
    h2 = h2
    p1 = p1
    p2 = p2
    Reviews = {pack, bare}
    NoReview = NoReview
    Hashes = {h1, h2}
    NoHash = NoHash
    Paths = {p1, p2}
    Threads = {t1, t2}
    MaxJobs = 2
    MaxFaults = 1
    Hash <- MCHash
    Targets <- MCTargets
    Layout = {pack}
    Known = {pack}
    Linkless = {bare}
    Extras = {pack}
SPECIFICATION FairSpec
PROPERTIES
    JobsSettle
CHECK_DEADLOCK FALSE
