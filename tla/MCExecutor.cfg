CONSTANTS
    pack = pack
    solo = solo
    side = side
    bare = bare
    h1 = h1
    h2 = h2
    p1 = p1
    p2 = p2
    Reviews = {pack, solo, side}
    NoReview = NoReview
    Hashes = {h1, h2}
    NoHash = NoHash
    Paths = {p1, p2}
    Threads = {t1, t2}
    MaxJobs = 2
    MaxFaults = 2
    Hash <- MCHash
    Targets <- MCTargets
    Layout = {pack, side}
    Known = {pack, side}
    Linkless = {}
    Extras = {pack}
SPECIFICATION Spec
SYMMETRY Symmetry
INVARIANTS
    TypeOK
    HashIsOwn
    RollbackComplete
    HandedJobsDisjoint
    SeedingWasRechecked
    OnlyFaultsLoseJobs
PROPERTIES
    ImplementsLedger
CHECK_DEADLOCK FALSE
