CONSTANTS
    g = g
    h1 = h1
    a2 = a2
    a3 = a3
    b2 = b2
    b3 = b3
    b4 = b4
    NoBlock = NoBlock
    Block <- MCBlock
    Parent <- MCParent
    MaxHeight = 4
    MayShrink = FALSE
    CacheSize = 2
    MaxReorgDepth = 3
    BatchSize = 2
    ReorgAt <- MCQuiet
    Reader = {r1}
    MaxCount = 2
    Faults = {"read", "index", "rollback", "notify", "crash"}
SPECIFICATION ReadsSpec
INVARIANTS ReadsTypeOK StaleOnlyByRace RangeLinks CacheBounded ConfirmationsNearTip
PROPERTIES RollbackOnlyOrphans
