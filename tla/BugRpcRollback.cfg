CONSTANTS
    g = g
    a1 = a1
    a2 = a2
    a3 = a3
    b1 = b1
    b2 = b2
    b3 = b3
    NoBlock = NoBlock
    Block <- MCBlock
    Parent <- MCParent
    MaxHeight = 3
    MayShrink = FALSE
    CacheSize = 2
    MaxReorgDepth = 3
    BatchSize = 2
    ReorgAt <- MCQuiet
    Faults = {"rpc"}
SPECIFICATION Spec
PROPERTIES RollbackOnlyOrphans
