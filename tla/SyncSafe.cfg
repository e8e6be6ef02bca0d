CONSTANTS
    g = g
    a1 = a1
    a2 = a2
    a3 = a3
    b1 = b1
    b2 = b2
    b3 = b3
    NoBlock = NoBlock
    Block <- MCBlock
    Parent <- MCParent
    MaxHeight = 3
    MayShrink = TRUE
    CacheSize = 2
    MaxReorgDepth = 3
    BatchSize = 2
    ReorgAt <- MCSafePoints
    Faults = {"rpc", "read", "index", "notify", "crash"}
SPECIFICATION Spec
INVARIANTS RollbackBounded TypeOK Contiguous ChainLinked CacheCoherent TipNeverAhead
PROPERTIES StackSpec
