CONSTANTS
    Caller = {"start", "mempool", "indexer", "client"}
    Broadcaster = {"client"}
    MaxRetries = 2
    Signal = {s1, s2}
SPECIFICATION Spec
CHECK_DEADLOCK FALSE
INVARIANTS LifeTypeOK ExitReleases SuccessIsTrue FailureIsTrueUnlessLost
PROPERTIES ExitCutsNoCommit SignalEnds
