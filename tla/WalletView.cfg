CONSTANTS
    p = p
    q = q
    s = s
    alice = alice
    bob = bob
    Tx <- MCTx
    Script <- MCScript
    Outputs <- MCOutputs
    Rate <- MCRate
    TxSize <- MCSize
    BucketWidth = 2
    MaxBuckets = 1
    Minable <- MCMinable
    None = None
SPECIFICATION WalletFairSpec
INVARIANTS WalletTypeOK BalanceIsTracked HistogramDescribesPool ChangesReported PoolIsShown TwiceUntilPoll
PROPERTIES ViewConverges
