CONSTANTS
    c0 = c0
    c1 = c1
    c2 = c2
    p = p
    q = q
    r = r
    alice = alice
    bob = bob
    NoTx = NoTx
    NoScript = NoScript
    Tx <- MCTx
    Script <- MCScript
    Blocks <- MCBlocks
    Outputs <- MCOutputs
    Inputs <- MCInputs
    OutStride = 1000
    SpendOffset = 500
    MaxBlocks = 3
    MaxUnlinked = 1
SPECIFICATION Spec
INVARIANTS UnspentExact
