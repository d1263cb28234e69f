SPECIFICATION Spec
CONSTANTS
    TxIds <- SpendTxIds
    Addrs <- MCAddrs
    NoAddr <- MCNoAddr
    Plan <- SpendPlan
    Blocks <- ForkBlocks
    BlockTxs <- SpendBlockTxs
    HeightOf <- ForkHeightOf
    InitChain <- ForkInit
    Chains <- ForkChains
    Window = 3
    RawFetchable <- SpendRaw
    NoDoc <- MCNoDoc
    SlowWrites = FALSE
    MaxReorgs = 1
    MaxCrashes = 1
    MaxFaults = 1
INVARIANTS
    TypeOK
    DriftBoundedByCrashes
PROPERTIES
    ImplementsBook
CHECK_DEADLOCK FALSE
