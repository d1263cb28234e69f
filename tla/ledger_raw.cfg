SPECIFICATION Spec
CONSTANTS
    TxIds <- GrowTxIds
    Addrs <- MCAddrs
    NoAddr <- MCNoAddr
    Plan <- GrowPlan
    Blocks <- GrowBlocks
    BlockTxs <- GrowBlockTxs
    HeightOf <- GrowHeightOf
    InitChain <- GrowInit
    Chains <- GrowChains
    Window = 5
    RawFetchable <- GrowRaw
    NoDoc <- MCNoDoc
    SlowWrites = FALSE
    MaxReorgs = 0
    MaxCrashes = 0
    MaxFaults = 0
INVARIANTS
    AppearancesAreConfirmed
CHECK_DEADLOCK FALSE
