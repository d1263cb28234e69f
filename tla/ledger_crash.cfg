SPECIFICATION Spec
CONSTANTS
    TxIds <- GrowTxIds
    Addrs <- MCAddrs
    NoAddr <- MCNoAddr
    Plan <- GrowPlan
    Blocks <- GrowBlocks
    BlockTxs <- GrowBlockTxs
    HeightOf <- GrowHeightOf
    InitChain <- GrowInit
    Chains <- GrowChains
    Window = 5
    RawFetchable = {}
    NoDoc <- MCNoDoc
    SlowWrites = FALSE
    MaxReorgs = 0
    MaxCrashes = 2
    MaxFaults = 1
INVARIANTS
    CursorCovered
    RedoPostsOnce
    RestsWithTipPosted
    SettledHistoryInBlockOrder
PROPERTIES
    CursorMonotone
CHECK_DEADLOCK FALSE
