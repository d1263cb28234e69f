SPECIFICATION FairSpec
CONSTANTS
    TxIds <- ForkTxIds
    Addrs <- MCAddrs
    NoAddr <- MCNoAddr
    Plan <- ForkPlan
    Blocks <- ForkBlocks
    BlockTxs <- ForkBlockTxs
    HeightOf <- ForkHeightOf
    InitChain <- ForkInit
    Chains <- ForkChains
    Window = 5
    RawFetchable = {}
    NoDoc <- MCNoDoc
    SlowWrites = FALSE
    MaxReorgs = 2
    MaxCrashes = 0
    MaxFaults = 0
INVARIANTS
    SettledSumsMatchChain
    SettledHistoryMatchesChain
    OrphansAreTracked
    LockedMatchesLockDocs
PROPERTIES
    StaleBlocksDropped
    LedgerConverges
