SPECIFICATION Spec
CONSTANTS
    Outputs <- MCOutputs
    Txs = {"t0", "t1", "t2"}
    Maker <- MCMaker
    Spender <- MCSpender
    Confirmed = {"t0"}
    Queries = {1, 2}
    MaxBlocks = 3
INVARIANTS
    TypeOK
    OneMoment
    NothingMissed
CHECK_DEADLOCK FALSE
