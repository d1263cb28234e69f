SPECIFICATION Spec
CONSTANTS
    Last = 2
    HeightOf <- ForkHeights
    Second = 2
    Keys = {k1}
    MaxAsked = 1
    MaxFaults = 0
INVARIANTS
    CachedBetweenBlocks
CHECK_DEADLOCK FALSE
