SPECIFICATION FairSpec
CONSTANTS
    Last = 4
    HeightOf <- ForkHeights
    Second = 2
    Keys = {k1}
    MaxAsked = 2
    MaxFaults = 1
INVARIANTS
    TypeOK
    FreshUnlessCrossed
PROPERTIES
    TipRecovers
    HeightFollows
CHECK_DEADLOCK FALSE
