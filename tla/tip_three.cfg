SPECIFICATION FairSpec
CONSTANTS
    Last = 3
    HeightOf <- ForkHeights
    Second = 2
    Keys = {}
    MaxAsked = 0
    MaxFaults = 0
PROPERTIES
    TipFollows
CHECK_DEADLOCK FALSE
