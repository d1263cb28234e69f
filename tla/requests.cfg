SPECIFICATION FairApiSpec
CONSTANTS
    Clients <- MCClients
    Type <- MCType
    TotalRequests <- MCTotalRequests
    Interval <- MCInterval
    MaxVisits = 2
    Blocks = {"one", "two", "twin", "three"}
    Chains <- MCChains
    Parsed <- MCParsed
    Slots = {1, 2}
    Requested = {"one", "two", "three"}
    Confirmations = 2
    ReorgDepth = 1
INVARIANTS
    ApiTypeOK
    SlidingQuota
    ConfirmationsOfSomeTip
    CachedStays
PROPERTIES
    RefusedForAWhile
    PageAnswered
CHECK_DEADLOCK FALSE
