SPECIFICATION FairSpec
CONSTANTS
    Sockets = {"s1", "s2"}
    Watcher = "s1"
    Lists = {"rawtransaction"}
    Addresses = {"A"}
    OddAddresses = {"odd"}
    Txs = {"t1", "t2"}
    Blocks = {"b1"}
    Touches <- MCTouches
    Capacity = 1
    MaxSubscribed = 2
    MaxListeners = 2
    MaxPublished = 2
INVARIANTS
    TypeOK
    ListedAsAsked
    ToldOnce
    ClosedHearsNothing
PROPERTIES
    SubscriberTold
CHECK_DEADLOCK FALSE
