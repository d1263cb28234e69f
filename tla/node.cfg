SPECIFICATION FairSpec
CONSTANTS
    Services <- MCServices
    Bitcoind = "bitcoind"
    Configs <- MCConfigs
    RestartTime = 1
    RetryInterval = 1
    SpawnStopTime = 2
    ShutdownTimeout = 3
    Tries = 2
    MaxExits = 1
    MaxFaults = 1
INVARIANTS
    TypeOK
    OneOwnDaemon
    DependenciesStarted
    AnsweringDaemonToldToStop
PROPERTIES
    DependentsStopFirst
    StopEnds
    DaemonComesBack
CHECK_DEADLOCK FALSE
