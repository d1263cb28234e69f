SPECIFICATION Spec
CONSTANTS
    Services <- MCServices
    Bitcoind = "bitcoind"
    Configs <- ScaffoldConfigs
    RestartTime = 1
    RetryInterval = 1
    SpawnStopTime = 2
    ShutdownTimeout = 3
    Tries = 2
    MaxExits = 1
    MaxFaults = 0
INVARIANTS
    NoDaemonLeftBehind
CHECK_DEADLOCK FALSE
