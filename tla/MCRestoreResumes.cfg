CONSTANTS
    Replicas = {"r1","r2"}
    Jobs = {"j1","j2"}
    MaxFaults = 1
    Offline = FALSE
    OfflineBreaks = FALSE
    LeaseLoss = FALSE
SPECIFICATION RestoreSpec
INVARIANTS ServesSoundDatabase
CHECK_DEADLOCK FALSE
