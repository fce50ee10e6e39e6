CONSTANTS
    SyncTypes = {"todo", "address"}
    AllocMayFail = FALSE
    OddOn <- Conforming
    UserMayLock = FALSE
    MaxSessions = 2
    MaxDrops = 1
SPECIFICATION Spec
CHECK_DEADLOCK FALSE
INVARIANTS SlowSyncPrepared FormatOfItem
PROPERTIES ImplementsService
