CONSTANTS
    SyncTypes = {"todo"}
    AllocMayFail = FALSE
    OddOn <- Conforming
    UserMayLock = TRUE
    MaxSessions = 2
    MaxDrops = 1
SPECIFICATION Spec
CHECK_DEADLOCK FALSE
INVARIANTS AuthBeforeData
