CONSTANTS
    SyncTypes = {"todo"}
    AllocMayFail = TRUE
    OddOn <- Conforming
    UserMayLock = FALSE
    MaxSessions = 1
    MaxDrops = 0
SPECIFICATION FairSpec
CHECK_DEADLOCK FALSE
PROPERTIES TerminateReturns
