CONSTANTS
    SyncTypes = {"calendar"}
    AllocMayFail = FALSE
    OddOn <- Conforming
    UserMayLock = TRUE
    MaxSessions = 2
    MaxDrops = 1
SPECIFICATION FairSpec
CHECK_DEADLOCK FALSE
INVARIANTS NoMutualWait
PROPERTIES CallReturns ZaurusReleased ImplementsService
