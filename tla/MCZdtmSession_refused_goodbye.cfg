CONSTANTS
    SyncTypes = {"todo"}
    AllocMayFail = FALSE
    OddOn <- Goodbye
    UserMayLock = FALSE
    MaxSessions = 1
    MaxDrops = 0
SPECIFICATION Spec
CHECK_DEADLOCK FALSE
PROPERTIES GoodbyeIsGranted
