CONSTANTS
    SyncTypes = {"todo"}
    AllocMayFail = TRUE
    OddOn <- AnyRequest
    UserMayLock = TRUE
    MaxSessions = 1
    MaxDrops = 1
SPECIFICATION Spec
CHECK_DEADLOCK FALSE
INVARIANTS TypeOK HalfDuplex DeviceNotSurprised SlowSyncPrepared AuthBeforeData
PROPERTIES SuccessIsHonest
