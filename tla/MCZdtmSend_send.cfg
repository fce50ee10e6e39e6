CONSTANTS
    SyncTypes = {}
    Calls <- Opening
    BodySize <- Bodies
    COM_MSG_SIZE = 2
    MSG_HDR_SIZE = 3
    MSG_TYPE_SIZE = 1
    Room = 3
    Interrupted = TRUE
    CallFailures = {"prepare", "malloc"}
SPECIFICATION FairSpec
CHECK_DEADLOCK FALSE
INVARIANTS TypeOK WholeUnlessCut
PROPERTIES EveryCallReturns EveryMessageArrives
