CONSTANTS
    SyncTypes = {}
    Script <- Refusal
    BodySize <- Bodies
    COM_MSG_SIZE = 3
    MSG_HDR_SIZE = 5
    MSG_TYPE_SIZE = 1
    Endings = {"closed", "reset"}
    Failures = {"buffer", "content", "parse", "signal"}
    Slots = {"fresh", "null", "used"}
    GarbageSizes = {1, 20}
    MaxCalls = 4
SPECIFICATION FairSpec
CHECK_DEADLOCK FALSE
INVARIANTS TypeOK EachCallItsMessage ClosedInsideReported
PROPERTIES ImplementsLink EveryMessageTaken EndWakesCall
