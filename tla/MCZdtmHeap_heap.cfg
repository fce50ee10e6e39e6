CONSTANTS
    MaxCalls = 3
    OddReplies = TRUE
SPECIFICATION Spec
CHECK_DEADLOCK FALSE
INVARIANTS TypeOK NoDoubleFree NothingDangles LossesKnown
