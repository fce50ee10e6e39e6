CONSTANTS
    MaxFd = 6
    MaxInits = 2
    MaxAttempts = 3
    Backlog = 2
    Failures <- AnyFailure
    Unasked = TRUE
SPECIFICATION FairSpec
CHECK_DEADLOCK FALSE
INVARIANTS TypeOK LeftoversHaveCauses
PROPERTIES ClosesItsOwn ConnectReturns
