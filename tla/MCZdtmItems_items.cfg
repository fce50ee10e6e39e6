CONSTANTS
    Kinds = {"todo", "calendar", "address"}
    MaxParams = 2
    Unnamed <- Strangers
    EmptyParams = FALSE
    MaxItems = 2
SPECIFICATION Spec
CHECK_DEADLOCK FALSE
INVARIANTS TypeOK ItemComplete FailureNamesField
