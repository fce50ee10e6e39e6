CONSTANTS
    BigEndian = TRUE
    Contents <- Requests
    MSG_TYPE_SIZE = 3
    RMS_LOG_SIZE = 38
    RTS_DATE_LEN = 14
    SYNC_TYPE_TODO = 6
SPECIFICATION Spec
INVARIANTS TypeOK LengthIsWritten 
