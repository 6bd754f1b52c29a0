SPECIFICATION Spec
CONSTANTS
    RbufLen = 3
    StreamLen = 6
    Destinations <- GrowingDestinations
CHECK_DEADLOCK FALSE
INVARIANT WriteDoneIsDone
