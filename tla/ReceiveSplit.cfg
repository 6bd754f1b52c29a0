SPECIFICATION Spec
CONSTANTS
    MaxData = 5
    MaxChunk = 3
    V4Len = 2
    V6Len = 3
    Addresses <- PlainAddresses
CHECK_DEADLOCK FALSE
INVARIANT SplitTolerated
