SPECIFICATION FairSpec
CONSTANTS
    RbufLen = 3
    StreamLen = 7
    Destinations <- AllDestinations
CHECK_DEADLOCK FALSE
INVARIANT NoStall
INVARIANT OwesWhatIsLeft
PROPERTY ImplementsByteStream
PROPERTY Delivery
