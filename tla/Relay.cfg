SPECIFICATION FairSpec
CONSTANTS
    Sessions = {s1, s2, s3}
    TimeoutOn = TRUE
CHECK_DEADLOCK FALSE
INVARIANT TypeOK
INVARIANT CountsExact
INVARIANT LinkSound
INVARIANT EventsOfLiveOnly
INVARIANT ReadsIntoEmptyBuffer
INVARIANT RelayNotStuck
INVARIANT OneTimer
 
PROPERTY SetupEnds
