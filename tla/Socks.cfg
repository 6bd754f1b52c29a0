SPECIFICATION FairSpec
CONSTANTS
    GreetLen = 2
    ReqLen = 2
    MaxData = 3
CHECK_DEADLOCK FALSE
INVARIANT OutIsData
INVARIANT RefusedForSplit
INVARIANT ProxiedStaysProxied
PROPERTY DataRelayed
