SPECIFICATION BothSpec
CONSTANTS
    Slots = {c1, c2}
    Requests = 2
    BufSize = 3
    IoBuf = 2
    Overhead = 0
    MaxFaults = 2
    MaxIssued = 2
    MaxLeft = 0
CHECK_DEADLOCK FALSE
INVARIANT DurationsFit
INVARIANT LiveExact
INVARIANT EchoConserved
PROPERTY Stops
PROPERTY AllFinish
PROPERTY ServerDrains
