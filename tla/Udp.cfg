SPECIFICATION FairSpec
CONSTANTS
    Slots = {d1, d2}
    Clients = {c1, c2}
    Dests = {x1, x2}
    TunnelDest = x1
    TimeoutOn = TRUE
    MaxDrift = 2
CHECK_DEADLOCK FALSE
INVARIANT CountExactUntilFault
INVARIANT RequestSound
PROPERTY LatestAnswerLabelled
PROPERTY RequestEnds
