SPECIFICATION FairSpec
CONSTANTS
    Number <- Numbers
    Decimal <- Decimals
    IntSpan = 65536
    BadFiles <- Unwritable
    MaxStarts = 2
    Scenarios <- AllScenarios
CHECK_DEADLOCK FALSE
INVARIANT PidFileSound
INVARIANT NamedWhenAlone
INVARIANT RefusedLeavesNoTrace
INVARIANT ServesSomething
INVARIANT Precedence
PROPERTY SignalStops
