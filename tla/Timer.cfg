SPECIFICATION TimerSpec
CONSTANTS
    Timeout = 12
    Horizon = 30
CHECK_DEADLOCK FALSE
INVARIANT SilenceEnds
INVARIANT AeTimeoutIsSilence
