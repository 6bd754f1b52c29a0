SPECIFICATION Spec
CONSTANTS
    Fds = {f1, f2}
CHECK_DEADLOCK FALSE
INVARIANT PollsTheAdded
INVARIANT NoFreedEvent
PROPERTY RunsTheReady
