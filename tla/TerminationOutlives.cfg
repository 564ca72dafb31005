CONSTANTS
    ForkFails = FALSE
    Stuck = FALSE
    MaxLost = 0
    Timeout = 2
SPECIFICATION TerminationSpec
INVARIANT NobodyLeft
CHECK_DEADLOCK FALSE
