CONSTANTS
    ForkFails = FALSE
    Stuck = FALSE
    MaxLost = 1
    Timeout = 2
SPECIFICATION TerminationFairSpec
INVARIANTS OrderlyLogout
PROPERTIES OrphanCleansUp LogoutEnds
CHECK_DEADLOCK FALSE
