CONSTANTS
    ForkFails = TRUE
    Stuck = TRUE
    MaxLost = 2
SPECIFICATION SessionFairSpec
CHECK_DEADLOCK FALSE
INVARIANTS SessionTypeOK CleanExit TerminatedIsClean PamCoversChild
PROPERTIES SuccessorUntouched QuitEnds
