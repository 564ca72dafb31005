CONSTANTS
    Paths <- dPaths
    Script <- dScript
    Watchers <- dWatchers
    Existing <- dExisting
    Calm = {TRUE, FALSE}
SPECIFICATION LauncherFairSpec
INVARIANTS LauncherTypeOK TablesAgree CalmWaitsForFiles CalmFinalOnce
PROPERTY CalmGetsThrough
CHECK_DEADLOCK FALSE
