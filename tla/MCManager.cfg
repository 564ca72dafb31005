CONSTANTS
    Ids = {i1, i2}
    Watched = {i1}
    NoSeat = NoSeat
    AutoLogin = TRUE
    Failures = {"observer", "session", "watch"}
    MaxNested = 1
    MaxDelayed = 1
SPECIFICATION ManagerFairSpec
INVARIANTS ManagerTypeOK SeatOutlivesLogin ExitClean
PROPERTIES StoppedWhenEmpty NoReloginInStop StopEnds
CHECK_DEADLOCK FALSE
