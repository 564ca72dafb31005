CONSTANTS
    Remotes = {r1, r2, r3}
    Users = {guest}
    NoUser = NoUser
    NoRemote = NoRemote
    DefaultUser = guest
    MaxLost = 0
    MaxDelayed = 0
    AutoLogins = {TRUE}
    Failures = {"spawn", "observer"}
    FatalErrors = TRUE
SPECIFICATION SeatSpec
SYMMETRY RemoteSymmetry
INVARIANTS SeatTypeOK OwnedOnce ObserverExported ThrottleHolds
