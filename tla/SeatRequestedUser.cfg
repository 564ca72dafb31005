CONSTANTS
    Remotes = {r1, r2}
    Users = {guest, u1}
    NoUser = NoUser
    NoRemote = NoRemote
    DefaultUser = guest
    MaxLost = 0
    MaxDelayed = 1
    AutoLogins = {TRUE}
    Failures = {}
    FatalErrors = TRUE
SPECIFICATION SeatSpec
PROPERTY RequestedUser
