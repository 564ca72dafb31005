CONSTANTS
    Null = Null
    Unreadable = Unreadable
    Unparsable = Unparsable
    Places <- MCPlaces
    Contents <- MCContents
    EnvPlugin = Null
    Half = 4
    SeatIds <- MCSeatIds
    SeatId <- MCSeatId
    Named <- MCNamed
    Installed = {"default", "gumd"}
SPECIFICATION AccountsSpec
INVARIANTS AccountsTypeOK GuestStartsClean ReadsBack SeatsApart
PROPERTY NamedHomesKept
CHECK_DEADLOCK FALSE
