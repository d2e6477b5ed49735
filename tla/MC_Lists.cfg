SPECIFICATION MCSpec
CONSTANTS
    Passwords = {p1, p2}
    NoPassword = NoPassword
    Weak = {p2}
    MaxChanges = 1
    MaxActs = 3
    Sites = {s1}
    AccountStorageEnabled = TRUE
    Undefined = undefined
    Urls = {u1, u2}
    NoUrl = NoUrl
    MaxCustomTiles = 2
    MaxTopTiles = 1
    Widths = {1, 2}
    MaxTileChanges = 2
    MaxTileActs = 2
INVARIANTS
    TypesOK
    DialogsAreSound
    StatusIsCurrent
    CopiesStayTogether
    TilesAreSound
PROPERTIES
    DropMovesTheDragged
CHECK_DEADLOCK FALSE
