\* Logins and logouts, a failed guid request, two launches, two restarts; three acts on the new tab
\* page.
SPECIFICATION MCFairSpec
CONSTANTS
    Tokens = {t1}
    NoToken = NoToken
    MaxCookieChanges = 2
    MaxGuidErrors = 1
    MaxForks = 1
    MaxLaunches = 1
    MaxRestarts = 2
    Colors = {light, dark}
    DarkColors = {dark}
    NoColor = NoColor
    Images = {i1, i2}
    NoImage = NoImage
    Commands = {known, unknown}
    Known = {known}
    Unknown = kUnknownCommand
    MaxActs = 3
CHECK_DEADLOCK FALSE
INVARIANTS
    TypesOK
    ReadyIsAll
    AuthFollowsCookie
    GuidIsKept
    FramesFollow
    BackgroundIsRight
PROPERTIES
    LoginIsHeard
    TabSettles
