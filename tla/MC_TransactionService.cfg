\* One wallet: polls, requests, recreations, a restart of the browser.
SPECIFICATION FairSpec
CONSTANTS
    Addresses = {a1}
    NoAddress = NoAddress
    Requests = {r1}
    NoRequest = NoRequest
    Calls = {c1, c2}
    NoCall = NoCall
    Threshold = 1
    MaxTip = 2
    MaxTokens = 2
    MaxReseeds = 0
    MaxRestarts = 1
CHECK_DEADLOCK FALSE
INVARIANTS
    TypeOK
    OneCallInFlight
    NothingIsLost
PROPERTIES
    PollingDoesNotMultiply
    WaitingEnds
