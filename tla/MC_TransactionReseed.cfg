\* Two wallets: the wallet process comes back with another seed, and with the first one again,
\* while polls run.
SPECIFICATION Spec
CONSTANTS
    Addresses = {a1, a2}
    NoAddress = NoAddress
    Requests = {r1}
    NoRequest = NoRequest
    Calls = {c1, c2}
    NoCall = NoCall
    Threshold = 0
    MaxTip = 1
    MaxTokens = 1
    MaxReseeds = 2
    MaxRestarts = 0
SYMMETRY Symmetry
CHECK_DEADLOCK FALSE
PROPERTIES
    ForeignRowsOnlyByReseed
    PollingEndsOnlyKnowingly
