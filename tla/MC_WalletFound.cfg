\* A tab that may call sethdseed, two calls in flight, one fault.
SPECIFICATION FoundSpec
CONSTANTS
    Addresses = {a1, a2}
    NoAddress = NoAddress
    Calls = {c1, c2}
    Tabs = {t1}
    NoTab = NoTab
    Methods = {"sethdseed"}
    MaxFaults = 1
    MaxCookieChanges = 0
    MaxGuidErrors = 0
CHECK_DEADLOCK FALSE
PROPERTIES
    WalletIsFound
