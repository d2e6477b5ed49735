\* A tab, two calls in flight, one fault, one login or logout; no property here tells addresses apart.
SPECIFICATION Spec
CONSTANTS
    Addresses = {a1}
    NoAddress = NoAddress
    Calls = {c1, c2}
    Tabs = {t1}
    NoTab = NoTab
    Methods = {"rpc", "sethdseed", "stop", "raw", "api"}
    MaxFaults = 1
    MaxCookieChanges = 1
    MaxGuidErrors = 0
CHECK_DEADLOCK FALSE
INVARIANTS
    TypeOK
    ButtonIsTruthful
    NothingIsLost
SYMMETRY Symmetry
