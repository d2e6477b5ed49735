SPECIFICATION FairSpec
CONSTANTS
    Addresses = {a1}
    TestAddresses = {}
    NoAddress = NoAddress
    TxCount = 2
    Calls = {c1}
    NoCall = NoCall
    MAX_TRANSACTIONS = 1
    CONFIRMATIONS = 1
    CHECK_EVERY = 2
    DiskFaults = FALSE
    MaxTop = 2
    MaxReorgs = 1
    MaxLoads = 1
    MaxChanges = 0
    MaxFaults = 1
    MaxRestarts = 1
    MaxQueue = 1
PROPERTY EventuallyRight
CHECK_DEADLOCK FALSE
