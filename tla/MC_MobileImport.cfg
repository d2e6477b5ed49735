SPECIFICATION Spec
CONSTANTS
    Addresses = {a1}
    TestAddresses = {}
    NoAddress = NoAddress
    TxCount = 2
    Calls = {c1}
    NoCall = NoCall
    MAX_TRANSACTIONS = 1
    CONFIRMATIONS = 2
    CHECK_EVERY = 1
    DiskFaults = FALSE
    MaxTop = 3
    MaxReorgs = 1
    MaxLoads = 1
    MaxChanges = 0
    MaxFaults = 1
    MaxRestarts = 1
    MaxQueue = 1
INVARIANT TypeOK
INVARIANT ImportIsSound
CHECK_DEADLOCK FALSE
