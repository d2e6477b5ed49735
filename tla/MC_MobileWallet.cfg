SPECIFICATION Spec
CONSTANTS
    Addresses = {a1, a2, b1}
    TestAddresses = {b1}
    NoAddress = NoAddress
    TxCount = 1
    Calls = {c1}
    NoCall = NoCall
    MAX_TRANSACTIONS = 1
    CONFIRMATIONS = 1
    CHECK_EVERY = 1
    DiskFaults = TRUE
    MaxTop = 1
    MaxReorgs = 0
    MaxLoads = 1
    MaxChanges = 2
    MaxFaults = 1
    MaxRestarts = 0
    MaxQueue = 1
INVARIANT RowsAreOwn
INVARIANT TheRightWallet
CHECK_DEADLOCK FALSE
SYMMETRY WalletSymmetry
