\* Two transactions, three confirmations make a block final; two launch requests, processes that
\* end, hang or start on their own.
SPECIFICATION MCFairSpec
CONSTANTS
    Txs = {1, 2}
    Zero = {2}
    ENOUGH_CONFIRMATION_COUNT = 3
    MaxTip = 4
    MaxSpoiled = 1
    WALLET_FILE_TRIES_CNT = 0
    DELETE_TOKEN_TRIES_CNT = 0
    WAIT_PROCESS_TRIES_CNT = 0
    TOKEN_FILE_READ_TRIES_CNT = 0
    MaxRequests = 2
    MaxProcesses = 3
CHECK_DEADLOCK FALSE
INVARIANTS
    TypesOK
    MergedIsExact
    SettledRows
    LaunchIsSound
PROPERTIES
    LaunchEnds
