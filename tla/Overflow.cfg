SPECIFICATION Spec
CONSTANTS
    U64 = 16
    Addr = {0, 1, 2}
    ZERO_ADDR = 0
    NoMiner = NoMiner
    MAX_SUPPLY <- EdgeCap
    INITIAL_REWARD <- EdgeReward
    DECAY_NUM = 3
    DECAY_DEN = 4
    OverflowChecks = FALSE
    TxSpace <- EdgeTxs
    Deposits <- EdgeDeposits
    Miners = {1, 2}
    GenesisHeights = {}
    MaxHeight = 3
INVARIANTS
    TypeOK
    PendingNonceCounts
    NonceLock
    EmissionWithinCap
