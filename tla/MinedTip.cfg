SPECIFICATION Spec
CONSTANTS
    U64 = 32
    Addr = {1, 2, 3}
    ZERO_ADDR = 0
    NoMiner = NoMiner
    MAX_SUPPLY <- SupplyCap
    INITIAL_REWARD <- SupplyReward
    DECAY_NUM = 3
    DECAY_DEN = 4
    OverflowChecks = FALSE
    TxSpace <- SupplyTxs
    Deposits <- SupplyDeposits
    Miners = {2, 3}
    GenesisHeights = {0}
    MaxHeight = 3
INVARIANT MinedBlockValidates
