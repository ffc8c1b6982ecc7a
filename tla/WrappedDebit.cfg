SPECIFICATION Spec
CONSTANTS
    U64 = 16
    Addr = {1, 2, 3}
    ZERO_ADDR = 0
    NoMiner = NoMiner
    MAX_SUPPLY <- EdgeCap
    INITIAL_REWARD <- EdgeReward
    DECAY_NUM = 3
    DECAY_DEN = 4
    OverflowChecks = FALSE
    TxSpace <- WrapTxs
    Deposits <- EdgeDeposits
    Miners = {3}
    GenesisHeights = {}
    MaxHeight = 3
INVARIANT SupplyConserved
