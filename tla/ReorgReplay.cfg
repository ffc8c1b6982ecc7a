SPECIFICATION ImportSpec
CONSTANTS
    U64 = 64
    Addr = {1, 2}
    ZERO_ADDR = 0
    NoMiner = NoMiner
    MAX_SUPPLY <- Cap
    INITIAL_REWARD <- Reward
    DECAY_NUM = 3
    DECAY_DEN = 4
    OverflowChecks = FALSE
    TxSpace <- OnePay
    Offers <- ShortOffer
    Deposits <- ImportDeposits
    Miners = {1, 2}
    GenesisHeights = {}
    MaxHeight = 3
INVARIANT CommittedOnce
