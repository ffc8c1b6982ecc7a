SPECIFICATION NodesSpec
CONSTANTS
    U64 = 64
    Addr = {1, 2}
    ZERO_ADDR = 0
    NoMiner = NoMiner
    MAX_SUPPLY <- Cap
    INITIAL_REWARD <- Reward
    DECAY_NUM = 3
    DECAY_DEN = 4
    OverflowChecks = FALSE
    TxSpace <- NodeTxs
    Offers = {}
    Deposits = {}
    MinersA = {1}
    MinersB = {1}
    GenesisHeights = {}
    HeightA = 3
    HeightB = 2
    MaxRestarts = 1
INVARIANT
    LedgersAgree
PROPERTY
    CallsComplete
    ForkResolved
