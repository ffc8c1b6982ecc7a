SPECIFICATION NodesSpec
CONSTANTS
    U64 = 64
    Addr = {1, 2}
    ZERO_ADDR = 0
    NoMiner = NoMiner
    MAX_SUPPLY <- Cap
    INITIAL_REWARD <- Reward
    DECAY_NUM = 3
    DECAY_DEN = 4
    OverflowChecks = FALSE
    TxSpace <- OnePay
    Offers = {}
    Deposits = {}
    MinersA = {1}
    MinersB = {2}
    GenesisHeights = {}
    HeightA = 3
    HeightB = 2
    MaxRestarts = 0
PROPERTY
    ForkResolved
