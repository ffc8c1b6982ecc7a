SPECIFICATION StorageSpec
CONSTANTS
    U64 = 64
    Addr = {1, 2}
    ZERO_ADDR = 0
    NoMiner = NoMiner
    MAX_SUPPLY <- Cap
    INITIAL_REWARD <- Reward
    DECAY_NUM = 3
    DECAY_DEN = 4
    OverflowChecks = FALSE
    TxSpace <- StorageTxs
    Deposits <- StorageDeposits
    Miners = {1}
    GenesisHeights = {0}
    MaxHeight = 3
    Durable = TRUE
    Databases <- StorageDatabases
    Difficulties = {1, 8}
    DEFAULT_DIFFICULTY = 8
INVARIANTS
    PendingWithinBalance
    MinedBlocksSaved
    LinksBreakOnlyInOldChain
    TipStandsAfterRestart
    SupplyConserved
    CommittedOnce
