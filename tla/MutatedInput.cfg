SPECIFICATION Spec
CONSTANTS
    WordBytes = 3
    ChunkBytes = 2
    NoInput = NoInput
    NoContract = NoContract
    Protected = Protected
    Router = Router
    Attacks <- MCRoutedAttack
    TotalCandidates = 3
    BatchSize = 2
    Threshold = 80
    AddressBytes = 2
    Max32 = 1048575
    KnownAddresses <- MCKnownAddresses
    MinAddressBytes = 2
    SmallValue = 200
    LengthLimit = 100
    CounterMax = 200
    BalanceMin = 1000
    BalanceMax = 60000
    FirstSlots = 10
    Strategies = {"uint256_step_increment", "storage_counter_increment", "storage_balance_scaling"}
    InitialBatch = 10
    MinBatch = 10
    MaxBatch = 12
    Warmup = 2
    Transactions <- MCTransactions
    NoTo = NoTo
    Targets <- MCTargets
    Abi <- MCAbi
    RandomAddresses <- MCRandomAddresses
    SmartThreshold = 80
    MaxResets = 1
    Calls <- MCCalls
    RuleContracts <- MCRuleContracts
    ZeroContract = NoContract
    RuleStrategies = {"step_based", "nearby_values", "boundary_values"}
    MaxVariant = 11
    Guids = {g1, g2}
    TxHashes = {h1, h2}
    NoBlock = NoBlock
    Blocks = {NoBlock, 0, 1}
    Messages = {"", "reverted"}
    MaxClock = 2
    Operations = {o1, o2}
    MaxConcurrent = 1
INVARIANT
    MutatedInputRuns
