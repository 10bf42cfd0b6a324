SPECIFICATION Spec
CONSTANTS
    StartingHeight = 1
    BlockStep = 2
    MaxHeight = 4
    MaxForks = 1
    MaxRuns = 1
    MaxFaults = 1
    StorageReads = 2
    NoHeader = NoHeader
    ZeroHeader = ZeroHeader
    TxBlocks <- MCTxBlocks
PROPERTY
    BatchStored
CHECK_DEADLOCK FALSE
