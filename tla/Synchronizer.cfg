SPECIFICATION FairSpec
CONSTANTS
    StartingHeight = 1
    BlockStep = 2
    MaxHeight = 4
    MaxForks = 1
    MaxRuns = 2
    MaxFaults = 1
    StorageReads = 2
    NoHeader = NoHeader
    ZeroHeader = ZeroHeader
    TxBlocks <- MCTxBlocks
INVARIANTS
    TypeOK
    OneBlockPerHeight
    OneBranch
    RowsMatchLabel
PROPERTIES
    LetGoWhenStored
    CatchesUp
CHECK_DEADLOCK FALSE
