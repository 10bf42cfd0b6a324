SPECIFICATION FairSpec
CONSTANTS
    Attempts = {a1, a2}
    Hashes = {h1}
    Foreign = Foreign
    Failed = Failed
    None = None
    SafeAbortNonceTooLowCount = 1
    NumConfirmations = 1
    MaxHeight = 2
    MaxReorgs = 1
PROPERTIES
    CancelReturns
    ConfirmedTxReturns
CHECK_DEADLOCK FALSE
