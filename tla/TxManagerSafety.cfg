SPECIFICATION Spec
CONSTANTS
    Attempts = {a1, a2, a3}
    Hashes = {h1, h2}
    Foreign = Foreign
    Failed = Failed
    None = None
    SafeAbortNonceTooLowCount = 2
    NumConfirmations = 2
    MaxHeight = 3
    MaxReorgs = 1
SYMMETRY Symmetry
INVARIANTS
    TypeOK
    ReturnedReceiptConfirmed
    NothingOutlivesSend
    MinedIsWatched
    AbortJustified
PROPERTY
    ImplementsContract
CHECK_DEADLOCK FALSE
