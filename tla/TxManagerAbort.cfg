SPECIFICATION Spec
CONSTANTS
    Attempts = {a1, a2, a3}
    Hashes = {h1, h2}
    Foreign = Foreign
    Failed = Failed
    None = None
    SafeAbortNonceTooLowCount = 2
    NumConfirmations = 1
    MaxHeight = 2
    MaxReorgs = 0
SYMMETRY Symmetry
PROPERTY
    NoAbortAfterMining
CHECK_DEADLOCK FALSE
