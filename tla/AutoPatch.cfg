SPECIFICATION Spec
CONSTANTS
    StartHeight = 1
    BlockSize = 2
    MaxHeader = 5
    None = None
INVARIANT
    CursorStands
CHECK_DEADLOCK FALSE
