SPECIFICATION FairSpec
CONSTANTS
    Workers = {w1, w2}
    Tasks = {t1, t2, t3}
    BufferSize = 1
PROPERTY
    StopReturns
CHECK_DEADLOCK FALSE
