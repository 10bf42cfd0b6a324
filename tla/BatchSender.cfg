SPECIFICATION FairSpec
CONSTANTS
    r1 = r1
    r2 = r2
    Requests = {r1, r2}
    Workers = {w1, w2}
    Updates <- MCUpdates
    ChanSize = 1
    MaxForeign = 2
    Foreign = Foreign
    None = None
INVARIANTS
    TypeOK
    NoWorkerAfterStop
    RequestConserved
    NoNonceGap
    SuccessIsPublished
PROPERTIES
    StopReturns
    RequestAnswered
CHECK_DEADLOCK FALSE
