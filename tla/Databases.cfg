SPECIFICATION Spec
CONSTANTS
    Tasks = {t1, t2}
    Uses <- MCUses
    Params <- MCParams
    PoolSize = 1
    MaxTx = 2
    MaxOrders = 0
    MaxCalls <- MCMaxCalls
    NoOne = NoOne
    NoRow = NoRow
INVARIANTS
    TypeOK
    NothingUnasked
    ReadBack
PROPERTIES
    OkIsTrue
    ClosedMeansEnded
    CallsReturn
CHECK_DEADLOCK FALSE
