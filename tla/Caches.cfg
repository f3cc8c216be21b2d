SPECIFICATION Spec
CONSTANTS
    Callers = {c1, c2}
    Uses <- MCUses
    Strings = {"memory", "redis"}
    Values = {1, 2}
    MaxCount = 2
    MaxOrders = 1
    MaxAttempts <- MCAttempts
    Fails <- MCFails
    Crashes <- MCCrashes
    NoEntry = NoEntry
    NoOne = NoOne
    Empty = Empty
    Mixed = Mixed
    Foreign = Foreign
SYMMETRY Symmetry
INVARIANTS
    TypeOK
    CountsKept
    EntryFollowsSource
PROPERTIES
    FreshReads
    LockLossHasCause
    Exclusive
CHECK_DEADLOCK FALSE
