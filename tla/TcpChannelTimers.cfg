\* Two tasks, receives under timers, a retry limit: every call returns.
CONSTANTS
    Tasks = {t1, t2}
    NoTask = NoTask
    NoStream = NoStream
    Ops = {"connect", "send", "receive_timeout", "disconnect"}
    Policy = "FixedInterval"
    MaxAttempts = 1
    AddrParses = TRUE
    MaxUnread = 1
SPECIFICATION FairSpec
INVARIANT TypeOK
PROPERTY CallsReturn
