\* Three tasks, without timers: framing and outcomes of sends.
CONSTANTS
    Tasks = {t1, t2, t3}
    NoTask = NoTask
    NoStream = NoStream
    Ops = {"connect", "send", "receive", "disconnect"}
    Policy = "None"
    MaxAttempts = 1
    AddrParses = TRUE
    MaxUnread = 1
SPECIFICATION Spec
SYMMETRY Symmetry
INVARIANTS Framing SendOutcome
