\* A caller, the background task and a subscriber; one secret, rotated twice.
CONSTANTS
    Callers = {t1}
    Background = Background
    Subscriber = Subscriber
    Keys = {k1}
    Watched = {k1}
    IoFails = TRUE
    BroadcastCap = 1
    MaxVersion = 3
    MaxLines = 1
SPECIFICATION FairSpec
INVARIANTS TypeOK StaleHasCause
PROPERTIES OnRotateIsCurrent CallsReturn
CHECK_DEADLOCK FALSE
