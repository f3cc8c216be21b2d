\* Two callers, a connection and another request id, a queue of one.
CONSTANTS
    Callers = {t1, t2}
    NoOne = NoOne
    Keys = {k1, k2}
    Conns = {k1}
    QueueCap = 1
    MaxUnderWay = 1
SPECIFICATION FairSpec
INVARIANTS TypeOK AnswerIsOwn
PROPERTY CallsEnd
CHECK_DEADLOCK FALSE
