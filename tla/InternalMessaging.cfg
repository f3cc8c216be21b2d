\* Two callers, two request ids, one source module.
CONSTANTS
    Callers = {t1, t2}
    Main = Main
    NoOne = NoOne
    Ids = {i1, i2}
    NoId = NoId
    Sources = {m1}
    MaxInbox = 1
SPECIFICATION FairSpec
INVARIANTS TypeOK OwnResponse
PROPERTIES OnlyShutdownEnds CallsProgress
CHECK_DEADLOCK FALSE
