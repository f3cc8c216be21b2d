\* An application task and a heartbeat loop on one registered channel.
CONSTANTS
    Tasks = {app, hb}
    NoTask = NoTask
    Loops = {hb}
    MaxInFlight = 2
SPECIFICATION FairSpec
INVARIANTS TypeOK SoleCallerGetsItsAnswer
PROPERTY HeartbeatsGoOn
