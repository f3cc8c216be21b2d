SPECIFICATION Spec
CONSTANTS
    Tasks = {t1}
    Databases = {"sqlite"}
    Lists <- MCAgainLists
    Migrations = {}
    MaxCalls = 4
    MaxFaults = 1
    NoOne = NoOne
PROPERTY SyncIsRepeatable
CHECK_DEADLOCK FALSE
