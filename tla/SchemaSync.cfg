SPECIFICATION Spec
CONSTANTS
    Tasks = {t1, t2}
    Databases = {"sqlite", "mysql", "postgres"}
    Lists <- MCLists
    Migrations <- MCMigrations
    MaxCalls = 3
    MaxFaults = 1
    NoOne = NoOne
INVARIANT TypeOK
PROPERTIES
    SyncOkMeansComplete
    SyncErrorsHaveCause
CHECK_DEADLOCK FALSE
