CONSTANTS
    Stations <- MCStations
    Workers <- MCWorkers
    LastDay = 2
    GivenTmp = FALSE
    MaxFaults = 2
SPECIFICATION Spec
CHECK_DEADLOCK FALSE
INVARIANTS
    TypeOK
    NothingLost
    FilesLeftAlone
    OneAtATime
    FailsOnlyOnFault
PROPERTIES
    Ends
