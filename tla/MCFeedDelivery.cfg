SPECIFICATION Spec
CONSTANTS
    Files = {stops, trips}
    Pids = {p1, p2}
    Targets <- MCTargets
    MaxRuns = 3
    MaxFaults = 2
    Missing = Missing
    Absent = Absent
    Partial = Partial
INVARIANTS
    TypeOK
    OneFeed
    ReturnedWhole
    
PROPERTY
    KeptUntilReplaced
CHECK_DEADLOCK FALSE
