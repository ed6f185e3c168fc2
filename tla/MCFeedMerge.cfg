SPECIFICATION Spec
CONSTANTS
    Inputs <- MCInputs
    Stops <- MCStops
    Loc <- MCLoc
    WeekLength = 2
    FilterBefore = 2
    RemovedTypes = {2}
    TransferDistance = 4
    None = None
INVARIANTS
    RefsResolve
    NotConflated
    ServedAsGiven
    WalksBetweenNeighbours
    AskedOfTheWhole
CHECK_DEADLOCK FALSE
