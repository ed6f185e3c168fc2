SPECIFICATION Spec
CONSTANTS
    LastStation = 3
    Of = 2
    Ends <- MCEnds
    Found <- MCFound
    Inputs <- MCInputs
    HighWater = 2
    MaxFaults = 1
INVARIANTS
    OnDiskBeforeDescribed
    WholeNetwork
PROPERTIES
    IsSortedUnion
    Settles
CHECK_DEADLOCK FALSE
