CONSTANTS
    Keys = {"k1", "k2", "k3"}
    NoKey = "none"
    Files = {"MCA", "ZTR"}
    ActionMapped = {"MCA"}
    Archives <- TwoFiles
    FlushLimit = 2
    MaxFaults = 2
    MaxOther = 1
    MaxUnsure = 0
SPECIFICATION Spec
INVARIANTS
    IdsUnused
    RecordedWhole
    SchedulesInForce
PROPERTIES
    StepsOverNothing
    CaughtUp
