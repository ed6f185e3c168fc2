CONSTANTS
    Keys = {"k1", "k2", "k3"}
    NoKey = "none"
    Files = {"MCA", "ZTR"}
    ActionMapped = {"MCA"}
    Archives <- RevisedManualTrain
    FlushLimit = 2
    MaxFaults = 0
    MaxOther = 1
    MaxUnsure = 0
SPECIFICATION Spec
INVARIANTS
    SchedulesInForce
