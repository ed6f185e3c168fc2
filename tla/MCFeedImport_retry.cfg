CONSTANTS
    Keys = {"k1", "k2", "k3"}
    NoKey = "none"
    Files = {"MCA"}
    ActionMapped = {"MCA"}
    Archives <- RetriedChanges
    FlushLimit = 2
    MaxFaults = 1
    MaxOther = 1
    MaxUnsure = 0
SPECIFICATION Spec
INVARIANTS
    CallsTheirOwn
