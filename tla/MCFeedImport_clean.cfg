CONSTANTS
    Keys = {"k1", "k2", "k3"}
    NoKey = "none"
    Files = {"MCA"}
    ActionMapped = {"MCA"}
    Archives <- OneFile
    FlushLimit = 2
    MaxFaults = 0
    MaxOther = 1
    MaxUnsure = 3
SPECIFICATION Spec
INVARIANTS
    TypeOK
    SchedulesInForce
    CallsTheirOwn
