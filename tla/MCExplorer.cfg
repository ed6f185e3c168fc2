SPECIFICATION Spec
CONSTANTS
    MaxOpens = 2
    MaxActs = 4
    Batch = 2
    FindingsIn <- MCFindingsIn
    Lacks <- MCLacks
    MaxFaults = 1
    None = None
    Blank = Blank
    LoadError = LoadError
INVARIANTS
    NoneLost
    ShowsWhatWasAskedFor
    EveryFindingShown
PROPERTIES
    EveryAskSettles
    LoadingEnds
CHECK_DEADLOCK FALSE
