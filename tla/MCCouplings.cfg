SPECIFICATION Spec
CONSTANTS
    Trains <- MCTrains
    Locations <- MCLocations
    Timetables <- MCTimetables
    Associations <- MCAssociations
    Changeovers <- MCChangeovers
    FirstId = 5
INVARIANTS
    RunsAsTimetabled
    LinksMeanWhatTheySay
    CopyClosesTheGap
    CoupledWhereBothRun
CHECK_DEADLOCK FALSE
