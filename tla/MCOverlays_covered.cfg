CONSTANTS
    Tuids = {"t1", "t2"}
    Timetables <- MCTimetables
SPECIFICATION Spec
CHECK_DEADLOCK FALSE
INVARIANTS
    LatestAlone
