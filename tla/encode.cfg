CONSTANTS
    c1 = c1
    c2 = c2
    Calls = {c1, c2}
    Works <- EveryRoute
SPECIFICATION FairSpec
CHECK_DEADLOCK FALSE
INVARIANTS FilesWhole NothingLeftRunning OutputRestored
PROPERTIES CallsEnd TasksEnd
