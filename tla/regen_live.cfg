CONSTANTS
    r1 = r1
    r2 = r2
    p1 = p1
    p2 = p2
    Runs = {r1, r2}
    Posts = {p1}
    FirstFile <- OwnFirst
    Concurrency = 2
    MaxCrashes = 1
    Faults = {"pubsub", "remove"}
SPECIFICATION FairSpec
CHECK_DEADLOCK FALSE
PROPERTIES RunsEnd ItemsAcknowledged
INVARIANT RowHasFile
