CONSTANTS
    r1 = r1
    r2 = r2
    p1 = p1
    p2 = p2
    Runs = {r1}
    Posts = {p1, p2}
    FirstFile <- OwnFirst
    Concurrency = 2
    MaxCrashes = 1
    Faults = {"redis", "pubsub", "item", "stall", "cancel"}
SPECIFICATION Spec
SYMMETRY PostSymmetry
CHECK_DEADLOCK FALSE
INVARIANTS TypeOK UpdatedTruthful
PROPERTY ImplementsStore
