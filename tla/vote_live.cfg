CONSTANTS
    e1 = e1
    e2 = e2
    u1 = u1
    u2 = u2
    Entities = {e1, e2}
    Users = {u1}
    NTypes = 2
    TypeOf <- OneType
    Gone = {e2}
    FaultSets <- NoFaults
SPECIFICATION FairSpec
INVARIANT SavedAtExit
PROPERTIES VotesReachDatabase ShutdownEnds
