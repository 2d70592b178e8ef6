CONSTANTS
    e1 = e1
    e2 = e2
    u1 = u1
    u2 = u2
    Entities = {e1}
    Users = {u1, u2}
    NTypes = 1
    TypeOf <- OneType
    Gone = {}
    FaultSets <- ThreeFaultSets
SPECIFICATION Spec
SYMMETRY UserSymmetry
INVARIANTS TypeOK CleanAgrees ScoreIsSum RetractionsRemembered FlushRepairs CachedVotesSaved
PROPERTY ImplementsLedger
