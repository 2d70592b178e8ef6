CONSTANTS
    p1 = p1
    p2 = p2
    p3 = p3
    ann = ann
    bob = bob
    n1 = n1
    n2 = n2
    n3 = n3
    u = u
    Posts = {p1, p2}
    Owner <- TwoOwners
    Url <- OwnUrls
    Uploads = {p2}
    Imported = {}
    Names = {n1, n2}
    NameOf <- OwnNames
    Kind <- EveryKind
    Similar <- OnlySelf
    Flat = {p1}
    Concurrency = 2
    DownloadConcurrency = 2
    MaxCrashes = 1
    FaultSets <- TwoFaultSets
SPECIFICATION FairSpec
CHECK_DEADLOCK FALSE
INVARIANT OwnFile
PROPERTIES ImplementsGallery DirtyEnds
