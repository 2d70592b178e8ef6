CONSTANTS
    p1 = p1
    p2 = p2
    p3 = p3
    ann = ann
    bob = bob
    n1 = n1
    n2 = n2
    n3 = n3
    u = u
    Posts = {p1, p2}
    Owner <- TwoOwners
    Url <- SameUrl
    Uploads = {}
    Imported = {p2}
    Names = {n1}
    NameOf <- SameName
    Kind <- AllImages
    Similar <- AllSimilar
    Flat = {}
    Concurrency = 1
    DownloadConcurrency = 1
    MaxCrashes = 0
    FaultSets <- NoFaults
SPECIFICATION Spec
CHECK_DEADLOCK FALSE
INVARIANT OwnFile
