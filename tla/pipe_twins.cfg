CONSTANTS
    p1 = p1
    p2 = p2
    p3 = p3
    ann = ann
    bob = bob
    n1 = n1
    n2 = n2
    n3 = n3
    u = u
    Posts = {p1, p2, p3}
    Owner <- TwoOwners
    Url <- OwnUrls
    Uploads = {p2}
    Imported = {p1, p3}
    Names = {n1, n2, n3}
    NameOf <- OwnNames
    Kind <- AllImages
    Similar <- AllSimilar
    Flat = {}
    Concurrency = 2
    DownloadConcurrency = 2
    MaxCrashes = 1
    FaultSets <- OnlyRedis
SPECIFICATION Spec
CHECK_DEADLOCK FALSE
INVARIANTS TypeOK TwinsOnlySideBySide
PROPERTY DroppedOnlyAsTwin
