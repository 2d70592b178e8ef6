CONSTANTS
    j1 = j1
    s1 = s1
    s2 = s2
    Jobs = {j1}
    Items = 2
    UserStreams = {s1}
    AdminStreams = {s2}
    Visible <- AllVisible
    Cap = 1
    MaxStreams = 1
SPECIFICATION FairSpec
CHECK_DEADLOCK FALSE
INVARIANTS TypeOK UserStreamCurrent StreamsNeverAhead
PROPERTIES ImplementsBoard JobsLeave UserSeesEnd
