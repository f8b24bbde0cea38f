SPECIFICATION FairSpec
CONSTANTS
    PathCount = 1
    Requests = {r1, r2}
    Gets = {r1}
    Interval = 1
    MaxSize = 1
    MaxTime = 3
    MaxEdits = 2
    MaxFaults = 1
INVARIANTS
    TypeOK
    NeverStuck
    BodyAsPromised
PROPERTIES
    Follows
