SPECIFICATION FairSpec
CONSTANTS
    Scripts <- AllPairs
    HeadLen = 2
    Patient = TRUE
    Faults = {}
    Handling = {"throw", "close", "upgrade", "flush"}
PROPERTIES
    Served
\* a connection really ends: closed, or idle with a client that has nothing to send
CHECK_DEADLOCK FALSE
