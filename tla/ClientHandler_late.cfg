SPECIFICATION FairSpec
CONSTANTS
    Scripts <- Expectant
    HeadLen = 2
    Patient = TRUE
    Faults = {}
    Handling = {"late read"}
PROPERTIES
    Served
\* a connection really ends: closed, or idle with a client that has nothing to send
CHECK_DEADLOCK FALSE
