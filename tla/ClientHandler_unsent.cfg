SPECIFICATION Spec
CONSTANTS
    Scripts <- Triples
    HeadLen = 2
    Patient = FALSE
    Faults = {"timeout"}
    Handling = {}
INVARIANTS
    NothingUnsent
\* a connection really ends: closed, or idle with a client that has nothing to send
CHECK_DEADLOCK FALSE
