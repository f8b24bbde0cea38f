SPECIFICATION FairSpec
CONSTANTS
    Scripts <- PairsAndTriple
    HeadLen = 2
    Patient = FALSE
    Faults = {"fin", "reset", "timeout", "stop"}
    Handling = {"throw", "close", "upgrade", "late read", "flush", "fail"}
INVARIANTS
    TypeOK
    Aligned
    Accounted
    CloseKept
    UnsentBehindNext
PROPERTIES
    GoneThenClosed
    ConversationKept
CHECK_DEADLOCK FALSE
