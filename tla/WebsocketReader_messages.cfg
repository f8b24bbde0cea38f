SPECIFICATION FairSpec
CONSTANTS
    Scripts <- UpToFour
    Habits = {}
INVARIANTS
    TypeOK
    UnmaskedOnce
    DataKept
PROPERTIES
    StreamKept
    Delivered
\* a connection that was closed is at its end
CHECK_DEADLOCK FALSE
