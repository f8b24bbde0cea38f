SPECIFICATION FairSpec
CONSTANTS
    LengthBodies <- UpToFive
    ChunkedBodies <- SoundOrMalformed
    Rooms = {1, 3}
    Extra = 2
    MaxPosition = 8
INVARIANTS
    TypeOK
    SkipLands
    PositionIsHandedOut
PROPERTIES
    PromiseKept
    Returned
\* a body that was skipped is at its end
CHECK_DEADLOCK FALSE
