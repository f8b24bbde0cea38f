SPECIFICATION FairSpec
CONSTANTS
    HeadLen = 2
    MaxSent = 2
INVARIANTS
    TypeOK
    Relayed
    NothingCut
PROPERTIES
    RelayKept
    Answered
    TunnelEnds
\* a tunnel or a request that is over is over
CHECK_DEADLOCK FALSE
