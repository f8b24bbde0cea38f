SPECIFICATION FairSpec
CONSTANTS
    c1 = c1
    c2 = c2
    x1 = x1
    x2 = x2
    EndPoints = 2
    Clients = {c1, c2}
    Contexts = {x1, x2}
    MaxServers = 2
    Setups <- Both
INVARIANTS
    TypeOK
    SocketsOwned
    StopComplete
    OwnTimer
PROPERTIES
    CallReturns
    QueueMoves
    Drains
