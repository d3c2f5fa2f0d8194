SPECIFICATION FairBaseSpec
CONSTANTS
    c1 = c1
    c2 = c2
    NoClient = NoClient
    NoFd = NoFd
    Client <- Clients
    FD = {1, 2}
    Backlog = 0
    RcvBuf = 2
    PeekSize = 1
    PipeCap = 1
    BufSize = 1
    MaxEvents = 2
    MsgLen = 2
    MaxLoop = 2
INVARIANTS BaseTypeOK WholeMessage OnlyTheKilledHangUp
PROPERTIES ImplementsPipeline EveryTryCounts SendLoopEnds AcceptThreadIsFreed ClientsEndWithServer
CHECK_DEADLOCK FALSE
