SPECIFICATION TalkSpec
CONSTANTS
    c1 = c1
    c2 = c2
    c3 = c3
    NoClient = NoClient
    NoFd = NoFd
    Client <- Clients2
    FD = {1, 2}
    Backlog = 1
    RcvBuf = 1
    PeekSize = 1
    PipeCap = 1
    BufSize = 1
    MaxEvents = 2
PROPERTIES EventsLookedAt
CHECK_DEADLOCK FALSE
