SPECIFICATION FairSpec
CONSTANTS
    c1 = c1
    c2 = c2
    c3 = c3
    None = None
    Client <- Clients
    Byte <- Bytes
    MAX_LINE = 2
    FD_SETSIZE = 2
    MaxFd = 3
    Limits = {1, 3}
    MaxSent = 3
INVARIANTS TypeOK ReplyIndependentOfChunks InputBelowWatermark ReplyIsNotAmplified
PROPERTIES NothingStaysPending
CHECK_DEADLOCK FALSE
