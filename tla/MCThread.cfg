SPECIFICATION FairSpec
CONSTANTS
    u1 = u1
    u2 = u2
    User <- Users
    Tid = {1, 2}
    MilliSecs = {0, 1, 2}
    MaxStarts = 3
INVARIANTS TypeOK
PROPERTIES JoinWaits JoinReturns 
CHECK_DEADLOCK FALSE
