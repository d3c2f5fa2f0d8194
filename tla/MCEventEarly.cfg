SPECIFICATION Spec
CONSTANTS
    t1 = t1
    t2 = t2
    NoThread = NoThread
    Thread <- Threads
    MilliSecs <- WaitTimes
    Second = 2
    LastCall = 2
    MaxTime = 4
PROPERTIES TimeoutMeansDue
CHECK_DEADLOCK FALSE
