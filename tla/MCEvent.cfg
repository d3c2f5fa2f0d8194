SPECIFICATION FairSpec
CONSTANTS
    t1 = t1
    t2 = t2
    NoThread = NoThread
    Thread <- Threads
    MilliSecs <- WaitTimes
    Second = 2
    LastCall = 2
    MaxTime = 4
INVARIANTS TypeOK MutexBalanced NoStrandedSleeper
PROPERTIES ImplementsManualEvent EveryWaitReturns
CHECK_DEADLOCK FALSE
