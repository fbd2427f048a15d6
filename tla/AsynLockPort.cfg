SPECIFICATION FairSpec
CONSTANTS
    t1 = t1
    t2 = t2
    o1 = o1
    o2 = o2
    Threads = {t1, t2}
    Others = {o1, o2}
    PortThread = portThread
    Lower = lower
    Null = null
    Kinds <- MCKinds
    QueueLockKinds <- MCQueueLockKinds
    MaxDepth = 2
PROPERTIES HandsOver QueueLockReturns
CHECK_DEADLOCK FALSE
