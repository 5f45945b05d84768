SPECIFICATION MCSpec
CHECK_DEADLOCK FALSE
CONSTANTS
    Handles = {"h1", "h2"}
    StaleAfter = 2
    ConnectTicks = 1
    MaxShmCalls = 1
    MaxOpens = 3
    MaxOpenRetries = 2
    MaxShmFaults = 1
    Callers = {"t1", "t2", "t3"}
    Conns = {"c1", "c2"}
    ConnOf <- MCConnOf
    PoolWorkers = {"w1", "w2"}
    QueueDepth = 1
    MaxRequests = 2
    MaxPanics = 1
    MaxDrops = 1
    Kinds <- MCKinds
    BodyRuns = 2
    MaxSent = 3
    MaxChunk = 5
 
 
 
INVARIANT AnswersInOrder
PROPERTY DeadReleased
 
PROPERTY RequestsAnswered
