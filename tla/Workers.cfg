SPECIFICATION MCSpec
CHECK_DEADLOCK FALSE
CONSTANTS
    WkBlocks = {1, 2, 3}
    Home <- MCHome
    WkNamespace = "n"
    WkIndexes <- MCIndexes
    WkMissing = {{}, {2}}
    WkEnvs <- MCEnvs
    TopK = 2
    SleepSlices = 1
    MaxNow = 2
    MaxPublishes = 1
    MaxWkFaults = 1
PROPERTY DropReturns
PROPERTY HotIsWarmed
