SPECIFICATION Spec
CHECK_DEADLOCK FALSE
CONSTANTS
    MaxRecords = 1
    MaxBytes = 5
    FlushInterval = 2
    RecordSizes = {1, 3}
    S3MayFail = TRUE
    ListMayFail = TRUE
    MaxPublishes = 5
    MaxNow = 4
INVARIANT FlushedKept
