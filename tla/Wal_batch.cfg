SPECIFICATION Spec
CHECK_DEADLOCK FALSE
CONSTANTS
    MaxRecords = 3
    MaxBytes = 5
    FlushInterval = 2
    RecordSizes = {1, 3}
    S3MayFail = TRUE
    ListMayFail = FALSE
    MaxPublishes = 5
    MaxNow = 4
INVARIANT ReplayDecodes
INVARIANT ReplayInOrder
INVARIANT DueCovered
PROPERTY LostOnlyAlone
