SPECIFICATION RetentionSpec
CONSTANTS
    DefaultLimit = 1
    MaxLimit = 1
    RowId <- mcRowId
    RetainedRows <- mcRetainedRows
    Evidence <- mcEvidence
    Backends = {"sqlite"}
    HostZone <- west
    Keep = 2
    ChunkSize = 1
    StatsCap = 1
    MaxClock = 5
    MaxFailures = 1
    MaxOffset = 4
INVARIANT
    ArchivedBeforePruned
CHECK_DEADLOCK FALSE
