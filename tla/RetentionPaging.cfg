SPECIFICATION RetentionSpec
CONSTANTS
    DefaultLimit = 1
    MaxLimit = 1
    RowId <- mcRowId
    RetainedRows <- mcRetainedRows
    Evidence <- mcEvidence
    Backends = {"postgres"}
    HostZone = 0
    Keep = 2
    ChunkSize = 1
    StatsCap = 1
    MaxClock = 5
    MaxFailures = 1
    MaxOffset = 4
PROPERTY
    PagingEnds
CHECK_DEADLOCK FALSE
