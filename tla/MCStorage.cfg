SPECIFICATION StorageSpec
CONSTANTS
    DefaultLimit = 1
    MaxLimit = 3
    RowId <- mcPlaces
    MaxBatch = 2
    MaxCalls = 4
    EventRows <- mcEventRows
    AlertRows <- mcAlertRows
    IncidentRows <- mcIncidentRows
    Statuses <- mcStatuses
    HostRows <- mcHostRows
    RuleRows <- mcRuleRows
    IOCRows <- mcIOCRows
    Cutoffs <- mcCutoffs
    Queries <- mcQueries
    RetainedRows <- mcRetainedRows
    Evidence <- mcEvidence
    Backends = {"sqlite", "postgres"}
    HostZone = 0
    Keep = 2
    ChunkSize = 1
    StatsCap = 1
    MaxClock = 5
    MaxFailures = 1
    MaxOffset = 4
INVARIANTS
    StorageTypeOK
    SameAnswers
    ArchivedUnlessMissed
PROPERTIES
    CyclesEnd
CHECK_DEADLOCK FALSE
