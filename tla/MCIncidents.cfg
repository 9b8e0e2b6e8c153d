\* Three alerts of two hosts over three instants with a window of one, one
\* restart, and an analyst who contains or reopens incidents.
SPECIFICATION Spec
CONSTANTS
    host1 = host1
    name1 = name1
    path1 = path1
    path2 = path2
    HostInfos <- MCHostInfos
    Empty = Empty
    UnknownHost = UnknownHost
    Kinds <- MCKinds
    Paths = {path1, path2}
    Window = 1
    Statuses = {"contained"}
    MaxAlerts = 3
    MaxTime = 2
    MaxRestarts = 1
INVARIANTS
    RowsCoverMembers
    GroupedByWindow
PROPERTIES
    RowsOnlyGrow
CHECK_DEADLOCK FALSE
