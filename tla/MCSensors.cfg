\* Every kind of sensor in turn.  A polling one: two keys in one of two tables, a
\* channel of one place, two changes of the host and one listing that fails, as a
\* whole or in part.  A watching one: two paths, one or both of which exist at
\* first, a queue of three records and two changes.
SPECIFICATION Spec
CONSTANTS
    k1 = k1
    k2 = k2
    tcp = tcp
    udp = udp
    p1 = p1
    p2 = p2
    OutCap = 1
    PollKinds = {"linuxProcess", "windowsProcess", "macosProcess", "linuxNetwork",
                 "windowsNetwork", "linuxService", "windowsService"}
    Keys = {k1, k2}
    Tables <- MCTables
    TableOf <- MCTableOf
    MaxChanges = 2
    MaxFailures = 1
    MaxTold = 2
    WatchKinds = {"windowsFile", "linuxFile", "windowsRegistry"}
    Paths = {p1, p2}
    Initially <- MCInitially
    QueueCap = 3
    MaxOperations = 2
INVARIANTS
    ToldOnce
    ReportsReplay
PROPERTIES
    ArrivalsAreTold
    SettledStateIsTold
    SensorsEnd
CHECK_DEADLOCK FALSE
