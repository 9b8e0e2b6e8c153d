\* Direct response only, as without a directory of playbooks.
SPECIFICATION SpecDefense
CONSTANTS
    host1 = host1
    path1 = path1
    path2 = path2
    ransomware = ransomware
    credential = credential
    HostInfos <- MCHostInfos
    Empty = Empty
    UnknownHost = UnknownHost
    Kinds <- MCKinds
    Paths = {path1, path2}
    Window = 1
    Statuses = {"open", "false_positive"}
    MaxAlerts = 2
    MaxTime = 0
    MaxRestarts = 1
    Threshold = 80
    Playbooks <- NoPlaybooks
    MaxStops = 1
PROPERTIES
    FailureIsNoticed
CHECK_DEADLOCK FALSE
