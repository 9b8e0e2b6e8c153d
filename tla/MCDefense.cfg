\* Two alerts of one host at one instant, the playbooks of rules/playbooks,
\* both modes; agent and defender restart once each.
SPECIFICATION LiveDefense
CONSTANTS
    host1 = host1
    path1 = path1
    path2 = path2
    ransomware = ransomware
    credential = credential
    HostInfos <- MCHostInfos
    Empty = Empty
    UnknownHost = UnknownHost
    Kinds <- MCKinds
    Paths = {path1, path2}
    Window = 1
    Statuses = {"open", "false_positive"}
    MaxAlerts = 2
    MaxTime = 0
    MaxRestarts = 1
    Threshold = 80
    Playbooks <- MCPlaybooks
    MaxStops = 1
INVARIANTS
    DefenseTypeOK
    ActionsAreJustified
    PassiveIsHarmless
PROPERTIES
    ResponseIsComplete
    ResponseIsBegun
CHECK_DEADLOCK FALSE
