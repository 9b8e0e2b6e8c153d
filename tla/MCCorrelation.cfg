\* Four events of two hosts, one of them without an ID, stamped up to one
\* unit behind the newest; the burst rule counts two events within two units.
SPECIFICATION Spec
CONSTANTS
    burst = burst
    broken = broken
    single = single
    name = name
    cmd = cmd
    svc = svc
    Rules <- MCRules
    Conditions <- MCConditions
    Threshold <- MCThreshold
    Timeframe <- MCTimeframe
    NoTimeframe = NoTimeframe
    BadTimeframe = BadTimeframe
    DefaultWindow = 1
    Hosts = {h1}
    NoHost = NoHost
    Fields = {name}
    Values = {cmd, svc}
    Empty = Empty
    Skew = 1
    Gap = 2
    MaxTime = 4
    MaxEvents = 4
INVARIANTS
    TypeOK
    AlertsAreEarned
    NothingCountsTwice
    NoBurstMissed
CHECK_DEADLOCK FALSE
