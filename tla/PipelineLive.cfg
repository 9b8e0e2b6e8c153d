\* Progress: two blocking sensors compete for one place in eventCh.
SPECIFICATION Spec
CONSTANTS
    Sensors = {proc, net}
    Detached = {}
    EventCap = 1
    BatchSize = 2
    RingSize = 2
    YaraCap = 1
    Workers = {w1}
    HasStore = TRUE
    MaxEvents = 3
PROPERTIES
    ShutdownCompletes
    EventsAreShown
    BatchesSettle
