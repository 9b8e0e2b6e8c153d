\* Everything Start runs: a blocking and a detached sensor for one place in
\* eventCh, a scan worker behind a queue of one, and batches of two, with
\* enough events to overflow batchCh during a write.
SPECIFICATION SafeSpec
CONSTANTS
    Sensors = {proc, file}
    Detached = {file}
    EventCap = 1
    BatchSize = 2
    RingSize = 2
    YaraCap = 1
    Workers = {w1}
    HasStore = TRUE
    MaxEvents = 7
INVARIANTS
    TypeOK
    InOrder
    Accounted
    QuietWhenStopped
PROPERTIES
    DeliveryPromise
