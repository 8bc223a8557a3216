SPECIFICATION Spec
CONSTANTS
    NULL = NULL
    MaxEvents = 5
    PipeSize = 3
INVARIANTS
    TypeOK
    QueueSafe
PROPERTIES
    ImplementsChannel
    EventsDelivered
    DeinitReturns
CHECK_DEADLOCK FALSE
