CONSTANTS
    Callers = {c1, c2}
    Owner = owner
    Capacity = 1
    MaxCalls = 1
SPECIFICATION FairQueueSpec
INVARIANTS
    PendingExact
    RefusedNotServed
PROPERTIES
    WorkerStops
CHECK_DEADLOCK FALSE
