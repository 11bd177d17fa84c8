SPECIFICATION FairSpec
CHECK_DEADLOCK FALSE
CONSTANTS
    Jobs = {j1, j2}
    Workers = {}
    Dispatchers = {d1, d2}
    Nobody = Nobody
    MaxAttempts = 2
    SendAttempts = 2
    BatchSize = 1
    Created <- OneByOne
    MaxExcuses = 1
    Active <- DispatchMishaps
PROPERTIES
    EventsDispatched
