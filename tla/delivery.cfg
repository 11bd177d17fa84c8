SPECIFICATION Spec
CHECK_DEADLOCK FALSE
CONSTANTS
    Jobs = {j1}
    Workers = {w1, w2}
    Dispatchers = {d1}
    Nobody = Nobody
    MaxAttempts = 2
    SendAttempts = 2
    BatchSize = 1
    Created <- OneByOne
    MaxExcuses = 1
    Active <- PromptDispatch
SYMMETRY Slots
INVARIANTS
    TypeOK
    RepostsExcused
    StatusTellsMoney
PROPERTIES
    KeepsPromise
