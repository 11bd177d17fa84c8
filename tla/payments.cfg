SPECIFICATION Spec
CONSTANTS
    Deposits = {d1, d2}
    Withdrawals = {w1}
    Calls = {c1, c2}
    Txns = {x1}
    NoTxn = NoTxn
    Empty = Empty
    NoRequest = NoRequest
    Amount <- Ten
    Batch = 1
    Told = {d1, w1}
INVARIANTS
    TypeOK
    SucceededIsBooked
    OneIntentPerTxn
PROPERTIES
    KeepsPromise
SYMMETRY Slots
