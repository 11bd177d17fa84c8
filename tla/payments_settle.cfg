SPECIFICATION FairSpec
CONSTANTS
    Deposits = {d1, d2}
    Withdrawals = {}
    Calls = {c1}
    Txns = {x1}
    NoTxn = NoTxn
    Empty = Empty
    NoRequest = NoRequest
    Amount <- Ten
    Batch = 1
    Told = {d1}
PROPERTIES
    PaidIsSettled
