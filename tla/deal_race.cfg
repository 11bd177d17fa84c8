SPECIFICATION Spec
CONSTANTS
    Deals = {d1}
    Refs = {r1}
    Calls = {c1, c2}
    NoDeal = NoDeal
    NoRequest = NoRequest
    Amount = 10
    Commission <- TwoEach
    Opening = 10
    Asked <- Everything
SYMMETRY Slots
INVARIANTS
    TypeOK
    RowsRehydrate
    EscrowFollowsLedger
    PaidForProof
    ResolutionPaid
    BalanceIsLedger
