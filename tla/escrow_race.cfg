SPECIFICATION Spec
CONSTANTS
    Targets = {t1}
    Calls = {c1, c2}
    NoCall = NoCall
    NoRequest = NoRequest
    Price <- Ten
    Commission <- TwoEach
    TotalBudget = 15
    Opening = 20
    TargetMoves <- AllTargetMoves
    Toggles = {"payouts"}
    Active <- Everything
SYMMETRY Slots
INVARIANTS
    TypeOK
    PaidOutOnce
    EscrowMatchesLedger
    SettledWasReady
    WaitsEnd
PROPERTIES
    PayoutNeedsPost
