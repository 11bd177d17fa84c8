SPECIFICATION FairSpec
CONSTANTS
    Targets = {t1}
    Calls = {c1, c2}
    NoCall = NoCall
    NoRequest = NoRequest
    Price <- Ten
    Commission <- AllCommission
    TotalBudget = 15
    Opening = 20
    TargetMoves <- FailingTargetMoves
    Toggles = {"payouts"}
    Active <- Everything
PROPERTIES
    EveryCallEnds
