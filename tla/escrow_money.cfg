SPECIFICATION Spec
CONSTANTS
    Targets = {t1, t2}
    Calls = {c1, c2}
    NoCall = NoCall
    NoRequest = NoRequest
    Price <- Ten
    Commission <- TwoEach
    TotalBudget = 40
    Opening = 40
    TargetMoves <- FailingTargetMoves
    Toggles = {}
    Active <- HoldAndWork
SYMMETRY SlotsAndTargets
INVARIANTS
    BooksBalance
PROPERTIES
    KeepsPromise
