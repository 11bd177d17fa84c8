SPECIFICATION PaysApartSpec
CONSTANTS
    Deals = {d1, d2}
    Refs = {r1}
    Calls = {c1, c2}
    NoDeal = NoDeal
    NoRequest = NoRequest
    Amount = 10
    Commission <- TwoEach
    Opening = 0
    Asked <- OneAtWork
SYMMETRY Slots
INVARIANTS
    BindingFunds
PROPERTIES
    KeepsPromise
