SPECIFICATION Spec
CONSTANTS
    Channels = {x1, x2}
    Campaigns = {k1}
    Targets = {t1, t2}
    NoRow = NoRow
    Calls = {c1, c2, c3}
INVARIANTS
    TypeOK
    VerifiedWasFound
    PlacedIsReady
PROPERTIES
    MovesByTable
SYMMETRY Alike
