SPECIFICATION Spec
CONSTANTS
    Calls = {c1, c2}
    Nobody = Nobody
    Subjects = {s1, s2}
    NoSubject = NoSubject
    Granted <- BothRoles
    Flows <- SomeFlows
INVARIANTS
    TypeOK
    ReadIsCurrent
PROPERTIES
    OrderAnswersPrompt
SYMMETRY Alike
