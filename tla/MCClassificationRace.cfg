CONSTANTS
    r1 = r1
    r2 = r2
    r3 = r3
    a1 = a1
    a2 = a2
    NaN = NaN
    Earlier = Earlier
    Requests = {r1, r2, r3}
    Alerts = {a1, a2}
    Forms <- ThreeChanges
    MaxAttempts = 1
    UniqueAlert = TRUE
    MaxOpenConns = 3
SPECIFICATION Spec
INVARIANTS
    WedgeNeedsFullHouse
    AnswerTellsTruth
    ReadYourWrites
    NoDoubleClaim
PROPERTIES
    ImplementsLedger
CHECK_DEADLOCK FALSE
