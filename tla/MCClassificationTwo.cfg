CONSTANTS
    r1 = r1
    r2 = r2
    r3 = r3
    a1 = a1
    a2 = a2
    NaN = NaN
    Earlier = Earlier
    Requests = {r1, r2}
    Alerts = {a1, a2}
    Forms <- TwoAnalysts
    MaxAttempts = 2
    UniqueAlert = FALSE
    MaxOpenConns = 3
SPECIFICATION FairSpec
INVARIANTS
    TypeOK
    PoolConserved
    NoWedge
    AnswerTellsTruth
PROPERTIES
    EveryPostAnswered
    ImplementsLedger
    RetriesRunOut
