CONSTANTS
    r1 = r1
    r2 = r2
    r3 = r3
    a1 = a1
    a2 = a2
    NaN = NaN
    Earlier = Earlier
    Requests = {r1, r2}
    Alerts = {a1, a2}
    Forms <- TwoChanges
    MaxAttempts = 1
    UniqueAlert = FALSE
    MaxOpenConns = 2
SPECIFICATION Spec
INVARIANTS
    NoWedge
CHECK_DEADLOCK FALSE
