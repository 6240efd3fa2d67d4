CONSTANTS
    a1 = a1
    a2 = a2
    a3 = a3
    a4 = a4
    Alerts = {a1, a2, a3, a4}
    Stamp <- Distinct
    Views = {"alerts", "classified", "sorted"}
    PageSizes = {1, 2}
    Tidy = TRUE
    MaxMarks = 1
    MaxChanges = 4
SPECIFICATION Spec
INVARIANTS
    TypeOK
    MissedBounded
    NextIsTrue
PROPERTIES
    EveryRowSeen
