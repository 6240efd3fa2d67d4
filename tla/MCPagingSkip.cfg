CONSTANTS
    a1 = a1
    a2 = a2
    a3 = a3
    a4 = a4
    Alerts = {a1, a2, a3, a4}
    Stamp <- Seconds
    Views = {"alerts"}
    PageSizes = {1}
    Tidy = FALSE
    MaxMarks = 1
    MaxChanges = 0
SPECIFICATION Spec
INVARIANTS
    MissedBounded
