SPECIFICATION Spec
CONSTANTS
    lsass = lsass
    Values = {lsass}
    Empty = Empty
    MaxPages = 2
INVARIANTS
    SearchSearches
