CONSTANTS
    h1 = h1
    h2 = h2
    h3 = h3
    u1 = u1
    Stranger = Stranger
    Users = {u1}
    Handlers = {h1, h2, h3}
    MaxFailedLogins = 2
    MaxInt16 = 2
    MaxFaults = 2
    MaxWrongs = 3
SPECIFICATION FairSpec
INVARIANTS
    TypeOK
    LockEarned
    LateInsBounded
    LimitMeansLock
PROPERTIES
    GuessingEndsLocked
