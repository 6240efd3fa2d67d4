SPECIFICATION MCSpec
CONSTANTS
    b1 = b1
    b2 = b2
    t1 = t1
    t2 = t2
    ann = ann
    bob = bob
    Browsers = {b1, b2}
    Tabs = {t1, t2}
    Users = {ann, bob}
    Admins = {ann}
    NoCookie = NoCookie
    Keep = Keep
INVARIANTS
    TypeOK
    EnrolledIsTrue
    SessionIsLatest
PROPERTIES
    LockIsFinal
    EnrolledForGood
    RedirectsRunOut
    ImplementsSessions
    RequestsSettle

