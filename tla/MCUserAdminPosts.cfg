SPECIFICATION Spec
CONSTANTS
    p1 = p1
    p2 = p2
    p3 = p3
    ann = ann
    bob = bob
    carl = carl
    xy = xy
    Posts = {p1, p2, p3}
    Admins = {ann, bob}
    Names = {carl, xy}
    BadNames = {xy}
SYMMETRY SamePosts
INVARIANTS
    TypeOK
    ShownPasswordOpens
    TwinsOverlapped
    RefusalLeavesNothing
    LostPasswordHasCause
PROPERTIES
    ImplementsAccounts
