CONSTANTS
    here = here
    there = there
    small = small
    ten = ten
    PC1 = PC1
    pc1 = pc1
    PC10 = PC10
    XYZ = XYZ
    Machines = {here, there, small, ten}
    Hosts = {PC1, pc1, PC10}
    Name <- NameOf
    Lower <- LowerOf
    Texts = {PC1, pc1, PC10, XYZ}
    Match <- Names
    None = None
    Stamps = {1, 2}
    LastPage = 1
    MaxInstances = 3
SPECIFICATION Spec
INVARIANTS
    NameIsTrue
