SPECIFICATION FairSpec
CONSTANTS
    c1 = c1
    c2 = c2
    p = p
    q = q
    k1 = k1
    k2 = k2
    None = None
    Classes = {c1}
    Profiles = {p, q}
    Conns = {k1}
    Paths = {1, 2, 3}
    Candidates = 1
    MaxLate = 1
PROPERTIES
    RetiredPathStops
    ShutdownCompletes
