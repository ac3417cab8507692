SPECIFICATION Spec
CONSTANTS
    None = None
    s1 = s1
    s2 = s2
    s3 = s3
    x1 = x1
    x2 = x2
    PeerIDs = {"a", "b"}
    Sessions = {s1, s2, s3}
    Signals = {x1, x2}
    Incomplete = {}
    Offers = {}
    To <- MCTo
SYMMETRY Symmetry
INVARIANTS
    TypeOK
    SignalConserved
    Reachable
    NoClosedEntry
