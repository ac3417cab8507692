SPECIFICATION FairSpec
CONSTANTS
    None = None
    s1 = s1
    s2 = s2
    s3 = s3
    x1 = x1
    x2 = x2
    PeerIDs = {"a", "b"}
    Sessions = {s1, s2}
    Signals = {x1, x2}
    Incomplete = {x2}
    Offers = {x1}
    To <- MCTo
PROPERTIES
    RelayEnds
    SessionEnds
