SPECIFICATION FairDbServerSpec
CONSTANTS
    None = None
    Servers = {"s1", "s2"}
    Drivers = {"sqlite", "pgx"}
    MaxFailures = 1
    PeerIDs = {"a", "b"}
    Calls = {"c1", "c2"}
    Signals = {"x1"}
    MaxReceipts = 1
    Incomplete = {}
    To <- MCTo
    On <- MCOn
INVARIANTS
    RecordedApplied
    ServingComplete
    NoSilentLoss
    NoRepeat
PROPERTY
    StartSucceeds
