SPECIFICATION FairDbServerSpec
CONSTANTS
    None = None
    Servers = {"s1"}
    Drivers = {"sqlite"}
    MaxFailures = 0
    PeerIDs = {"a"}
    Calls = {"c1"}
    Signals = {"x1"}
    MaxReceipts = 1
    Incomplete = {}
    To <- MCTo
    On <- MCOn
PROPERTY
    DefaultStartSucceeds
