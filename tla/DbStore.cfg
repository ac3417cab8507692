SPECIFICATION Spec
CONSTANTS
    None = None
    p1 = p1
    w1 = w1
    w2 = w2
    h1 = h1
    h2 = h2
    Drivers = {"sqlite"}
    PeerIDs = {p1}
    Workers = {w1, w2}
    Logins <- MCLogins
    SignatureKeys <- OneSignatureKey
    EncryptionKeys = {"e"}
    PeerFlags = {""}
    Fakes = {FALSE}
    FileIDs <- OneFile
    Indexes = {0}
    Hashes = {h1, h2}
    TTLs = {0}
    DefaultTTL = 1
    DefaultChunkTTL = 1
    MaxTime = 2
    MaxChunks = 1
    MaxVerdicts = 1
SYMMETRY Symmetry
INVARIANTS
    VerdictLedger
    SenderResolved
PROPERTIES
    ImplementsDirectory
