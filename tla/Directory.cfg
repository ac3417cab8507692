SPECIFICATION StillSpec
CONSTANTS
    None = None
    p1 = p1
    p2 = p2
    w1 = w1
    h1 = h1
    h2 = h2
    PeerIDs = {p1, p2}
    Workers = {w1}
    Logins <- MCLogins
    SignatureKeys <- MCSignatureKeys
    EncryptionKeys = {"e"}
    PeerFlags = {"thick"}
    Fakes = {FALSE}
    FileIDs <- OneFile
    Indexes = {0}
    Hashes = {h1, h2}
    TTLs = {0}
    DefaultTTL = 1
    DefaultChunkTTL = 1
    ScoreBound = 10
    MaxTime = 0
    MaxChunks = 1
    MaxVerdicts = 1
SYMMETRY Symmetry
INVARIANTS
    TypeOK
    LookupExact
    VerdictLedger
    BestByMerit
PROPERTY
    ImplementsDirectory
