SPECIFICATION Spec
CONSTANTS
    None = None
    p1 = p1
    p2 = p2
    w1 = w1
    h1 = h1
    h2 = h2
    PeerIDs = {p1, p2}
    Workers = {w1}
    Logins <- MCLogins
    SignatureKeys <- MCSignatureKeys
    EncryptionKeys = {"e"}
    PeerFlags = {""}
    Fakes = {FALSE}
    FileIDs = {}
    Indexes = {}
    Hashes = {}
    TTLs = {0}
    DefaultTTL = 1
    DefaultChunkTTL = 1
    ScoreBound = 0
    MaxTime = 0
    MaxChunks = 0
    MaxVerdicts = 0
INVARIANT
    KeyUnique
