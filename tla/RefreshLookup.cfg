SPECIFICATION RefreshSpec
CONSTANTS
    None = None
    PeerIDs = {"p1"}
    Workers = {"w1"}
    Logins <- TwoLogins
    SignatureKeys <- OneSignatureKey
    EncryptionKeys = {"e"}
    PeerFlags = {""}
    Fakes = {FALSE}
    FileIDs = {}
    Indexes = {}
    Hashes = {}
    TTLs = {0}
    DefaultTTL = 1
    DefaultChunkTTL = 1
    MaxTime = 1
    MaxChunks = 0
    MaxVerdicts = 0
INVARIANT LookupSound
