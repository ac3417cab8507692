SPECIFICATION RefreshSpec
CONSTANTS
    None = None
    PeerIDs = {"p1"}
    Workers = {"w1"}
    Logins <- OneLogin
    SignatureKeys <- OneSignatureKey
    EncryptionKeys = {"e"}
    PeerFlags = {""}
    Fakes = {FALSE}
    FileIDs <- OneFile
    Indexes = {0}
    Hashes = {"h"}
    TTLs = {0}
    DefaultTTL = 1
    DefaultChunkTTL = 1
    MaxTime = 0
    MaxChunks = 1
    MaxVerdicts = 1
INVARIANT VerdictsSurvive
