SPECIFICATION FairSyncSpec
CONSTANTS
    None = None
    PeerIDs = {"p1"}
    Watched <- MCWatched
    Workers = {"w1"}
    Logins <- OneLogin
    SignatureKeys <- OneSignatureKey
    EncryptionKeys = {"e"}
    PeerFlags = {""}
    Fakes = {FALSE}
    FileIDs <- OneFile
    Indexes = {0}
    Hashes = {"h"}
    TTLs = {0}
    DefaultTTL = 2
    DefaultChunkTTL = 1
    MaxTime = 3
    MaxChunks = 1
    MaxVerdicts = 1
INVARIANT
    NothingMissed
PROPERTIES
    ChunksRetained
    ExpiredChunksSwept
