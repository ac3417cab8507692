SPECIFICATION BatchSpec
CONSTANTS
    None = None
    PeerIDs = {"p1"}
    Workers = {"w1"}
    Handlers = {"b1"}
    Logins <- OneLogin
    SignatureKeys <- OneSignatureKey
    EncryptionKeys = {"e"}
    PeerFlags = {""}
    Fakes = {FALSE}
    FileIDs <- OneFile
    Indexes = {0}
    Hashes = {"h1"}
    TTLs = {0}
    DefaultTTL = 1
    DefaultChunkTTL = 1
    RegisterBatches <- MCRegisterBatches
    ConfirmBatches <- MCConfirmBatches
    MaxTime = 2
    MaxChunks = 2
    MaxVerdicts = 2
INVARIANTS
    FirstConfirmed
    BatchIsPrefix
