------------------------------ MODULE PeerTypes ------------------------------
(***************************************************************************)
(* The data of the phonebook and the pure functions every store shares:    *)
(* internal/model/peer.go, internal/model/quality.go,                      *)
(* internal/store/store.go, internal/store/hash.go and the key helpers of  *)
(* internal/store/memory.go.                                               *)
(*                                                                         *)
(* A Go string that the code joins or splits at a separator is the         *)
(* sequence of its parts: a login "a:b" is <<"a", "b">>, a file id "a#b"   *)
(* is <<"a", "b">>.  Joining two such strings with the separator is then   *)
(* concatenation, and strings.SplitN(s, sep, 2) takes the first part and   *)
(* the rest.  Every other string is an opaque value.                       *)
(***************************************************************************)
EXTENDS Integers, Sequences

CONSTANTS
    PeerIDs,          \* peer ids a client may register
    Logins,           \* logins, as parts separated by ":"
    SignatureKeys,    \* base64 Ed25519 keys, as parts separated by ":"
    EncryptionKeys,   \* opaque encryption keys
    PeerFlags,        \* peer_flag values; "" means no flag
    Fakes,            \* values of a request's fake field (absent: FALSE)
    FileIDs,          \* file ids, as parts separated by "#"
    Indexes,          \* chunk indexes
    Hashes,           \* normalised 16-digit hashes
    TTLs,             \* ttl values a request may carry (<= 0: absent)
    DefaultTTL,       \* const defaultTTL (300 in the code)
    DefaultChunkTTL,  \* const defaultChunkTTL (86400 in the code)
    None              \* an absent map entry / an idle goroutine

Blank == <<"">>       \* the empty string

ASSUME StringsAssumption ==
    /\ Logins \subseteq Seq(STRING) \ {<<>>}
    /\ SignatureKeys \subseteq Seq(STRING) \ {<<>>}
    /\ FileIDs \subseteq Seq(STRING) \ {<<>>}

ASSUME ScalarsAssumption ==
    /\ Fakes \subseteq BOOLEAN
    /\ Indexes \subseteq Nat
    /\ TTLs \subseteq Int
    /\ DefaultTTL \in Nat \ {0}
    /\ DefaultChunkTTL \in Nat \ {0}

-----------------------------------------------------------------------------
(***************************************************************************)
(* Peers.                                                                  *)
(***************************************************************************)
InitialQualityScore == 1000

Peer == [Login          : Logins,
         EncryptionKey  : EncryptionKeys,
         SignatureKey   : SignatureKeys,
         LastSeen       : Nat,
         TTLSeconds     : Nat \ {0},
         QualityScore   : Int,
         ValidReports   : Nat,
         InvalidReports : Nat,
         PeerFlag       : PeerFlags,
         Fake           : Fakes]

\* Login + ":" + SignatureKey.  Not injective: "a:b" + ":" + "c" is also
\* "a" + ":" + "b:c".
KeyString(login, signatureKey) == login \o signatureKey

Key(peer) == KeyString(peer.Login, peer.SignatureKey)

Keys == {KeyString(l, k) : l \in Logins, k \in SignatureKeys}

\* Mutant: the request's ttl is stored as it came.
OrDefault_AsIs(ttl, default) == ttl

\* "if ttl <= 0 { ttl = default }"
OrDefault(ttl, default) == IF ttl <= 0 THEN default ELSE ttl

isExpired(peer, time) ==
    time - peer.LastSeen > OrDefault(peer.TTLSeconds, DefaultTTL)

RegisterRequest == [ID            : PeerIDs,
                    Login         : Logins,
                    EncryptionKey : EncryptionKeys,
                    SignatureKey  : SignatureKeys,
                    TTLSeconds    : TTLs,
                    PeerFlag      : PeerFlags,
                    Fake          : Fakes]

\* The record Upsert builds from a request, before it looks at the map; at is
\* the time.Now() it took.
NewPeer(req, at) ==
    [Login          |-> req.Login,
     EncryptionKey  |-> req.EncryptionKey,
     SignatureKey   |-> req.SignatureKey,
     LastSeen       |-> at,
     TTLSeconds     |-> OrDefault(req.TTLSeconds, DefaultTTL),
     QualityScore   |-> InitialQualityScore,
     ValidReports   |-> 0,
     InvalidReports |-> 0,
     PeerFlag       |-> req.PeerFlag,
     Fake           |-> req.Fake]

\* sign.Verify of a signature over the right payload: it verifies under the
\* key that made it and under no other.  A key that is not base64 (":" is
\* not) verifies nothing.
Verify(publicKey, signer) == Len(publicKey) = 1 /\ publicKey = signer

verifyPeerSignature(peer, signer) ==
    /\ peer.SignatureKey # Blank
    /\ Verify(peer.SignatureKey, signer)

\* One judged report: +1 and a valid report, or -1 and an invalid one.
Scored(peer, valid) ==
    IF valid
    THEN [peer EXCEPT !.QualityScore = @ + 1, !.ValidReports = @ + 1]
    ELSE [peer EXCEPT !.QualityScore = @ - 1, !.InvalidReports = @ + 1]

-----------------------------------------------------------------------------
(***************************************************************************)
(* Chunks.                                                                 *)
(***************************************************************************)
\* A hash as a client writes it: any case, normalised by the store.
RawHashes == [digest : Hashes, upper : BOOLEAN]

normalizeHash(raw) == raw.digest

\* fileID + "#" + index
chunkKey(fileID, index) == Append(fileID, index)

ChunkKeys == {chunkKey(f, i) : f \in FileIDs, i \in Indexes}

\* strings.SplitN(key, "#", 2) and Atoi of the rest, 0 if it is no number.
parseChunkKey(key) ==
    [file  |-> <<Head(key)>>,
     index |-> IF Len(key) = 2 THEN key[2] ELSE 0]

Chunk == [key         : ChunkKeys,
          Hash        : Hashes,
          SenderID    : Keys,
          RecipientID : Keys,
          Persist     : BOOLEAN,
          Confirmed   : BOOLEAN,
          Readed      : BOOLEAN,
          CreatedAt   : Nat,
          UpdatedAt   : Nat,
          TTL         : Nat \ {0}]

\* Mutant: the persist flag is not looked at.
chunkExpired_IgnoresPersist(chunk, time) == chunk.CreatedAt + chunk.TTL < time

\* The cleaner's condition.
chunkExpired(chunk, time) ==
    ~chunk.Persist /\ chunk.CreatedAt + chunk.TTL < time

ASSUME NoneAssumption ==
    /\ None \notin Peer
    /\ None \notin Chunk
    /\ None \notin Nat
    /\ None \notin [req : RegisterRequest, at : Nat]
=============================================================================
