----------------------------- MODULE MemoryStore -----------------------------
(***************************************************************************)
(* The in-memory store, internal/store/memory.go: the peer table, the      *)
(* index logins from key strings to peer ids, the list of registered       *)
(* chunks, and the goroutine of internal/api/server.go that deletes        *)
(* expired chunks.                                                         *)
(*                                                                         *)
(* A method that holds mu for its whole body is one action.  Upsert and    *)
(* DeleteExpiredChunks read the clock before they take the lock, so each   *)
(* is two actions: the sample, and the critical section that uses it.  A   *)
(* call that returns an error changes nothing and is not an action.  The   *)
(* queries change nothing either: they are operators of the state          *)
(* (GetByKey, GetChunksByRecipient, GetChunksByFileID).                    *)
(*                                                                         *)
(* Refresh takes no lock and is in MemoryRefresh; the signal mailboxes,    *)
(* which share no property with the rest, are in Signaling.                *)
(***************************************************************************)
EXTENDS PeerTypes

CONSTANTS
    Workers,      \* request goroutines that may be inside Upsert
    MaxTime,      \* bound: the clock stops here
    MaxChunks,    \* bound: chunks ever registered
    MaxVerdicts   \* bound: verdicts on one registration of a peer

ASSUME BoundsAssumption ==
    /\ MaxTime \in Nat
    /\ MaxChunks \in Nat
    /\ MaxVerdicts \in Nat

VARIABLES
    peers,     \* map id -> Peer; None: no entry
    logins,    \* map key string -> slice of ids, as a bag: only GetByKey's
               \* output order depends on the order of a slice
    chunks,    \* the chunk list: slot c holds the c-th entry ever registered,
               \* None once deleted, so slot order is list order
    regs,      \* number of entries ever registered
    now,       \* time.Now(), in seconds
    upserts,   \* per worker: the request and the time it took before the lock
    cleaner,   \* the time DeleteExpiredChunks took before the lock, or None
    verdicts   \* ghost: verdicts passed on each peer since its registration

vars == <<peers, logins, chunks, regs, now, upserts, cleaner, verdicts>>

Slots == 1 .. MaxChunks

NoVerdicts == [valid |-> 0, invalid |-> 0]

-----------------------------------------------------------------------------
(***************************************************************************)
(* The key index.                                                          *)
(***************************************************************************)
\* Mutant: the id stays in the slice.
removeID_Keeps(index, key, id) == index

\* Drops the first occurrence of id from the slice of key.
removeID(index, key, id) ==
    IF index[key][id] = 0
    THEN index
    ELSE [index EXCEPT ![key][id] = @ - 1]

appendID(index, key, id) == [index EXCEPT ![key][id] = @ + 1]

\* The peers an index lookup finds, with the number of times each is listed.
\* A blank login or key is an error.
GetByKey(login, signatureKey) ==
    [id \in PeerIDs |->
        IF Blank \in {login, signatureKey} THEN 0
        ELSE IF peers[id] = None THEN 0
        ELSE IF isExpired(peers[id], now) THEN 0
        ELSE logins[KeyString(login, signatureKey)][id]]

\* The peers a scan of the table may return: the map's order decides which.
peerByKey(key) ==
    {id \in PeerIDs : /\ peers[id] # None
                      /\ Key(peers[id]) = key
                      /\ ~isExpired(peers[id], now)}

-----------------------------------------------------------------------------
(***************************************************************************)
(* The chunk list.                                                         *)
(***************************************************************************)
hasKey(c, key) == chunks[c] # None /\ chunks[c].key = key

isFor(c, key, recipientKey) ==
    hasKey(c, key) /\ chunks[c].RecipientID = recipientKey

\* The first entry with this key: at most one slot.
entriesByKey(key) ==
    {c \in Slots : hasKey(c, key) /\ \A j \in 1 .. c-1 : ~hasKey(j, key)}

\* Mutant: the scan does not stop at the first match.
entriesFor_Any(key, recipientKey) ==
    {c \in Slots : isFor(c, key, recipientKey)}

\* The first entry with this key for this recipient: at most one slot.
entriesFor(key, recipientKey) ==
    {c \in Slots : /\ isFor(c, key, recipientKey)
                   /\ \A j \in 1 .. c-1 : ~isFor(j, key, recipientKey)}

MarkConfirmed(chunk, time) ==
    [chunk EXCEPT !.Confirmed = TRUE, !.UpdatedAt = time]

MarkReaded(chunk, time) ==
    [chunk EXCEPT !.Readed = TRUE, !.UpdatedAt = time]

\* The entries of a file for a recipient, as ReadChunk tells them.
readTargets(fileID, recipientKey) ==
    {c \in Slots : /\ chunks[c] # None
                   /\ chunks[c].RecipientID = recipientKey
                   /\ parseChunkKey(chunks[c].key).file = fileID}

\* Mutant: an entry updated in the second of the last query is left out.
GetChunksByRecipient_Exclusive(recipientKey, dateFrom) ==
    {c \in Slots : /\ chunks[c] # None
                   /\ chunks[c].RecipientID = recipientKey
                   /\ chunks[c].UpdatedAt > dateFrom}

GetChunksByRecipient(recipientKey, dateFrom) ==
    {c \in Slots : /\ chunks[c] # None
                   /\ chunks[c].RecipientID = recipientKey
                   /\ chunks[c].UpdatedAt >= dateFrom}

GetChunksByFileID(fileID) ==
    {c \in Slots : /\ chunks[c] # None
                   /\ parseChunkKey(chunks[c].key).file = fileID}

-----------------------------------------------------------------------------
Init ==
    /\ peers = [id \in PeerIDs |-> None]
    /\ logins = [k \in Keys |-> [id \in PeerIDs |-> 0]]
    /\ chunks = [c \in Slots |-> None]
    /\ regs = 0
    /\ now = 0
    /\ upserts = [w \in Workers |-> None]
    /\ cleaner = None
    /\ verdicts = [id \in PeerIDs |-> NoVerdicts]

-----------------------------------------------------------------------------
(***************************************************************************)
(* Peers.                                                                  *)
(***************************************************************************)
\* Mutant: the request's keys replace the registered ones.
Merged_NewKeys(old, req, at) ==
    [NewPeer(req, at) EXCEPT
        !.QualityScore = old.QualityScore,
        !.ValidReports = old.ValidReports,
        !.InvalidReports = old.InvalidReports,
        !.PeerFlag = IF req.PeerFlag # "" THEN req.PeerFlag ELSE old.PeerFlag,
        !.Fake = old.Fake]

\* Mutant: a peer that registers again starts with fresh counters.
Merged_FreshQuality(old, req, at) ==
    [NewPeer(req, at) EXCEPT
        !.EncryptionKey = old.EncryptionKey,
        !.SignatureKey = old.SignatureKey,
        !.PeerFlag = IF req.PeerFlag # "" THEN req.PeerFlag ELSE old.PeerFlag,
        !.Fake = old.Fake]

\* The new record of a peer that is in the table already.
Merged(old, req, at) ==
    [Login          |-> req.Login,
     EncryptionKey  |-> old.EncryptionKey,
     SignatureKey   |-> old.SignatureKey,
     LastSeen       |-> at,
     TTLSeconds     |-> OrDefault(req.TTLSeconds, DefaultTTL),
     QualityScore   |-> old.QualityScore,
     ValidReports   |-> old.ValidReports,
     InvalidReports |-> old.InvalidReports,
     PeerFlag       |-> IF req.PeerFlag # "" THEN req.PeerFlag ELSE old.PeerFlag,
     Fake           |-> old.Fake]

\* Upsert up to s.mu.Lock(): the request is read and the clock is sampled.
UpsertBegin(w, req) ==
    /\ upserts[w] = None
    /\ upserts' = [upserts EXCEPT ![w] = [req |-> req, at |-> now]]
    /\ UNCHANGED <<peers, logins, chunks, regs, now, cleaner, verdicts>>

\* The critical section for an id that is not in the table.
UpsertInsert(w) ==
    /\ upserts[w] # None
    /\ LET req  == upserts[w].req
           id   == req.ID
           peer == NewPeer(req, upserts[w].at)
       IN  /\ peers[id] = None
           /\ logins' = appendID(logins, Key(peer), id)
           /\ peers' = [peers EXCEPT ![id] = peer]
           /\ verdicts' = [verdicts EXCEPT ![id] = NoVerdicts]
    /\ upserts' = [upserts EXCEPT ![w] = None]
    /\ UNCHANGED <<chunks, regs, now, cleaner>>

\* The critical section for an id that is in the table, expired or not.
UpsertMerge(w) ==
    /\ upserts[w] # None
    /\ LET req  == upserts[w].req
           id   == req.ID
           old  == peers[id]
           peer == Merged(old, req, upserts[w].at)
       IN  /\ old # None
           /\ logins' = appendID(removeID(logins, Key(old), id), Key(peer), id)
           /\ peers' = [peers EXCEPT ![id] = peer]
    /\ upserts' = [upserts EXCEPT ![w] = None]
    /\ UNCHANGED <<chunks, regs, now, cleaner, verdicts>>

Delete(id) ==
    /\ peers[id] # None
    /\ logins' = removeID(logins, Key(peers[id]), id)
    /\ peers' = [peers EXCEPT ![id] = None]
    /\ UNCHANGED <<chunks, regs, now, upserts, cleaner, verdicts>>

Heartbeat(id, ttlSeconds) ==
    /\ peers[id] # None
    /\ peers' = [peers EXCEPT
                    ![id].TTLSeconds = IF ttlSeconds > 0 THEN ttlSeconds ELSE @,
                    ![id].LastSeen = now]
    /\ UNCHANGED <<logins, chunks, regs, now, upserts, cleaner, verdicts>>

-----------------------------------------------------------------------------
(***************************************************************************)
(* Chunks.                                                                 *)
(***************************************************************************)
SetChunkHash(fileID, index, senderKey, recipientKey, raw, signer, persist, ttl) ==
    /\ \E sender \in peerByKey(senderKey) :
           verifyPeerSignature(peers[sender], signer)
    /\ regs < MaxChunks
    /\ regs' = regs + 1
    /\ chunks' = [chunks EXCEPT ![regs + 1] =
                     [key         |-> chunkKey(fileID, index),
                      Hash        |-> normalizeHash(raw),
                      SenderID    |-> senderKey,
                      RecipientID |-> recipientKey,
                      Persist     |-> persist,
                      Confirmed   |-> FALSE,
                      Readed      |-> FALSE,
                      CreatedAt   |-> now,
                      UpdatedAt   |-> now,
                      TTL         |-> OrDefault(ttl, DefaultChunkTTL)]]
    /\ UNCHANGED <<peers, logins, now, upserts, cleaner, verdicts>>

Counted(tally, valid) ==
    IF valid THEN [tally EXCEPT !.valid = tally.valid + 1]
             ELSE [tally EXCEPT !.invalid = tally.invalid + 1]

\* A verdict on peer id: the score and the counters in the table, and the
\* ghost that remembers it.
Judge(id, valid) ==
    /\ verdicts[id].valid + verdicts[id].invalid < MaxVerdicts
    /\ peers' = [peers EXCEPT ![id] = Scored(@, valid)]
    /\ verdicts' = [verdicts EXCEPT ![id] = Counted(@, valid)]

\* Neither the reporter nor the source has to be unexpired.
ReportChunk(source, reporter, fileID, index, raw, signer) ==
    /\ peers[reporter] # None
    /\ verifyPeerSignature(peers[reporter], signer)
    /\ peers[source] # None
    /\ \E c \in entriesByKey(chunkKey(fileID, index)) :
           Judge(source, normalizeHash(raw) = chunks[c].Hash)
    /\ UNCHANGED <<logins, chunks, regs, now, upserts, cleaner>>

ConfirmChunk(recipientKey, fileID, index, raw, signer) ==
    /\ \E recipient \in peerByKey(recipientKey) :
           verifyPeerSignature(peers[recipient], signer)
    /\ \E c \in entriesFor(chunkKey(fileID, index), recipientKey) :
       \E sender \in peerByKey(chunks[c].SenderID) :
           LET valid == normalizeHash(raw) = chunks[c].Hash
           IN  /\ Judge(sender, valid)
               /\ chunks' = IF valid
                            THEN [chunks EXCEPT ![c] = MarkConfirmed(@, now)]
                            ELSE chunks
    /\ UNCHANGED <<logins, regs, now, upserts, cleaner>>

ReadChunk(recipientKey, fileID, signer) ==
    /\ \E recipient \in peerByKey(recipientKey) :
           verifyPeerSignature(peers[recipient], signer)
    /\ readTargets(fileID, recipientKey) # {}
    /\ chunks' = [c \in Slots |->
                     IF c \in readTargets(fileID, recipientKey)
                     THEN MarkReaded(chunks[c], now)
                     ELSE chunks[c]]
    /\ UNCHANGED <<peers, logins, regs, now, upserts, cleaner, verdicts>>

-----------------------------------------------------------------------------
(***************************************************************************)
(* The cleaner goroutine and the clock.                                    *)
(***************************************************************************)
\* The ticker fires and DeleteExpiredChunks samples the clock.
CleanerTick ==
    /\ cleaner = None
    /\ cleaner' = now
    /\ UNCHANGED <<peers, logins, chunks, regs, now, upserts, verdicts>>

\* Mutant: an expired chunk is kept until it is confirmed.
DeleteExpiredChunks_ConfirmedOnly ==
    /\ cleaner # None
    /\ chunks' = [c \in Slots |->
                     IF chunks[c] = None THEN None
                     ELSE IF chunkExpired(chunks[c], cleaner) /\ chunks[c].Confirmed
                     THEN None
                     ELSE chunks[c]]
    /\ cleaner' = None
    /\ UNCHANGED <<peers, logins, regs, now, upserts, verdicts>>

\* Its critical section.
DeleteExpiredChunks ==
    /\ cleaner # None
    /\ chunks' = [c \in Slots |->
                     IF chunks[c] = None THEN None
                     ELSE IF chunkExpired(chunks[c], cleaner) THEN None
                     ELSE chunks[c]]
    /\ cleaner' = None
    /\ UNCHANGED <<peers, logins, regs, now, upserts, verdicts>>

Tick ==
    /\ now < MaxTime
    /\ now' = now + 1
    /\ UNCHANGED <<peers, logins, chunks, regs, upserts, cleaner, verdicts>>

-----------------------------------------------------------------------------
PeerStep ==
    \/ \E w \in Workers, req \in RegisterRequest : UpsertBegin(w, req)
    \/ \E w \in Workers : UpsertInsert(w) \/ UpsertMerge(w)
    \/ \E id \in PeerIDs : Delete(id)
    \/ \E id \in PeerIDs, ttl \in TTLs : Heartbeat(id, ttl)

ChunkStep ==
    \E fileID \in FileIDs, index \in Indexes, signer \in SignatureKeys :
        \/ \E senderKey, recipientKey \in Keys, raw \in RawHashes,
              persist \in BOOLEAN, ttl \in TTLs :
              SetChunkHash(fileID, index, senderKey, recipientKey, raw, signer,
                           persist, ttl)
        \/ \E source, reporter \in PeerIDs, raw \in RawHashes :
              ReportChunk(source, reporter, fileID, index, raw, signer)
        \/ \E recipientKey \in Keys, raw \in RawHashes :
              ConfirmChunk(recipientKey, fileID, index, raw, signer)
        \/ \E recipientKey \in Keys : ReadChunk(recipientKey, fileID, signer)

Next ==
    \/ PeerStep
    \/ ChunkStep
    \/ CleanerTick
    \/ DeleteExpiredChunks
    \/ Tick

Spec == Init /\ [][Next]_vars

\* The cleaner is a goroutine of the server, its ticker never stops, and the
\* lock is held only for bounded work.  Nothing obliges a client to call.
CleanerFairness == WF_vars(CleanerTick) /\ WF_vars(DeleteExpiredChunks)

FairSpec == Spec /\ CleanerFairness

-----------------------------------------------------------------------------
(***************************************************************************)
(* Properties.                                                             *)
(***************************************************************************)
\* Every variable has its type: in particular no stored TTL is below 1,
\* whatever the request carried (the "ttl <= 0" branches of Upsert,
\* Heartbeat and SetChunkHash).
TypeOK ==
    /\ peers \in [PeerIDs -> Peer \cup {None}]
    /\ logins \in [Keys -> [PeerIDs -> Nat]]
    /\ chunks \in [Slots -> Chunk \cup {None}]
    /\ regs \in 0 .. MaxChunks
    /\ now \in Nat
    /\ upserts \in [Workers -> [req : RegisterRequest, at : Nat] \cup {None}]
    /\ cleaner \in Nat \cup {None}
    /\ verdicts \in [PeerIDs -> [valid : Nat, invalid : Nat]]

\* The index lists a peer once, under its present key, and lists nothing else.
IndexConsistent ==
    \A k \in Keys, id \in PeerIDs :
        logins[k][id] =
            IF peers[id] = None THEN 0
            ELSE IF Key(peers[id]) = k THEN 1 ELSE 0

\* The two ways the code resolves a key agree: GetByKey, through the index
\* that Upsert and Delete maintain, returns each unexpired peer that has the
\* key exactly once and nobody else, as the table scan peerByKey finds them.
\* (A peer with a blank login or key is found by the scan alone.)
LookupExact ==
    \A l \in Logins \ {Blank}, s \in SignatureKeys \ {Blank}, id \in PeerIDs :
        GetByKey(l, s)[id] =
            IF id \in peerByKey(KeyString(l, s)) THEN 1 ELSE 0

\* A peer's score and counters are exactly the verdicts ReportChunk and
\* ConfirmChunk passed on it since it was registered: no Upsert, Heartbeat or
\* other call in between loses one or adds one.
VerdictLedger ==
    \A id \in PeerIDs :
        peers[id] # None =>
            /\ peers[id].ValidReports = verdicts[id].valid
            /\ peers[id].InvalidReports = verdicts[id].invalid
            /\ peers[id].QualityScore =
                   InitialQualityScore + verdicts[id].valid
                                       - verdicts[id].invalid

\* A chunk registered again for the same recipient is shadowed: only the
\* first of the entries with one key and recipient is ever confirmed
\* (ConfirmChunk stops at its first match), so at most one of them is.
FirstConfirmed ==
    \A c \in Slots : \A j \in 1 .. c-1 :
        /\ chunks[c] # None
        /\ chunks[c].Confirmed
        => ~isFor(j, chunks[c].key, chunks[c].RecipientID)

\* A registered identity is fixed: whatever a later Upsert of the same id
\* carries, the peer keeps its keys and its Fake mark until it is deleted.
IdentityFixed ==
    [][\A id \in PeerIDs :
          peers[id] # None /\ peers'[id] # None =>
              /\ peers'[id].SignatureKey = peers[id].SignatureKey
              /\ peers'[id].EncryptionKey = peers[id].EncryptionKey
              /\ peers'[id].Fake = peers[id].Fake]_vars

\* What a step may do to a chunk: it disappears only when it is not
\* persistent and its TTL has run out; otherwise what was registered stays,
\* Confirmed and Readed are never taken back, and UpdatedAt does not decrease
\* (GetChunksByRecipient's dateFrom relies on it).
Retained(old, new) ==
    IF new = None
    THEN ~old.Persist /\ old.CreatedAt + old.TTL < now
    ELSE /\ new.key = old.key
         /\ new.Hash = old.Hash
         /\ new.SenderID = old.SenderID
         /\ new.RecipientID = old.RecipientID
         /\ new.Persist = old.Persist
         /\ new.CreatedAt = old.CreatedAt
         /\ new.TTL = old.TTL
         /\ old.Confirmed => new.Confirmed
         /\ old.Readed => new.Readed
         /\ new.UpdatedAt >= old.UpdatedAt

\* No step destroys or rewrites a chunk it may not: the cleaner with a stale
\* clock, a confirmation and a read included.
ChunksRetained ==
    [][\A c \in Slots : chunks[c] # None => Retained(chunks[c], chunks'[c])]_vars

\* A chunk whose TTL has run out is deleted, however the cleaner's samples
\* and the clients' calls interleave.
ExpiredChunksSwept ==
    \A c \in Slots :
        (/\ chunks[c] # None
         /\ ~chunks[c].Persist
         /\ chunks[c].CreatedAt + chunks[c].TTL < now)
            ~> (chunks[c] = None)

-----------------------------------------------------------------------------
(***************************************************************************)
(* What the README says and the code does not do.                          *)
(***************************************************************************)
\* README, on keys: a (login, signature) pair is unique and cannot belong to
\* two peers.  Upsert never looks: ErrKeyTaken has no use.
KeyUnique ==
    \A i, j \in PeerIDs :
        /\ peers[i] # None
        /\ peers[j] # None
        /\ peers[i].Login = peers[j].Login
        /\ peers[i].SignatureKey = peers[j].SignatureKey
        => i = j
=============================================================================
