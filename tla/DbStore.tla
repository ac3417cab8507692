------------------------------- MODULE DbStore -------------------------------
(***************************************************************************)
(* The database store, internal/store/db.go and internal/store/            *)
(* peer_store.go: the tables peers and chunks.                             *)
(*                                                                         *)
(* A method is a sequence of SQL statements, each atomic, and no lock or,  *)
(* but for Upsert, transaction holds them together: each is an action, and *)
(* ops[w] is what request w's method carries from one to the next.  A      *)
(* statement that only reads what the call returns is left out.  Any       *)
(* statement may fail, most simply because the client went away and the    *)
(* request's context is cancelled (Abort).                                 *)
(*                                                                         *)
(* NewDB keeps the name it was called with, "sqlite" or "postgres", and    *)
(* ConfirmChunk, ReadChunk and DeleteExpiredChunks choose their statement  *)
(* by the names "sqlite" and "pgx".  With "postgres" the statement is      *)
(* empty: with arguments an error, without any a statement that does       *)
(* nothing.                                                                *)
(*                                                                         *)
(* Refresh is absent: its UPDATE has a comma before WHERE, so every call   *)
(* fails.  The signals table is in DbSignals, the schema in Migration.     *)
(* Init is an empty database with the whole schema; for SQLite one that    *)
(* somebody completed by hand, because it does not parse the ADD COLUMN    *)
(* IF NOT EXISTS of migration 009.                                         *)
(***************************************************************************)
EXTENDS PeerTypes

CONSTANTS
    Drivers,      \* the drivers NewDB may be called with
    Workers,      \* request goroutines
    MaxTime,      \* bound: the clock stops here
    MaxChunks,    \* bound: rows ever inserted into chunks
    MaxVerdicts   \* bound: verdicts on one registration of a peer

ASSUME DbAssumption ==
    /\ Drivers \subseteq {"sqlite", "postgres"}
    /\ MaxTime \in Nat
    /\ MaxChunks \in Nat
    /\ MaxVerdicts \in Nat

VARIABLES
    driver,    \* s.driver
    peers,     \* table peers: id -> row; None: no row
    chunks,    \* table chunks: one slot for each row ever inserted
    regs,      \* number of rows ever inserted
    now,       \* the clock of the server and of the database
    ops,       \* per worker: None, or the method it is in the middle of
    verdicts   \* ghost: verdicts passed on each peer since its registration

vars == <<driver, peers, chunks, regs, now, ops, verdicts>>

Slots == 1 .. MaxChunks

NoVerdicts == [valid |-> 0, invalid |-> 0]

Init ==
    /\ driver \in Drivers
    /\ peers = [id \in PeerIDs |-> None]
    /\ chunks = [c \in Slots |-> None]
    /\ regs = 0
    /\ now = 0
    /\ ops = [w \in Workers |-> None]
    /\ verdicts = [id \in PeerIDs |-> NoVerdicts]

In(w, op) == ops[w] # None /\ ops[w].op = op

Set(w, op) == ops' = [ops EXCEPT ![w] = op]

-----------------------------------------------------------------------------
(***************************************************************************)
(* Lookups.                                                                *)
(***************************************************************************)
getPeerByID(id) == peers[id] # None /\ ~isExpired(peers[id], now)

\* Mutant: the key column decides.
getPeerByKey_Column(key) ==
    {id \in PeerIDs : getPeerByID(id) /\ Key(peers[id]) = key}

\* strings.SplitN(key, ":", 2), then login and signature_key: the rows, the
\* first of which, in no particular order, the callers take.
getPeerByKey(key) ==
    {id \in PeerIDs : /\ getPeerByID(id)
                      /\ peers[id].Login = <<Head(key)>>
                      /\ peers[id].SignatureKey = Tail(key)}

\* The signature is checked against the first row found.
SignedBy(key, signer) ==
    \E id \in getPeerByKey(key) : verifyPeerSignature(peers[id], signer)

rowsByKey(key) == {c \in Slots : chunks[c] # None /\ chunks[c].key = key}

-----------------------------------------------------------------------------
(***************************************************************************)
(* Peers.                                                                  *)
(***************************************************************************)
\* The clock, BEGIN and the SELECT of the row that is there.
UpsertSelect(w, req) ==
    /\ ops[w] = None
    /\ Set(w, [op |-> "upsert", req |-> req, at |-> now, existing |-> peers[req.ID]])
    /\ UNCHANGED <<driver, peers, chunks, regs, now, verdicts>>

\* INSERT and COMMIT; the primary key refuses a row another call inserted.
UpsertInsert(w) ==
    /\ In(w, "upsert")
    /\ ops[w].existing = None
    /\ LET id == ops[w].req.ID
       IN  IF peers[id] = None
           THEN /\ peers' = [peers EXCEPT ![id] = NewPeer(ops[w].req, ops[w].at)]
                /\ verdicts' = [verdicts EXCEPT ![id] = NoVerdicts]
           ELSE UNCHANGED <<peers, verdicts>>
    /\ Set(w, None)
    /\ UNCHANGED <<driver, chunks, regs, now>>

\* Mutant: the quality the SELECT found is written back.
Updated_WritesBack(row, call) ==
    [row EXCEPT !.LastSeen = call.at,
                !.TTLSeconds = OrDefault(call.req.TTLSeconds, DefaultTTL),
                !.QualityScore = call.existing.QualityScore,
                !.ValidReports = call.existing.ValidReports,
                !.InvalidReports = call.existing.InvalidReports]

\* Mutant: the login and the key of the request are written too.
Updated_Login(row, call) ==
    [row EXCEPT !.LastSeen = call.at,
                !.TTLSeconds = OrDefault(call.req.TTLSeconds, DefaultTTL),
                !.Login = call.req.Login,
                !.SignatureKey = call.req.SignatureKey]

Updated(row, call) ==
    [row EXCEPT !.LastSeen = call.at,
                !.TTLSeconds = OrDefault(call.req.TTLSeconds, DefaultTTL),
                !.PeerFlag = IF call.req.PeerFlag = "" THEN @ ELSE call.req.PeerFlag]

\* UPDATE and COMMIT; the row may have gone, or be another registration's
\* (SQLite may refuse the UPDATE then, which is Abort).
UpsertUpdate(w) ==
    /\ In(w, "upsert")
    /\ ops[w].existing # None
    /\ LET id == ops[w].req.ID
       IN  peers' = IF peers[id] = None THEN peers
                    ELSE [peers EXCEPT ![id] = Updated(@, ops[w])]
    /\ Set(w, None)
    /\ UNCHANGED <<driver, chunks, regs, now, verdicts>>

Delete(id) ==
    /\ peers[id] # None
    /\ peers' = [peers EXCEPT ![id] = None]
    /\ UNCHANGED <<driver, chunks, regs, now, ops, verdicts>>

Heartbeat(id, ttlSeconds) ==
    /\ peers[id] # None
    /\ peers' = [peers EXCEPT
                    ![id].LastSeen = now,
                    ![id].TTLSeconds = IF ttlSeconds > 0 THEN ttlSeconds ELSE @]
    /\ UNCHANGED <<driver, chunks, regs, now, ops, verdicts>>

-----------------------------------------------------------------------------
(***************************************************************************)
(* Registration of a chunk.                                                *)
(***************************************************************************)
\* The sender's row, its signature, and the clock.
RegisterSelect(w, fileID, index, senderKey, recipientKey, raw, signer, persist, ttl) ==
    /\ ops[w] = None
    /\ SignedBy(senderKey, signer)
    /\ Set(w, [op  |-> "register",
               row |-> [key         |-> chunkKey(fileID, index),
                        Hash        |-> normalizeHash(raw),
                        SenderID    |-> senderKey,
                        RecipientID |-> recipientKey,
                        Persist     |-> persist,
                        Confirmed   |-> FALSE,
                        Readed      |-> FALSE,
                        CreatedAt   |-> now,
                        UpdatedAt   |-> now,
                        TTL         |-> OrDefault(ttl, DefaultChunkTTL)]])
    /\ UNCHANGED <<driver, peers, chunks, regs, now, verdicts>>

RegisterInsert(w) ==
    /\ In(w, "register")
    /\ regs < MaxChunks
    /\ regs' = regs + 1
    /\ chunks' = [chunks EXCEPT ![regs + 1] = ops[w].row]
    /\ Set(w, None)
    /\ UNCHANGED <<driver, peers, now, verdicts>>

-----------------------------------------------------------------------------
(***************************************************************************)
(* Verdicts.                                                               *)
(***************************************************************************)
Counted(tally, valid) ==
    IF valid THEN [tally EXCEPT !.valid = tally.valid + 1]
             ELSE [tally EXCEPT !.invalid = tally.invalid + 1]

\* UPDATE peers SET quality_score = quality_score + ... of the rows ids.
UpdateQuality(ids, valid) ==
    /\ \A id \in ids : verdicts[id].valid + verdicts[id].invalid < MaxVerdicts
    /\ peers' = [id \in PeerIDs |->
                    IF id \in ids THEN Scored(peers[id], valid) ELSE peers[id]]
    /\ verdicts' = [id \in PeerIDs |->
                       IF id \in ids THEN Counted(verdicts[id], valid)
                       ELSE verdicts[id]]

ReportSelectReporter(w, source, reporter, fileID, index, raw, signer) ==
    /\ ops[w] = None
    /\ getPeerByID(reporter)
    /\ verifyPeerSignature(peers[reporter], signer)
    /\ Set(w, [op     |-> "report",
               source |-> source,
               key    |-> chunkKey(fileID, index),
               hash   |-> normalizeHash(raw)])
    /\ UNCHANGED <<driver, peers, chunks, regs, now, verdicts>>

\* Without ORDER BY any row of the chunk may come first.
ReportSelectHash(w) ==
    /\ In(w, "report")
    /\ \E c \in rowsByKey(ops[w].key) :
           Set(w, [op     |-> "score",
                   source |-> ops[w].source,
                   valid  |-> ops[w].hash = chunks[c].Hash])
    /\ UNCHANGED <<driver, peers, chunks, regs, now, verdicts>>

ReportUpdate(w) ==
    /\ In(w, "score")
    /\ UpdateQuality({id \in {ops[w].source} : peers[id] # None}, ops[w].valid)
    /\ Set(w, None)
    /\ UNCHANGED <<driver, chunks, regs, now>>

ConfirmSelectRecipient(w, recipientKey, fileID, index, raw, signer) ==
    /\ ops[w] = None
    /\ SignedBy(recipientKey, signer)
    /\ Set(w, [op        |-> "confirm",
               recipient |-> recipientKey,
               key       |-> chunkKey(fileID, index),
               hash      |-> normalizeHash(raw)])
    /\ UNCHANGED <<driver, peers, chunks, regs, now, verdicts>>

ConfirmSelectChunk(w) ==
    /\ In(w, "confirm")
    /\ \E c \in rowsByKey(ops[w].key) :
           /\ chunks[c].RecipientID = ops[w].recipient
           /\ Set(w, [op        |-> "credit",
                      recipient |-> ops[w].recipient,
                      key       |-> ops[w].key,
                      sender    |-> chunks[c].SenderID,
                      valid     |-> ops[w].hash = chunks[c].Hash])
    /\ UNCHANGED <<driver, peers, chunks, regs, now, verdicts>>

\* UPDATE peers ... WHERE key = sender: every such row, expired or not.
ConfirmScore(w) ==
    /\ In(w, "credit")
    /\ UpdateQuality({id \in PeerIDs : /\ peers[id] # None
                                       /\ Key(peers[id]) = ops[w].sender},
                     ops[w].valid)
    /\ Set(w, IF ops[w].valid
              THEN [op        |-> "mark",
                    recipient |-> ops[w].recipient,
                    key       |-> ops[w].key]
              ELSE None)
    /\ UNCHANGED <<driver, chunks, regs, now>>

\* UPDATE chunks SET confirmed = 1: every row of the chunk and recipient.
ConfirmMark(w) ==
    /\ In(w, "mark")
    /\ chunks' = [c \in Slots |->
                     IF /\ driver = "sqlite"
                        /\ c \in rowsByKey(ops[w].key)
                        /\ chunks[c].RecipientID = ops[w].recipient
                     THEN [chunks[c] EXCEPT !.Confirmed = TRUE, !.UpdatedAt = now]
                     ELSE chunks[c]]
    /\ Set(w, None)
    /\ UNCHANGED <<driver, peers, regs, now, verdicts>>

ReadSelect(w, recipientKey, fileID, signer) ==
    /\ ops[w] = None
    /\ SignedBy(recipientKey, signer)
    /\ Set(w, [op |-> "read", recipient |-> recipientKey, file |-> fileID])
    /\ UNCHANGED <<driver, peers, chunks, regs, now, verdicts>>

ReadMark(w) ==
    /\ In(w, "read")
    /\ chunks' = [c \in Slots |->
                     IF /\ driver = "sqlite"
                        /\ \E i \in Indexes : c \in rowsByKey(chunkKey(ops[w].file, i))
                        /\ chunks[c].RecipientID = ops[w].recipient
                     THEN [chunks[c] EXCEPT !.Readed = TRUE, !.UpdatedAt = now]
                     ELSE chunks[c]]
    /\ Set(w, None)
    /\ UNCHANGED <<driver, peers, regs, now, verdicts>>

-----------------------------------------------------------------------------
\* The statement fails or the context is cancelled: the call returns an error
\* and what it has done stays.
Abort(w) ==
    /\ ops[w] # None
    /\ Set(w, None)
    /\ UNCHANGED <<driver, peers, chunks, regs, now, verdicts>>

\* One statement, which uses the database's clock.  (The one on signals that
\* follows names a column the table does not have, and its error is ignored.)
DeleteExpiredChunks ==
    /\ chunks' = [c \in Slots |->
                     IF chunks[c] = None THEN None
                     ELSE IF driver = "sqlite" /\ chunkExpired(chunks[c], now) THEN None
                     ELSE chunks[c]]
    /\ UNCHANGED <<driver, peers, regs, now, ops, verdicts>>

Tick ==
    /\ now < MaxTime
    /\ now' = now + 1
    /\ UNCHANGED <<driver, peers, chunks, regs, ops, verdicts>>

-----------------------------------------------------------------------------
PeerStep(w) ==
    \/ \E req \in RegisterRequest : UpsertSelect(w, req)
    \/ UpsertInsert(w)
    \/ UpsertUpdate(w)

ChunkStep(w) ==
    \/ \E fileID \in FileIDs, index \in Indexes, signer \in SignatureKeys,
          raw \in RawHashes :
          \/ \E senderKey, recipientKey \in Keys, persist \in BOOLEAN, ttl \in TTLs :
                RegisterSelect(w, fileID, index, senderKey, recipientKey, raw,
                               signer, persist, ttl)
          \/ \E source, reporter \in PeerIDs :
                ReportSelectReporter(w, source, reporter, fileID, index, raw, signer)
          \/ \E recipientKey \in Keys :
                ConfirmSelectRecipient(w, recipientKey, fileID, index, raw, signer)
    \/ \E fileID \in FileIDs, signer \in SignatureKeys, recipientKey \in Keys :
          ReadSelect(w, recipientKey, fileID, signer)
    \/ RegisterInsert(w)
    \/ ReportSelectHash(w)
    \/ ReportUpdate(w)
    \/ ConfirmSelectChunk(w)
    \/ ConfirmScore(w)
    \/ ConfirmMark(w)
    \/ ReadMark(w)
    \/ Abort(w)

Next ==
    \/ \E w \in Workers : PeerStep(w) \/ ChunkStep(w)
    \/ \E id \in PeerIDs : Delete(id)
    \/ \E id \in PeerIDs, ttl \in TTLs : Heartbeat(id, ttl)
    \/ DeleteExpiredChunks
    \/ Tick

Spec == Init /\ [][Next]_vars

\* The cleaner goroutine calls DeleteExpiredChunks at every tick.
FairSpec == Spec /\ WF_vars(DeleteExpiredChunks)

-----------------------------------------------------------------------------
(***************************************************************************)
(* Properties.                                                             *)
(***************************************************************************)
\* Score and counters are exactly the verdicts passed since registration: no
\* interleaving of the statements of Upsert, ReportChunk and ConfirmChunk,
\* and no failure between them, loses or doubles one.
VerdictLedger ==
    \A id \in PeerIDs :
        peers[id] # None =>
            /\ peers[id].ValidReports = verdicts[id].valid
            /\ peers[id].InvalidReports = verdicts[id].invalid
            /\ peers[id].QualityScore =
                   InitialQualityScore + verdicts[id].valid
                                       - verdicts[id].invalid

\* The sender of a chunk is resolved in two ways: split into login and key
\* where its signature is checked (getPeerByKey), and by the key column where
\* it is scored (ConfirmChunk).  Joined strings collide, but for every chunk
\* that is registered, or being registered, the two mean the same peers.
SenderResolved ==
    \A id \in PeerIDs, k \in Keys :
        /\ peers[id] # None
        /\ Key(peers[id]) = k
        /\ \/ \E c \in Slots : chunks[c] # None /\ chunks[c].SenderID = k
           \/ \E w \in Workers : In(w, "register") /\ ops[w].row.SenderID = k
        => peers[id].Login = <<Head(k)>> /\ peers[id].SignatureKey = Tail(k)

\* README, on MUNINN_PURGE_INTERVAL, and TestChunkNonPersistDeleted: a chunk
\* whose TTL has run out is deleted by the cleaner.
ExpiredChunksSwept ==
    \A c \in Slots :
        (/\ chunks[c] # None
         /\ ~chunks[c].Persist
         /\ chunks[c].CreatedAt + chunks[c].TTL < now)
            ~> (chunks[c] = None)
=============================================================================
