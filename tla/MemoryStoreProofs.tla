-------------------------- MODULE MemoryStoreProofs --------------------------
(***************************************************************************)
(* Proofs about MemoryStore, for every value of its constants.             *)
(***************************************************************************)
EXTENDS MemoryStore, PeerTypesProofs, TLAPS

-----------------------------------------------------------------------------
(***************************************************************************)
(* What the helpers return.                                                *)
(***************************************************************************)
\* Upsert's record for a known id is a Peer with the old keys, mark and
\* counters.
LEMMA MergedType ==
    ASSUME NEW old \in Peer, NEW req \in RegisterRequest, NEW at \in Nat
    PROVE  /\ Merged(old, req, at) \in Peer
           /\ Merged(old, req, at).SignatureKey = old.SignatureKey
           /\ Merged(old, req, at).EncryptionKey = old.EncryptionKey
           /\ Merged(old, req, at).Fake = old.Fake
           /\ Merged(old, req, at).QualityScore = old.QualityScore
           /\ Merged(old, req, at).ValidReports = old.ValidReports
           /\ Merged(old, req, at).InvalidReports = old.InvalidReports
<1>1. OrDefault(req.TTLSeconds, DefaultTTL) \in Nat \ {0}
  BY OrDefaultType, ScalarsAssumption DEF RegisterRequest
<1> QED
  BY <1>1, ScalarsAssumption
     DEF Merged, Peer, RegisterRequest

\* Taking an id out of a slice, and what the index says afterwards.
LEMMA RemoveIDSpec ==
    ASSUME NEW index \in [Keys -> [PeerIDs -> Nat]],
           NEW key \in Keys, NEW id \in PeerIDs
    PROVE  /\ removeID(index, key, id) \in [Keys -> [PeerIDs -> Nat]]
           /\ \A k \in Keys, i \in PeerIDs :
                  removeID(index, key, id)[k][i] =
                      IF k = key /\ i = id /\ index[k][i] # 0
                      THEN index[k][i] - 1 ELSE index[k][i]
<1>1. index[key][id] \in Nat
  OBVIOUS
<1>2. CASE index[key][id] = 0
  BY <1>2 DEF removeID
<1>3. CASE index[key][id] # 0
  <2>1. removeID(index, key, id) = [index EXCEPT ![key][id] = index[key][id] - 1]
    BY <1>3 DEF removeID
  <2>2. index[key][id] - 1 \in Nat
    BY <1>1, <1>3
  <2> QED
    BY <1>3, <2>1, <2>2
<1> QED
  BY <1>2, <1>3

\* Appending an id to a slice, and what the index says afterwards.
LEMMA AppendIDSpec ==
    ASSUME NEW index \in [Keys -> [PeerIDs -> Nat]],
           NEW key \in Keys, NEW id \in PeerIDs
    PROVE  /\ appendID(index, key, id) \in [Keys -> [PeerIDs -> Nat]]
           /\ \A k \in Keys, i \in PeerIDs :
                  appendID(index, key, id)[k][i] =
                      IF k = key /\ i = id
                      THEN index[k][i] + 1 ELSE index[k][i]
<1>1. index[key][id] \in Nat
  OBVIOUS
<1> QED
  BY <1>1 DEF appendID

-----------------------------------------------------------------------------
(***************************************************************************)
(* Type correctness.                                                       *)
(***************************************************************************)
LEMMA InitType == Init => TypeOK
BY BoundsAssumption DEF Init, TypeOK, NoVerdicts, Slots

LEMMA PeerStepType == TypeOK /\ PeerStep => TypeOK'
<1> SUFFICES ASSUME TypeOK, PeerStep PROVE TypeOK'
  OBVIOUS
<1> USE DEF TypeOK
<1>1. ASSUME NEW w \in Workers, NEW req \in RegisterRequest, UpsertBegin(w, req)
      PROVE  TypeOK'
  BY <1>1 DEF UpsertBegin
<1>2. ASSUME NEW w \in Workers, UpsertInsert(w)
      PROVE  TypeOK'
  <2> DEFINE req == upserts[w].req
             peer == NewPeer(req, upserts[w].at)
  <2>1. req \in RegisterRequest /\ upserts[w].at \in Nat
    BY <1>2 DEF UpsertInsert
  <2>2. peer \in Peer /\ req.ID \in PeerIDs
    BY <2>1, NewPeerType DEF RegisterRequest
  <2>3. Key(peer) \in Keys
    BY <2>2, KeyType
  <2>4. logins' \in [Keys -> [PeerIDs -> Nat]]
    <3>1. logins' = appendID(logins, Key(peer), req.ID)
      BY <1>2 DEF UpsertInsert
    <3> HIDE DEF peer, req
    <3> QED
      BY <3>1, <2>2, <2>3, AppendIDSpec
  <2>5. peers' = [peers EXCEPT ![req.ID] = peer]
    BY <1>2 DEF UpsertInsert
  <2>6. verdicts' = [verdicts EXCEPT ![req.ID] = NoVerdicts]
    BY <1>2 DEF UpsertInsert
  <2>7. upserts' = [upserts EXCEPT ![w] = None] /\ UNCHANGED <<chunks, regs, now, cleaner>>
    BY <1>2 DEF UpsertInsert
  <2> HIDE DEF peer, req
  <2> QED
    BY <2>2, <2>4, <2>5, <2>6, <2>7 DEF NoVerdicts
<1>3. ASSUME NEW w \in Workers, UpsertMerge(w)
      PROVE  TypeOK'
  <2> DEFINE req == upserts[w].req
             old == peers[req.ID]
             peer == Merged(old, req, upserts[w].at)
  <2>1. req \in RegisterRequest /\ upserts[w].at \in Nat
    BY <1>3 DEF UpsertMerge
  <2>2. req.ID \in PeerIDs
    BY <2>1 DEF RegisterRequest
  <2>3. old \in Peer
    BY <1>3, <2>2 DEF UpsertMerge
  <2>4. peer \in Peer
    BY <2>1, <2>3, MergedType
  <2>5. Key(peer) \in Keys /\ Key(old) \in Keys
    BY <2>3, <2>4, KeyType
  <2>6. /\ logins' = appendID(removeID(logins, Key(old), req.ID), Key(peer), req.ID)
        /\ peers' = [peers EXCEPT ![req.ID] = peer]
        /\ upserts' = [upserts EXCEPT ![w] = None]
        /\ UNCHANGED <<chunks, regs, now, cleaner, verdicts>>
    BY <1>3 DEF UpsertMerge
  <2> HIDE DEF peer, old, req
  <2>7. removeID(logins, Key(old), req.ID) \in [Keys -> [PeerIDs -> Nat]]
    BY <2>2, <2>5, RemoveIDSpec
  <2>8. logins' \in [Keys -> [PeerIDs -> Nat]]
    BY <2>2, <2>5, <2>6, <2>7, AppendIDSpec
  <2> QED
    BY <2>2, <2>4, <2>6, <2>8
<1>4. ASSUME NEW id \in PeerIDs, Delete(id)
      PROVE  TypeOK'
  <2>1. Key(peers[id]) \in Keys
    BY <1>4, KeyType DEF Delete
  <2>2. logins' \in [Keys -> [PeerIDs -> Nat]]
    BY <1>4, <2>1, RemoveIDSpec DEF Delete
  <2> QED
    BY <1>4, <2>2 DEF Delete
<1>5. ASSUME NEW id \in PeerIDs, NEW ttl \in TTLs, Heartbeat(id, ttl)
      PROVE  TypeOK'
  <2>1. peers[id] \in Peer
    BY <1>5 DEF Heartbeat
  <2>2. peers'[id] \in Peer
    <3>1. PICK t \in Nat \ {0} :
              t = IF ttl > 0 THEN ttl ELSE peers[id].TTLSeconds
      BY <2>1, ScalarsAssumption DEF Peer
    <3>2. peers'[id] = [peers[id] EXCEPT !.TTLSeconds = t, !.LastSeen = now]
      BY <1>5, <3>1 DEF Heartbeat
    <3> QED
      BY <2>1, <3>2 DEF Peer
  <2>3. peers' \in [PeerIDs -> Peer \cup {None}]
    BY <1>5, <2>2 DEF Heartbeat
  <2> QED
    BY <1>5, <2>3 DEF Heartbeat
<1> QED
  BY <1>1, <1>2, <1>3, <1>4, <1>5 DEF PeerStep

\* A verdict: the tables keep their types, nobody appears or disappears, no
\* identity changes, and the ledger stays balanced.
LEMMA JudgeSpec ==
    ASSUME TypeOK, NEW id \in PeerIDs, peers[id] # None,
           NEW valid \in BOOLEAN, Judge(id, valid)
    PROVE  /\ peers' \in [PeerIDs -> Peer \cup {None}]
           /\ verdicts' \in [PeerIDs -> [valid : Nat, invalid : Nat]]
           /\ \A i \in PeerIDs : peers[i] = None <=> peers'[i] = None
           /\ \A i \in PeerIDs : peers[i] # None =>
                  /\ peers'[i].Login = peers[i].Login
                  /\ peers'[i].SignatureKey = peers[i].SignatureKey
                  /\ peers'[i].EncryptionKey = peers[i].EncryptionKey
                  /\ peers'[i].Fake = peers[i].Fake
           /\ VerdictLedger => VerdictLedger'
<1> DEFINE p == peers[id]
           new == Scored(p, valid)
           v == verdicts[id]
           vnew == [valid   |-> v.valid + (IF valid THEN 1 ELSE 0),
                    invalid |-> v.invalid + (IF valid THEN 0 ELSE 1)]
<1>1. p \in Peer /\ v \in [valid : Nat, invalid : Nat]
  BY DEF TypeOK
<1>2. /\ new \in Peer
      /\ new.Login = p.Login
      /\ new.SignatureKey = p.SignatureKey
      /\ new.EncryptionKey = p.EncryptionKey
      /\ new.Fake = p.Fake
      /\ new.QualityScore = p.QualityScore + (IF valid THEN 1 ELSE -1)
      /\ new.ValidReports = p.ValidReports + (IF valid THEN 1 ELSE 0)
      /\ new.InvalidReports = p.InvalidReports + (IF valid THEN 0 ELSE 1)
  BY <1>1, ScoredType
<1>3. new # None
  BY <1>2, NoneAssumption
<1>4. peers' = [peers EXCEPT ![id] = new]
  BY DEF Judge
<1>5. verdicts' = [verdicts EXCEPT ![id] = vnew] /\ vnew \in [valid : Nat, invalid : Nat]
  <2>1. CASE valid
    <3>1. verdicts' = [verdicts EXCEPT ![id] = [v EXCEPT !.valid = v.valid + 1]]
      BY <2>1 DEF Judge, Counted
    <3>2. vnew = [valid |-> v.valid + 1, invalid |-> v.invalid + 0]
      BY <2>1
    <3>3. vnew = [v EXCEPT !.valid = v.valid + 1] /\ vnew \in [valid : Nat, invalid : Nat]
      BY <1>1, <3>2
    <3> QED
      BY <3>1, <3>3
  <2>2. CASE ~valid
    <3>1. verdicts' = [verdicts EXCEPT ![id] = [v EXCEPT !.invalid = v.invalid + 1]]
      BY <2>2 DEF Judge, Counted
    <3>2. vnew = [valid |-> v.valid + 0, invalid |-> v.invalid + 1]
      BY <2>2
    <3>3. vnew = [v EXCEPT !.invalid = v.invalid + 1] /\ vnew \in [valid : Nat, invalid : Nat]
      BY <1>1, <3>2
    <3> QED
      BY <3>1, <3>3
  <2> QED
    BY <2>1, <2>2
<1>6. VerdictLedger => VerdictLedger'
  <2> SUFFICES ASSUME VerdictLedger, NEW i \in PeerIDs, peers'[i] # None
               PROVE  /\ peers'[i].ValidReports = verdicts'[i].valid
                      /\ peers'[i].InvalidReports = verdicts'[i].invalid
                      /\ peers'[i].QualityScore =
                             InitialQualityScore + verdicts'[i].valid
                                                 - verdicts'[i].invalid
    BY DEF VerdictLedger
  <2>1. CASE i = id
    <3>1. peers'[i] = new /\ verdicts'[i] = vnew
      BY <2>1, <1>4, <1>5 DEF TypeOK
    <3>2. /\ p.ValidReports = v.valid
          /\ p.InvalidReports = v.invalid
          /\ p.QualityScore = InitialQualityScore + v.valid - v.invalid
      BY DEF VerdictLedger
    <3>3. v.valid \in Nat /\ v.invalid \in Nat /\ InitialQualityScore \in Nat
      BY <1>1 DEF InitialQualityScore
    <3>4. CASE valid
      <4>1. /\ new.QualityScore = p.QualityScore + 1
            /\ new.ValidReports = p.ValidReports + 1
            /\ new.InvalidReports = p.InvalidReports + 0
            /\ vnew.valid = v.valid + 1
            /\ vnew.invalid = v.invalid + 0
        BY <1>2, <3>4
      <4> HIDE DEF p, new, v, vnew
      <4> QED
        BY <3>1, <3>2, <3>3, <4>1
    <3>5. CASE ~valid
      <4>1. /\ new.QualityScore = p.QualityScore + (-1)
            /\ new.ValidReports = p.ValidReports + 0
            /\ new.InvalidReports = p.InvalidReports + 1
            /\ vnew.valid = v.valid + 0
            /\ vnew.invalid = v.invalid + 1
        BY <1>2, <3>5
      <4> HIDE DEF p, new, v, vnew
      <4> QED
        BY <3>1, <3>2, <3>3, <4>1
    <3> QED
      BY <3>4, <3>5
  <2>2. CASE i # id
    <3>1. peers'[i] = peers[i] /\ verdicts'[i] = verdicts[i]
      BY <2>2, <1>4, <1>5 DEF TypeOK
    <3> QED
      BY <3>1 DEF VerdictLedger
  <2> QED
    BY <2>1, <2>2
<1> HIDE DEF new, vnew
<1>7. peers' \in [PeerIDs -> Peer \cup {None}]
  BY <1>2, <1>4 DEF TypeOK
<1>8. verdicts' \in [PeerIDs -> [valid : Nat, invalid : Nat]]
  BY <1>5 DEF TypeOK
<1>9. \A i \in PeerIDs : /\ i = id => peers'[i] = new
                         /\ i # id => peers'[i] = peers[i]
  BY <1>4 DEF TypeOK
<1> QED
  BY <1>2, <1>3, <1>6, <1>7, <1>8, <1>9

\* The two in-place updates of a chunk, by ConfirmChunk and ReadChunk.
LEMMA ChunkUpdateType ==
    ASSUME NEW chunk \in Chunk, NEW time \in Nat
    PROVE  MarkConfirmed(chunk, time) \in Chunk /\ MarkReaded(chunk, time) \in Chunk
BY DEF Chunk, MarkConfirmed, MarkReaded

LEMMA ChunkStepType == TypeOK /\ ChunkStep => TypeOK'
<1> SUFFICES ASSUME TypeOK,
                    NEW fileID \in FileIDs, NEW index \in Indexes,
                    NEW signer \in SignatureKeys,
                    \/ \E senderKey, recipientKey \in Keys, raw \in RawHashes,
                          persist \in BOOLEAN, ttl \in TTLs :
                          SetChunkHash(fileID, index, senderKey, recipientKey,
                                       raw, signer, persist, ttl)
                    \/ \E source, reporter \in PeerIDs, raw \in RawHashes :
                          ReportChunk(source, reporter, fileID, index, raw, signer)
                    \/ \E recipientKey \in Keys, raw \in RawHashes :
                          ConfirmChunk(recipientKey, fileID, index, raw, signer)
                    \/ \E recipientKey \in Keys :
                          ReadChunk(recipientKey, fileID, signer)
             PROVE  TypeOK'
  BY DEF ChunkStep
<1>1. ASSUME NEW senderKey \in Keys, NEW recipientKey \in Keys,
             NEW raw \in RawHashes, NEW persist \in BOOLEAN, NEW ttl \in TTLs,
             SetChunkHash(fileID, index, senderKey, recipientKey, raw, signer,
                          persist, ttl)
      PROVE  TypeOK'
  <2>1. OrDefault(ttl, DefaultChunkTTL) \in Nat \ {0}
    BY OrDefaultType, ScalarsAssumption
  <2>2. chunkKey(fileID, index) \in ChunkKeys /\ normalizeHash(raw) \in Hashes
    BY DEF ChunkKeys, RawHashes, normalizeHash
  <2>3. PICK chunk \in Chunk : chunks' = [chunks EXCEPT ![regs + 1] = chunk]
    BY <1>1, <2>1, <2>2 DEF SetChunkHash, Chunk, TypeOK
  <2>4. chunks' \in [Slots -> Chunk \cup {None}]
    BY <2>3 DEF TypeOK
  <2>5. regs' \in 0 .. MaxChunks
    BY <1>1, BoundsAssumption DEF SetChunkHash, TypeOK
  <2> QED
    BY <1>1, <2>4, <2>5 DEF SetChunkHash, TypeOK
<1>2. ASSUME NEW source \in PeerIDs, NEW reporter \in PeerIDs, NEW raw \in RawHashes,
             ReportChunk(source, reporter, fileID, index, raw, signer)
      PROVE  TypeOK'
  <2>1. PICK valid \in BOOLEAN : Judge(source, valid)
    BY <1>2 DEF ReportChunk
  <2>2. /\ peers' \in [PeerIDs -> Peer \cup {None}]
        /\ verdicts' \in [PeerIDs -> [valid : Nat, invalid : Nat]]
    BY <1>2, <2>1, JudgeSpec DEF ReportChunk
  <2> QED
    BY <1>2, <2>2 DEF ReportChunk, TypeOK
<1>3. ASSUME NEW recipientKey \in Keys, NEW raw \in RawHashes,
             ConfirmChunk(recipientKey, fileID, index, raw, signer)
      PROVE  TypeOK'
  <2>1. PICK c \in entriesFor(chunkKey(fileID, index), recipientKey),
             sender \in PeerIDs, valid \in BOOLEAN :
                 /\ sender \in peerByKey(chunks[c].SenderID)
                 /\ Judge(sender, valid)
                 /\ chunks' = IF valid
                              THEN [chunks EXCEPT ![c] = MarkConfirmed(chunks[c], now)]
                              ELSE chunks
    BY <1>3 DEF ConfirmChunk, peerByKey
  <2>2. c \in Slots /\ chunks[c] \in Chunk /\ now \in Nat
    BY <2>1 DEF entriesFor, isFor, hasKey, TypeOK
  <2>3. sender \in PeerIDs /\ peers[sender] # None
    BY <2>1 DEF peerByKey
  <2>4. /\ peers' \in [PeerIDs -> Peer \cup {None}]
        /\ verdicts' \in [PeerIDs -> [valid : Nat, invalid : Nat]]
    BY <2>1, <2>3, JudgeSpec
  <2>5. PICK chunk \in Chunk : chunk = MarkConfirmed(chunks[c], now)
    BY <2>2, ChunkUpdateType
  <2>6. chunks' = chunks \/ chunks' = [chunks EXCEPT ![c] = chunk]
    BY <2>1, <2>5
  <2>7. chunks' \in [Slots -> Chunk \cup {None}]
    BY <2>2, <2>6 DEF TypeOK
  <2> QED
    BY <1>3, <2>4, <2>7 DEF ConfirmChunk, TypeOK
<1>4. ASSUME NEW recipientKey \in Keys, ReadChunk(recipientKey, fileID, signer)
      PROVE  TypeOK'
  <2>1. ASSUME NEW c \in readTargets(fileID, recipientKey)
        PROVE  MarkReaded(chunks[c], now) \in Chunk
    BY ChunkUpdateType DEF readTargets, TypeOK
  <2>2. chunks' \in [Slots -> Chunk \cup {None}]
    BY <1>4, <2>1 DEF ReadChunk, TypeOK
  <2> QED
    BY <1>4, <2>2 DEF ReadChunk, TypeOK
<1> QED
  BY <1>1, <1>2, <1>3, <1>4

LEMMA NextType == TypeOK /\ [Next]_vars => TypeOK'
<1> SUFFICES ASSUME TypeOK, [Next]_vars PROVE TypeOK'
  OBVIOUS
<1>1. CASE PeerStep
  BY <1>1, PeerStepType
<1>2. CASE ChunkStep
  BY <1>2, ChunkStepType
<1>3. CASE CleanerTick
  BY <1>3 DEF CleanerTick, TypeOK
<1>4. CASE DeleteExpiredChunks
  BY <1>4 DEF DeleteExpiredChunks, TypeOK
<1>5. CASE Tick
  BY <1>5 DEF Tick, TypeOK
<1>6. CASE UNCHANGED vars
  BY <1>6 DEF vars, TypeOK
<1> QED
  BY <1>1, <1>2, <1>3, <1>4, <1>5, <1>6 DEF Next

\* Every reachable state of the store is well typed; in particular no stored
\* TTL is zero or negative, whatever a request carried.
THEOREM TypeCorrect == Spec => []TypeOK
BY InitType, NextType, PTL DEF Spec

-----------------------------------------------------------------------------
(***************************************************************************)
(* What a step may do to the peers and their index.                        *)
(***************************************************************************)
LEMMA PeersChange ==
    ASSUME [Next]_vars
    PROVE  \/ UNCHANGED <<peers, logins, verdicts>>
           \/ \E w \in Workers : UpsertInsert(w)
           \/ \E w \in Workers : UpsertMerge(w)
           \/ \E id \in PeerIDs : Delete(id)
           \/ \E id \in PeerIDs, ttl \in TTLs : Heartbeat(id, ttl)
           \/ \E id \in PeerIDs, valid \in BOOLEAN :
                  peers[id] # None /\ Judge(id, valid) /\ UNCHANGED logins
<1>1. CASE PeerStep
  BY <1>1 DEF PeerStep, UpsertBegin
<1>2. CASE ChunkStep
  <2> SUFFICES ASSUME NEW fileID \in FileIDs, NEW index \in Indexes,
                      NEW signer \in SignatureKeys
               PROVE  /\ \A senderKey, recipientKey \in Keys, raw \in RawHashes,
                            persist \in BOOLEAN, ttl \in TTLs :
                            SetChunkHash(fileID, index, senderKey, recipientKey,
                                         raw, signer, persist, ttl)
                            => UNCHANGED <<peers, logins, verdicts>>
                      /\ \A source, reporter \in PeerIDs, raw \in RawHashes :
                            ReportChunk(source, reporter, fileID, index, raw, signer)
                            => \E id \in PeerIDs, valid \in BOOLEAN :
                                 peers[id] # None /\ Judge(id, valid) /\ UNCHANGED logins
                      /\ \A recipientKey \in Keys, raw \in RawHashes :
                            ConfirmChunk(recipientKey, fileID, index, raw, signer)
                            => \E id \in PeerIDs, valid \in BOOLEAN :
                                 peers[id] # None /\ Judge(id, valid) /\ UNCHANGED logins
                      /\ \A recipientKey \in Keys :
                            ReadChunk(recipientKey, fileID, signer)
                            => UNCHANGED <<peers, logins, verdicts>>
    BY <1>2 DEF ChunkStep
  <2>1. ASSUME NEW source \in PeerIDs, NEW reporter \in PeerIDs, NEW raw \in RawHashes,
               ReportChunk(source, reporter, fileID, index, raw, signer)
        PROVE  \E id \in PeerIDs, valid \in BOOLEAN :
                   peers[id] # None /\ Judge(id, valid) /\ UNCHANGED logins
    BY <2>1 DEF ReportChunk
  <2>2. ASSUME NEW recipientKey \in Keys, NEW raw \in RawHashes,
               ConfirmChunk(recipientKey, fileID, index, raw, signer)
        PROVE  \E id \in PeerIDs, valid \in BOOLEAN :
                   peers[id] # None /\ Judge(id, valid) /\ UNCHANGED logins
    BY <2>2 DEF ConfirmChunk, peerByKey
  <2> QED
    BY <2>1, <2>2 DEF SetChunkHash, ReadChunk
<1>3. CASE CleanerTick \/ DeleteExpiredChunks \/ Tick \/ UNCHANGED vars
  BY <1>3 DEF CleanerTick, DeleteExpiredChunks, Tick, vars
<1> QED
  BY <1>1, <1>2, <1>3 DEF Next

\* What the critical sections of Upsert write.
LEMMA UpsertInsertSpec ==
    ASSUME TypeOK, NEW w \in Workers, UpsertInsert(w)
    PROVE  \E id \in PeerIDs, peer \in Peer :
               /\ peers[id] = None
               /\ peers' = [peers EXCEPT ![id] = peer]
               /\ logins' = appendID(logins, Key(peer), id)
               /\ verdicts' = [verdicts EXCEPT ![id] = NoVerdicts]
               /\ peer.QualityScore = InitialQualityScore
               /\ peer.ValidReports = 0
               /\ peer.InvalidReports = 0
<1> DEFINE req == upserts[w].req
           new == NewPeer(req, upserts[w].at)
<1>1. req \in RegisterRequest /\ upserts[w].at \in Nat
  BY DEF UpsertInsert, TypeOK
<1>2. req.ID \in PeerIDs /\ new \in Peer
  BY <1>1, NewPeerType DEF RegisterRequest
<1>3. /\ new.QualityScore = InitialQualityScore
      /\ new.ValidReports = 0
      /\ new.InvalidReports = 0
  BY DEF NewPeer
<1>4. /\ peers[req.ID] = None
      /\ peers' = [peers EXCEPT ![req.ID] = new]
      /\ logins' = appendID(logins, Key(new), req.ID)
      /\ verdicts' = [verdicts EXCEPT ![req.ID] = NoVerdicts]
  BY DEF UpsertInsert
<1> HIDE DEF req, new
<1> QED
  BY <1>2, <1>3, <1>4

LEMMA UpsertMergeSpec ==
    ASSUME TypeOK, NEW w \in Workers, UpsertMerge(w)
    PROVE  \E id \in PeerIDs, peer \in Peer :
               /\ peers[id] \in Peer
               /\ peers' = [peers EXCEPT ![id] = peer]
               /\ logins' = appendID(removeID(logins, Key(peers[id]), id), Key(peer), id)
               /\ verdicts' = verdicts
               /\ peer.SignatureKey = peers[id].SignatureKey
               /\ peer.EncryptionKey = peers[id].EncryptionKey
               /\ peer.Fake = peers[id].Fake
               /\ peer.QualityScore = peers[id].QualityScore
               /\ peer.ValidReports = peers[id].ValidReports
               /\ peer.InvalidReports = peers[id].InvalidReports
<1> DEFINE req == upserts[w].req
           new == Merged(peers[req.ID], req, upserts[w].at)
<1>1. req \in RegisterRequest /\ upserts[w].at \in Nat
  BY DEF UpsertMerge, TypeOK
<1>2. req.ID \in PeerIDs
  BY <1>1 DEF RegisterRequest
<1>3. peers[req.ID] \in Peer
  BY <1>2 DEF UpsertMerge, TypeOK
<1>4. /\ new \in Peer
      /\ new.SignatureKey = peers[req.ID].SignatureKey
      /\ new.EncryptionKey = peers[req.ID].EncryptionKey
      /\ new.Fake = peers[req.ID].Fake
      /\ new.QualityScore = peers[req.ID].QualityScore
      /\ new.ValidReports = peers[req.ID].ValidReports
      /\ new.InvalidReports = peers[req.ID].InvalidReports
  BY <1>1, <1>3, MergedType
<1>5. /\ peers' = [peers EXCEPT ![req.ID] = new]
      /\ logins' = appendID(removeID(logins, Key(peers[req.ID]), req.ID), Key(new), req.ID)
      /\ verdicts' = verdicts
  BY DEF UpsertMerge
<1> HIDE DEF req, new
<1> QED
  BY <1>2, <1>3, <1>4, <1>5

LEMMA HeartbeatSpec ==
    ASSUME TypeOK, NEW id \in PeerIDs, NEW ttl \in TTLs, Heartbeat(id, ttl)
    PROVE  \E peer \in Peer :
               /\ peers[id] \in Peer
               /\ peers' = [peers EXCEPT ![id] = peer]
               /\ logins' = logins /\ verdicts' = verdicts
               /\ Key(peer) = Key(peers[id])
               /\ peer.SignatureKey = peers[id].SignatureKey
               /\ peer.EncryptionKey = peers[id].EncryptionKey
               /\ peer.Fake = peers[id].Fake
               /\ peer.QualityScore = peers[id].QualityScore
               /\ peer.ValidReports = peers[id].ValidReports
               /\ peer.InvalidReports = peers[id].InvalidReports
<1>1. peers[id] \in Peer /\ now \in Nat
  BY DEF Heartbeat, TypeOK
<1>2. PICK t \in Nat \ {0} : t = IF ttl > 0 THEN ttl ELSE peers[id].TTLSeconds
  BY <1>1, ScalarsAssumption DEF Peer
<1> DEFINE new == [peers[id] EXCEPT !.TTLSeconds = t, !.LastSeen = now]
<1>3. peers' = [peers EXCEPT ![id] = new] /\ logins' = logins /\ verdicts' = verdicts
  BY <1>2 DEF Heartbeat
<1>4. new \in Peer
  BY <1>1, <1>2 DEF Peer
<1>5. /\ new.Login = peers[id].Login
      /\ new.SignatureKey = peers[id].SignatureKey
      /\ new.EncryptionKey = peers[id].EncryptionKey
      /\ new.Fake = peers[id].Fake
  BY <1>1 DEF Peer
<1>6. /\ new.QualityScore = peers[id].QualityScore
      /\ new.ValidReports = peers[id].ValidReports
      /\ new.InvalidReports = peers[id].InvalidReports
  BY <1>1 DEF Peer
<1>7. Key(new) = Key(peers[id])
  BY <1>5 DEF Key
<1> HIDE DEF new
<1> QED
  BY <1>1, <1>3, <1>4, <1>5, <1>6, <1>7

-----------------------------------------------------------------------------
(***************************************************************************)
(* The index.  IndexConsistent is inductive; LookupExact is what it means  *)
(* for a lookup.                                                           *)
(***************************************************************************)
LEMMA NextIndex == TypeOK /\ IndexConsistent /\ [Next]_vars => IndexConsistent'
<1> SUFFICES ASSUME TypeOK, IndexConsistent, [Next]_vars PROVE IndexConsistent'
  OBVIOUS
<1> DEFINE Entry(p, k) == IF p = None THEN 0 ELSE IF Key(p) = k THEN 1 ELSE 0
<1>0. \A k \in Keys, i \in PeerIDs : logins[k][i] = Entry(peers[i], k)
  BY DEF IndexConsistent
<1>t. logins \in [Keys -> [PeerIDs -> Nat]] /\ peers \in [PeerIDs -> Peer \cup {None}]
  BY DEF TypeOK
<1>g. ASSUME \A k \in Keys, i \in PeerIDs : logins'[k][i] = Entry(peers'[i], k)
      PROVE  IndexConsistent'
  BY <1>g DEF IndexConsistent
<1>1. CASE UNCHANGED <<peers, logins, verdicts>>
  BY <1>1, <1>0, <1>g
<1>2. ASSUME NEW w \in Workers, UpsertInsert(w) PROVE IndexConsistent'
  <2>1. PICK id \in PeerIDs, peer \in Peer :
            /\ peers[id] = None
            /\ peers' = [peers EXCEPT ![id] = peer]
            /\ logins' = appendID(logins, Key(peer), id)
    BY <1>2, UpsertInsertSpec
  <2>2. Key(peer) \in Keys /\ peer # None
    BY KeyType, NoneAssumption
  <2>3. \A k \in Keys, i \in PeerIDs :
            logins'[k][i] = IF k = Key(peer) /\ i = id
                            THEN logins[k][i] + 1 ELSE logins[k][i]
    BY <1>t, <2>1, <2>2, AppendIDSpec
  <2>4. \A i \in PeerIDs : peers'[i] = IF i = id THEN peer ELSE peers[i]
    BY <1>t, <2>1
  <2>5. ASSUME NEW k \in Keys, NEW i \in PeerIDs
        PROVE  logins'[k][i] = Entry(peers'[i], k)
    BY <1>0, <2>1, <2>2, <2>3, <2>4
  <2> QED
    BY <1>g, <2>5
<1>3. ASSUME NEW w \in Workers, UpsertMerge(w) PROVE IndexConsistent'
  <2>1. PICK id \in PeerIDs, peer \in Peer :
            /\ peers[id] \in Peer
            /\ peers' = [peers EXCEPT ![id] = peer]
            /\ logins' = appendID(removeID(logins, Key(peers[id]), id), Key(peer), id)
    BY <1>3, UpsertMergeSpec
  <2> DEFINE mid == removeID(logins, Key(peers[id]), id)
  <2>2. Key(peer) \in Keys /\ Key(peers[id]) \in Keys /\ peer # None /\ peers[id] # None
    BY <2>1, KeyType, NoneAssumption
  <2>3. /\ mid \in [Keys -> [PeerIDs -> Nat]]
        /\ \A k \in Keys, i \in PeerIDs :
               mid[k][i] = IF k = Key(peers[id]) /\ i = id /\ logins[k][i] # 0
                           THEN logins[k][i] - 1 ELSE logins[k][i]
    BY <1>t, <2>2, RemoveIDSpec
  <2>m. logins' = appendID(mid, Key(peer), id) /\ mid \in [Keys -> [PeerIDs -> Nat]]
    BY <2>1, <2>3
  <2>k. Key(peer) \in Keys
    BY <2>2
  <2> HIDE DEF mid
  <2>4. \A k \in Keys, i \in PeerIDs :
            logins'[k][i] = IF k = Key(peer) /\ i = id
                            THEN mid[k][i] + 1 ELSE mid[k][i]
    <3>1. \A k \in Keys, i \in PeerIDs :
              appendID(mid, Key(peer), id)[k][i] =
                  IF k = Key(peer) /\ i = id THEN mid[k][i] + 1 ELSE mid[k][i]
      BY <2>m, <2>k, AppendIDSpec
    <3> QED
      BY <2>m, <3>1
  <2>5. \A i \in PeerIDs : peers'[i] = IF i = id THEN peer ELSE peers[i]
    BY <1>t, <2>1
  <2>6. \A k \in Keys : mid[k][id] = 0
    BY <1>0, <2>2, <2>3
  <2>7. ASSUME NEW k \in Keys, NEW i \in PeerIDs
        PROVE  logins'[k][i] = Entry(peers'[i], k)
    <3>1. CASE i = id
      BY <3>1, <2>2, <2>4, <2>5, <2>6
    <3>2. CASE i # id
      BY <3>2, <1>0, <2>3, <2>4, <2>5
    <3> QED
      BY <3>1, <3>2
  <2> QED
    BY <1>g, <2>7
<1>4. ASSUME NEW id \in PeerIDs, Delete(id) PROVE IndexConsistent'
  <2>1. /\ peers[id] \in Peer
        /\ peers' = [peers EXCEPT ![id] = None]
        /\ logins' = removeID(logins, Key(peers[id]), id)
    BY <1>t, <1>4 DEF Delete
  <2>2. Key(peers[id]) \in Keys /\ peers[id] # None
    BY <2>1, KeyType, NoneAssumption
  <2>3. \A k \in Keys, i \in PeerIDs :
            logins'[k][i] = IF k = Key(peers[id]) /\ i = id /\ logins[k][i] # 0
                            THEN logins[k][i] - 1 ELSE logins[k][i]
    BY <1>t, <2>1, <2>2, RemoveIDSpec
  <2>4. \A i \in PeerIDs : peers'[i] = IF i = id THEN None ELSE peers[i]
    BY <1>t, <2>1
  <2>5. ASSUME NEW k \in Keys, NEW i \in PeerIDs
        PROVE  logins'[k][i] = Entry(peers'[i], k)
    BY <1>0, <2>2, <2>3, <2>4
  <2> QED
    BY <1>g, <2>5
<1>5. ASSUME NEW id \in PeerIDs, NEW ttl \in TTLs, Heartbeat(id, ttl)
      PROVE  IndexConsistent'
  <2>1. PICK peer \in Peer : /\ peers[id] \in Peer
                             /\ peers' = [peers EXCEPT ![id] = peer]
                             /\ logins' = logins
                             /\ Key(peer) = Key(peers[id])
    BY <1>5, HeartbeatSpec
  <2>2. peer # None /\ peers[id] # None
    BY <2>1, NoneAssumption
  <2>3. \A i \in PeerIDs : peers'[i] = IF i = id THEN peer ELSE peers[i]
    BY <1>t, <2>1
  <2>4. ASSUME NEW k \in Keys, NEW i \in PeerIDs
        PROVE  logins'[k][i] = Entry(peers'[i], k)
    BY <1>0, <2>1, <2>2, <2>3
  <2> QED
    BY <1>g, <2>4
<1>6. ASSUME NEW id \in PeerIDs, NEW valid \in BOOLEAN,
             peers[id] # None, Judge(id, valid), UNCHANGED logins
      PROVE  IndexConsistent'
  <2>1. /\ \A i \in PeerIDs : peers[i] = None <=> peers'[i] = None
        /\ \A i \in PeerIDs : peers[i] # None => Key(peers'[i]) = Key(peers[i])
    BY <1>6, JudgeSpec DEF Key
  <2>2. ASSUME NEW k \in Keys, NEW i \in PeerIDs
        PROVE  logins'[k][i] = Entry(peers'[i], k)
    BY <1>0, <1>6, <2>1
  <2> QED
    BY <1>g, <2>2
<1> QED
  BY <1>1, <1>2, <1>3, <1>4, <1>5, <1>6, PeersChange

\* GetByKey, through the index, finds exactly the peers that peerByKey finds
\* in the table, each once, in every reachable state.
THEOREM LookupCorrect == Spec => []LookupExact
<1>1. Init => IndexConsistent
  <2> SUFFICES ASSUME Init, NEW k \in Keys, NEW id \in PeerIDs
               PROVE  peers[id] = None /\ logins[k][id] = 0
    BY DEF IndexConsistent
  <2>1. logins[k] = [i \in PeerIDs |-> 0]
    BY DEF Init
  <2> QED
    BY <2>1 DEF Init
<1>2. IndexConsistent => LookupExact
  <2> SUFFICES ASSUME IndexConsistent,
                      NEW l \in Logins \ {Blank}, NEW s \in SignatureKeys \ {Blank},
                      NEW id \in PeerIDs
               PROVE  GetByKey(l, s)[id] =
                          IF id \in peerByKey(KeyString(l, s)) THEN 1 ELSE 0
    BY DEF LookupExact
  <2>1. KeyString(l, s) \in Keys
    BY DEF Keys
  <2>2. logins[KeyString(l, s)][id] =
            IF peers[id] = None THEN 0
            ELSE IF Key(peers[id]) = KeyString(l, s) THEN 1 ELSE 0
    BY <2>1 DEF IndexConsistent
  <2> QED
    BY <2>2 DEF GetByKey, peerByKey
<1> QED
  BY <1>1, <1>2, TypeCorrect, NextIndex, PTL DEF Spec

-----------------------------------------------------------------------------
(***************************************************************************)
(* Verdicts and identities.                                                *)
(***************************************************************************)
\* No call loses or invents a verdict on a registered peer.
THEOREM VerdictsCorrect == Spec => []VerdictLedger
<1>1. Init => VerdictLedger
  BY DEF Init, VerdictLedger
<1>2. TypeOK /\ VerdictLedger /\ [Next]_vars => VerdictLedger'
  <2> SUFFICES ASSUME TypeOK, VerdictLedger, [Next]_vars PROVE VerdictLedger'
    OBVIOUS
  <2> DEFINE Balanced(p, v) ==
                 p # None => /\ p.ValidReports = v.valid
                             /\ p.InvalidReports = v.invalid
                             /\ p.QualityScore =
                                    InitialQualityScore + v.valid - v.invalid
  <2>0. \A i \in PeerIDs : Balanced(peers[i], verdicts[i])
    BY DEF VerdictLedger
  <2>g. ASSUME \A i \in PeerIDs : Balanced(peers'[i], verdicts'[i])
        PROVE  VerdictLedger'
    BY <2>g DEF VerdictLedger
  <2>t. /\ peers \in [PeerIDs -> Peer \cup {None}]
        /\ verdicts \in [PeerIDs -> [valid : Nat, invalid : Nat]]
    BY DEF TypeOK
  <2>1. CASE UNCHANGED <<peers, logins, verdicts>>
    BY <2>1, <2>0, <2>g
  <2>2. ASSUME NEW w \in Workers, UpsertInsert(w) PROVE VerdictLedger'
    <3>1. PICK id \in PeerIDs, peer \in Peer :
              /\ peers' = [peers EXCEPT ![id] = peer]
              /\ verdicts' = [verdicts EXCEPT ![id] = NoVerdicts]
              /\ peer.QualityScore = InitialQualityScore
              /\ peer.ValidReports = 0
              /\ peer.InvalidReports = 0
      BY <2>2, UpsertInsertSpec
    <3>2. Balanced(peer, NoVerdicts)
      BY <3>1 DEF NoVerdicts, InitialQualityScore
    <3> HIDE DEF Balanced
    <3> QED
      BY <2>0, <2>g, <2>t, <3>1, <3>2
  <2>3. ASSUME NEW w \in Workers, UpsertMerge(w) PROVE VerdictLedger'
    <3>1. PICK id \in PeerIDs, peer \in Peer :
              /\ peers[id] \in Peer
              /\ peers' = [peers EXCEPT ![id] = peer]
              /\ verdicts' = verdicts
              /\ peer.QualityScore = peers[id].QualityScore
              /\ peer.ValidReports = peers[id].ValidReports
              /\ peer.InvalidReports = peers[id].InvalidReports
      BY <2>3, UpsertMergeSpec
    <3>2. Balanced(peer, verdicts[id])
      BY <2>0, <3>1, NoneAssumption
    <3> HIDE DEF Balanced
    <3> QED
      BY <2>0, <2>g, <2>t, <3>1, <3>2
  <2>4. ASSUME NEW id \in PeerIDs, Delete(id) PROVE VerdictLedger'
    <3>1. Balanced(None, verdicts[id])
      OBVIOUS
    <3> HIDE DEF Balanced
    <3> QED
      BY <2>0, <2>g, <2>t, <2>4, <3>1 DEF Delete
  <2>5. ASSUME NEW id \in PeerIDs, NEW ttl \in TTLs, Heartbeat(id, ttl)
        PROVE  VerdictLedger'
    <3>1. PICK peer \in Peer :
              /\ peers[id] \in Peer
              /\ peers' = [peers EXCEPT ![id] = peer]
              /\ verdicts' = verdicts
              /\ peer.QualityScore = peers[id].QualityScore
              /\ peer.ValidReports = peers[id].ValidReports
              /\ peer.InvalidReports = peers[id].InvalidReports
      BY <2>5, HeartbeatSpec
    <3>2. Balanced(peer, verdicts[id])
      BY <2>0, <3>1, NoneAssumption
    <3> HIDE DEF Balanced
    <3> QED
      BY <2>0, <2>g, <2>t, <3>1, <3>2
  <2>6. ASSUME NEW id \in PeerIDs, NEW valid \in BOOLEAN,
               peers[id] # None, Judge(id, valid)
        PROVE  VerdictLedger'
    BY <2>6, JudgeSpec
  <2> QED
    BY <2>1, <2>2, <2>3, <2>4, <2>5, <2>6, PeersChange
<1> QED
  BY <1>1, <1>2, TypeCorrect, PTL DEF Spec

\* A registered peer keeps its keys and its Fake mark until it is deleted.
THEOREM IdentityCorrect == Spec => IdentityFixed
<1> DEFINE Fixed == \A id \in PeerIDs :
                        peers[id] # None /\ peers'[id] # None =>
                            /\ peers'[id].SignatureKey = peers[id].SignatureKey
                            /\ peers'[id].EncryptionKey = peers[id].EncryptionKey
                            /\ peers'[id].Fake = peers[id].Fake
<1>1. TypeOK /\ [Next]_vars => Fixed
  <2> SUFFICES ASSUME TypeOK, [Next]_vars PROVE Fixed
    OBVIOUS
  <2>t. peers \in [PeerIDs -> Peer \cup {None}]
    BY DEF TypeOK
  <2>1. CASE UNCHANGED <<peers, logins, verdicts>>
    BY <2>1
  <2>2. ASSUME NEW w \in Workers, UpsertInsert(w) PROVE Fixed
    <3>1. PICK id \in PeerIDs, peer \in Peer :
              peers[id] = None /\ peers' = [peers EXCEPT ![id] = peer]
      BY <2>2, UpsertInsertSpec
    <3> QED
      BY <2>t, <3>1
  <2>3. ASSUME NEW w \in Workers, UpsertMerge(w) PROVE Fixed
    <3>1. PICK id \in PeerIDs, peer \in Peer :
              /\ peers' = [peers EXCEPT ![id] = peer]
              /\ peer.SignatureKey = peers[id].SignatureKey
              /\ peer.EncryptionKey = peers[id].EncryptionKey
              /\ peer.Fake = peers[id].Fake
      BY <2>3, UpsertMergeSpec
    <3> QED
      BY <2>t, <3>1
  <2>4. ASSUME NEW id \in PeerIDs, Delete(id) PROVE Fixed
    BY <2>t, <2>4 DEF Delete
  <2>5. ASSUME NEW id \in PeerIDs, NEW ttl \in TTLs, Heartbeat(id, ttl) PROVE Fixed
    <3>1. PICK peer \in Peer :
              /\ peers' = [peers EXCEPT ![id] = peer]
              /\ peer.SignatureKey = peers[id].SignatureKey
              /\ peer.EncryptionKey = peers[id].EncryptionKey
              /\ peer.Fake = peers[id].Fake
      BY <2>5, HeartbeatSpec
    <3> QED
      BY <2>t, <3>1
  <2>6. ASSUME NEW id \in PeerIDs, NEW valid \in BOOLEAN,
               peers[id] # None, Judge(id, valid)
        PROVE  Fixed
    BY <2>6, JudgeSpec
  <2> QED
    BY <2>1, <2>2, <2>3, <2>4, <2>5, <2>6, PeersChange
<1>2. TypeOK /\ [Next]_vars => [Fixed]_vars
  BY <1>1
<1> QED
  BY <1>2, TypeCorrect, PTL DEF Spec, IdentityFixed

-----------------------------------------------------------------------------
(***************************************************************************)
(* The chunk list.  The inductive invariant adds two facts to the types:   *)
(* slots above regs are free, so a registration overwrites nothing, and no *)
(* sampled or stored time lies ahead of the clock.                         *)
(***************************************************************************)
SlotsFree == \A c \in Slots : c > regs => chunks[c] = None

TimesPast ==
    /\ cleaner # None => cleaner <= now
    /\ \A c \in Slots : chunks[c] # None => chunks[c].UpdatedAt <= now

ChunkInv == TypeOK /\ SlotsFree /\ TimesPast /\ FirstConfirmed

\* What a step may do to the chunk list.
Registered(chunk) ==
    /\ regs < MaxChunks
    /\ regs' = regs + 1
    /\ chunk.Confirmed = FALSE
    /\ chunk.UpdatedAt = now
    /\ chunks' = [chunks EXCEPT ![regs + 1] = chunk]

Confirmation(c) ==
    /\ chunks[c] # None
    /\ \A j \in 1 .. c-1 : ~isFor(j, chunks[c].key, chunks[c].RecipientID)
    /\ regs' = regs
    /\ chunks' = [chunks EXCEPT ![c] = MarkConfirmed(chunks[c], now)]

Reading(targets) ==
    /\ \A c \in targets : chunks[c] # None
    /\ regs' = regs
    /\ chunks' = [c \in Slots |->
                     IF c \in targets
                     THEN MarkReaded(chunks[c], now)
                     ELSE chunks[c]]

LEMMA ChunksChange ==
    ASSUME TypeOK, [Next]_vars
    PROVE  \/ /\ UNCHANGED <<chunks, regs>>
              /\ \/ UNCHANGED <<now, cleaner>>
                 \/ cleaner' = now /\ now' = now
                 \/ cleaner' = cleaner /\ now' = now + 1
           \/ /\ UNCHANGED <<now, cleaner>>
              /\ \/ \E chunk \in Chunk : Registered(chunk)
                 \/ \E c \in Slots : Confirmation(c)
                 \/ \E targets \in SUBSET Slots : Reading(targets)
           \/ DeleteExpiredChunks
<1>1. CASE PeerStep
  BY <1>1 DEF PeerStep, UpsertBegin, UpsertInsert, UpsertMerge, Delete, Heartbeat
<1>2. CASE ChunkStep
  <2>1. PICK fileID \in FileIDs, index \in Indexes, signer \in SignatureKeys :
            \/ \E senderKey, recipientKey \in Keys, raw \in RawHashes,
                  persist \in BOOLEAN, ttl \in TTLs :
                  SetChunkHash(fileID, index, senderKey, recipientKey, raw,
                               signer, persist, ttl)
            \/ \E source, reporter \in PeerIDs, raw \in RawHashes :
                  ReportChunk(source, reporter, fileID, index, raw, signer)
            \/ \E recipientKey \in Keys, raw \in RawHashes :
                  ConfirmChunk(recipientKey, fileID, index, raw, signer)
            \/ \E recipientKey \in Keys : ReadChunk(recipientKey, fileID, signer)
    BY <1>2 DEF ChunkStep
  <2>2. ASSUME NEW senderKey \in Keys, NEW recipientKey \in Keys,
               NEW raw \in RawHashes, NEW persist \in BOOLEAN, NEW ttl \in TTLs,
               SetChunkHash(fileID, index, senderKey, recipientKey, raw, signer,
                            persist, ttl)
        PROVE  UNCHANGED <<now, cleaner>> /\ \E chunk \in Chunk : Registered(chunk)
    <3> DEFINE chunk == [key         |-> chunkKey(fileID, index),
                         Hash        |-> normalizeHash(raw),
                         SenderID    |-> senderKey,
                         RecipientID |-> recipientKey,
                         Persist     |-> persist,
                         Confirmed   |-> FALSE,
                         Readed      |-> FALSE,
                         CreatedAt   |-> now,
                         UpdatedAt   |-> now,
                         TTL         |-> OrDefault(ttl, DefaultChunkTTL)]
    <3>1. OrDefault(ttl, DefaultChunkTTL) \in Nat \ {0}
      BY OrDefaultType, ScalarsAssumption
    <3>2. chunkKey(fileID, index) \in ChunkKeys /\ normalizeHash(raw) \in Hashes
      BY DEF ChunkKeys, RawHashes, normalizeHash
    <3>3. chunk \in Chunk
      BY <3>1, <3>2 DEF Chunk, TypeOK
    <3>4. Registered(chunk)
      BY <2>2 DEF SetChunkHash, Registered
    <3> QED
      BY <2>2, <3>3, <3>4 DEF SetChunkHash
  <2>3. ASSUME NEW recipientKey \in Keys, NEW raw \in RawHashes,
               ConfirmChunk(recipientKey, fileID, index, raw, signer)
        PROVE  /\ UNCHANGED <<now, cleaner>>
               /\ \/ UNCHANGED <<chunks, regs>>
                  \/ \E c \in Slots : Confirmation(c)
    <3>1. PICK c \in entriesFor(chunkKey(fileID, index), recipientKey) :
              \/ chunks' = chunks
              \/ chunks' = [chunks EXCEPT ![c] = MarkConfirmed(chunks[c], now)]
      BY <2>3 DEF ConfirmChunk
    <3>2. /\ c \in Slots
          /\ chunks[c] # None
          /\ \A j \in 1 .. c-1 : ~isFor(j, chunks[c].key, chunks[c].RecipientID)
      BY <3>1 DEF entriesFor, isFor, hasKey
    <3>3. CASE chunks' = [chunks EXCEPT ![c] = MarkConfirmed(chunks[c], now)]
      BY <2>3, <3>2, <3>3 DEF Confirmation, ConfirmChunk
    <3> QED
      BY <2>3, <3>1, <3>3 DEF ConfirmChunk
  <2>4. ASSUME NEW recipientKey \in Keys, ReadChunk(recipientKey, fileID, signer)
        PROVE  /\ UNCHANGED <<now, cleaner>>
               /\ \E targets \in SUBSET Slots : Reading(targets)
    <3>1. readTargets(fileID, recipientKey) \in SUBSET Slots
      BY DEF readTargets
    <3>2. \A c \in readTargets(fileID, recipientKey) : chunks[c] # None
      BY DEF readTargets
    <3>3. Reading(readTargets(fileID, recipientKey))
      BY <2>4, <3>2 DEF Reading, ReadChunk
    <3> QED
      BY <2>4, <3>1, <3>3 DEF ReadChunk
  <2>5. ASSUME NEW source \in PeerIDs, NEW reporter \in PeerIDs, NEW raw \in RawHashes,
               ReportChunk(source, reporter, fileID, index, raw, signer)
        PROVE  UNCHANGED <<now, cleaner, chunks, regs>>
    BY <2>5 DEF ReportChunk
  <2> QED
    BY <2>1, <2>2, <2>3, <2>4, <2>5
<1>3. CASE CleanerTick \/ Tick \/ UNCHANGED vars
  BY <1>3 DEF CleanerTick, Tick, vars
<1> QED
  BY <1>1, <1>2, <1>3 DEF Next

\* Neither update touches what was registered.
LEMMA ChunkUpdateKeeps ==
    ASSUME NEW chunk \in Chunk, NEW time \in Nat, chunk.UpdatedAt <= time,
           NEW new \in {MarkConfirmed(chunk, time), MarkReaded(chunk, time)}
    PROVE  /\ new # None
           /\ new.UpdatedAt = time
           /\ new.key = chunk.key
           /\ new.RecipientID = chunk.RecipientID
           /\ Retained(chunk, new)
<1>1. new # None
  BY ChunkUpdateType, NoneAssumption
<1>2. /\ new.UpdatedAt = time /\ new.key = chunk.key /\ new.Hash = chunk.Hash
      /\ new.SenderID = chunk.SenderID /\ new.RecipientID = chunk.RecipientID
      /\ new.Persist = chunk.Persist /\ new.CreatedAt = chunk.CreatedAt
      /\ new.TTL = chunk.TTL
      /\ (chunk.Confirmed => new.Confirmed) /\ (chunk.Readed => new.Readed)
  <2>1. CASE new = MarkConfirmed(chunk, time)
    BY <2>1 DEF Chunk, MarkConfirmed
  <2>2. CASE new = MarkReaded(chunk, time)
    BY <2>2 DEF Chunk, MarkReaded
  <2> QED
    BY <2>1, <2>2
<1> QED
  BY <1>1, <1>2 DEF Retained

\* A step keeps every chunk it may not delete, and keeps slots and times in
\* order.
LEMMA NextRetains ==
    ASSUME TypeOK, SlotsFree, TimesPast, [Next]_vars
    PROVE  /\ SlotsFree' /\ TimesPast'
           /\ \A c \in Slots : chunks[c] # None => Retained(chunks[c], chunks'[c])
<1>t. /\ chunks \in [Slots -> Chunk \cup {None}]
      /\ regs \in Nat /\ now \in Nat /\ cleaner \in Nat \cup {None}
  BY DEF TypeOK
<1>s. ASSUME NEW chunk \in Chunk PROVE chunk.UpdatedAt \in Nat /\ Retained(chunk, chunk)
  BY NoneAssumption DEF Chunk, Retained
<1>g. \A c \in Slots : chunks[c] # None =>
          chunks[c] \in Chunk /\ chunks[c].UpdatedAt \in Nat /\ chunks[c].UpdatedAt <= now
  BY <1>t, <1>s DEF TimesPast
<1>1. CASE /\ UNCHANGED <<chunks, regs>>
           /\ \/ UNCHANGED <<now, cleaner>>
              \/ cleaner' = now /\ now' = now
              \/ cleaner' = cleaner /\ now' = now + 1
  <2>1. SlotsFree'
    BY <1>1 DEF SlotsFree
  <2>2. TimesPast'
    BY <1>1, <1>t, <1>g DEF TimesPast
  <2> QED
    BY <1>1, <1>g, <1>s, <2>1, <2>2
<1>2. ASSUME UNCHANGED <<now, cleaner>>, NEW chunk \in Chunk, Registered(chunk)
      PROVE  /\ SlotsFree' /\ TimesPast'
             /\ \A c \in Slots : chunks[c] # None => Retained(chunks[c], chunks'[c])
  <2>1. \A c \in Slots : chunks'[c] = IF c = regs + 1 THEN chunk ELSE chunks[c]
    BY <1>2, <1>t DEF Registered
  <2>2. SlotsFree'
    BY <1>2, <1>t, <2>1 DEF SlotsFree, Registered, Slots
  <2>3. TimesPast'
    BY <1>2, <1>t, <2>1 DEF TimesPast, Registered
  <2>4. \A c \in Slots : chunks[c] # None => c # regs + 1
    BY <1>t DEF SlotsFree, Slots
  <2> QED
    BY <1>g, <1>s, <2>1, <2>2, <2>3, <2>4
<1>3. ASSUME UNCHANGED <<now, cleaner>>, NEW d \in Slots, Confirmation(d)
      PROVE  /\ SlotsFree' /\ TimesPast'
             /\ \A c \in Slots : chunks[c] # None => Retained(chunks[c], chunks'[c])
  <2> DEFINE new == MarkConfirmed(chunks[d], now)
  <2>1. chunks[d] # None /\ regs' = regs
    BY <1>3 DEF Confirmation
  <2>2. \A c \in Slots : chunks'[c] = IF c = d THEN new ELSE chunks[c]
    BY <1>3, <1>t DEF Confirmation
  <2>3. new # None /\ new.UpdatedAt = now /\ Retained(chunks[d], new)
    <3>1. chunks[d] \in Chunk /\ chunks[d].UpdatedAt <= now
      BY <1>g, <2>1
    <3> QED
      BY <1>t, <3>1, ChunkUpdateKeeps
  <2> HIDE DEF new
  <2>4. SlotsFree'
    BY <2>1, <2>2 DEF SlotsFree
  <2>5. TimesPast'
    BY <1>3, <1>t, <2>2, <2>3 DEF TimesPast
  <2> QED
    BY <1>g, <1>s, <2>2, <2>3, <2>4, <2>5
<1>4. ASSUME UNCHANGED <<now, cleaner>>, NEW targets \in SUBSET Slots, Reading(targets)
      PROVE  /\ SlotsFree' /\ TimesPast'
             /\ \A c \in Slots : chunks[c] # None => Retained(chunks[c], chunks'[c])
  <2>1. \A c \in Slots : c \in targets => chunks[c] # None
    BY <1>4 DEF Reading
  <2>2. /\ regs' = regs
        /\ \A c \in Slots : chunks'[c] =
               IF c \in targets
               THEN MarkReaded(chunks[c], now)
               ELSE chunks[c]
    BY <1>4 DEF Reading
  <2>3. ASSUME NEW c \in Slots, chunks[c] # None
        PROVE  /\ chunks'[c].UpdatedAt <= now
               /\ Retained(chunks[c], chunks'[c])
    <3>1. CASE c \in targets
      <4>1. chunks'[c] = MarkReaded(chunks[c], now)
        BY <3>1, <2>2
      <4>2. chunks[c] \in Chunk /\ chunks[c].UpdatedAt <= now
        BY <1>g, <2>3
      <4>3. chunks'[c].UpdatedAt = now /\ Retained(chunks[c], chunks'[c])
        BY <4>1, <4>2, <1>t, ChunkUpdateKeeps
      <4> QED
        BY <4>3, <1>t
    <3>2. CASE c \notin targets
      BY <3>2, <2>2, <2>3, <1>g, <1>s
    <3> QED
      BY <3>1, <3>2
  <2>4. \A c \in Slots : chunks[c] = None => chunks'[c] = None
    BY <2>1, <2>2
  <2>5. SlotsFree'
    BY <2>2, <2>4 DEF SlotsFree
  <2>6. TimesPast'
    BY <1>4, <2>3, <2>4 DEF TimesPast
  <2> QED
    BY <2>3, <2>5, <2>6
<1>5. CASE DeleteExpiredChunks
  <2>1. /\ cleaner \in Nat /\ cleaner <= now
        /\ cleaner' = None /\ now' = now /\ regs' = regs
    BY <1>5, <1>t DEF DeleteExpiredChunks, TimesPast
  <2>2. \A c \in Slots : chunks'[c] = IF chunks[c] = None THEN None
                                      ELSE IF chunkExpired(chunks[c], cleaner) THEN None
                                      ELSE chunks[c]
    BY <1>5 DEF DeleteExpiredChunks
  <2>3. SlotsFree'
    BY <2>1, <2>2 DEF SlotsFree
  <2>4. TimesPast'
    BY <1>g, <2>1, <2>2 DEF TimesPast
  <2>5. ASSUME NEW c \in Slots, chunks[c] # None, chunkExpired(chunks[c], cleaner)
        PROVE  Retained(chunks[c], None)
    <3>1. chunks[c].CreatedAt \in Nat /\ chunks[c].TTL \in Nat
      BY <1>g, <2>5 DEF Chunk
    <3> QED
      BY <1>t, <2>1, <2>5, <3>1 DEF Retained, chunkExpired
  <2> QED
    BY <1>g, <1>s, <2>2, <2>3, <2>4, <2>5
<1> QED
  BY <1>1, <1>2, <1>3, <1>4, <1>5, ChunksChange

\* The cleaner and the clients never destroy or rewrite a chunk they may not.
THEOREM RetentionCorrect == Spec => ChunksRetained
<1> DEFINE Kept == \A c \in Slots : chunks[c] # None => Retained(chunks[c], chunks'[c])
           Inv == TypeOK /\ SlotsFree /\ TimesPast
<1>1. Init => Inv
  BY InitType DEF Init, SlotsFree, TimesPast
<1>2. Inv /\ [Next]_vars => Inv' /\ [Kept]_vars
  BY NextType, NextRetains
<1> QED
  BY <1>1, <1>2, PTL DEF Spec, ChunksRetained

\* Of the entries with one key and one recipient only the first is ever
\* confirmed.
THEOREM ConfirmationCorrect == Spec => []FirstConfirmed
<1>1. Init => ChunkInv
  BY InitType DEF Init, SlotsFree, TimesPast, FirstConfirmed, ChunkInv
<1>2. ChunkInv /\ [Next]_vars => ChunkInv'
  <2> SUFFICES ASSUME ChunkInv, [Next]_vars PROVE FirstConfirmed'
    BY NextType, NextRetains DEF ChunkInv
  <2> USE DEF ChunkInv
  <2>t. /\ chunks \in [Slots -> Chunk \cup {None}]
        /\ regs \in Nat /\ now \in Nat /\ MaxChunks \in Nat
    BY BoundsAssumption DEF TypeOK
  <2> SUFFICES ASSUME NEW c \in Slots, NEW j \in 1 .. c-1,
                      chunks'[c] # None, chunks'[c].Confirmed,
                      chunks'[j] # None, chunks'[j].key = chunks'[c].key,
                      chunks'[j].RecipientID = chunks'[c].RecipientID
               PROVE  FALSE
    BY DEF FirstConfirmed, isFor, hasKey
  <2>j. j \in Slots /\ j # c /\ j < c
    BY <2>t DEF Slots
  <2>g. ASSUME chunks[c] # None, chunks[c].Confirmed, chunks[j] # None,
               chunks[j].key = chunks[c].key,
               chunks[j].RecipientID = chunks[c].RecipientID
        PROVE  FALSE
    BY <2>g DEF FirstConfirmed, isFor, hasKey
  <2>1. CASE UNCHANGED chunks
    BY <2>1, <2>g
  <2>2. ASSUME NEW chunk \in Chunk, Registered(chunk) PROVE FALSE
    <3>1. \A d \in Slots : chunks'[d] = IF d = regs + 1 THEN chunk ELSE chunks[d]
      BY <2>2, <2>t DEF Registered
    <3>2. c # regs + 1
      BY <2>2, <3>1 DEF Registered
    <3>3. c <= regs
      BY <2>t, <3>1, <3>2 DEF SlotsFree, Slots
    <3>4. j # regs + 1
      BY <2>j, <2>t, <3>3 DEF Slots
    <3> QED
      BY <2>g, <2>j, <3>1, <3>2, <3>4
  <2>3. ASSUME NEW d \in Slots, Confirmation(d) PROVE FALSE
    <3> DEFINE new == MarkConfirmed(chunks[d], now)
    <3>1. /\ chunks[d] \in Chunk
          /\ \A i \in 1 .. d-1 : ~isFor(i, chunks[d].key, chunks[d].RecipientID)
      BY <2>3, <2>t DEF Confirmation
    <3>2. \A i \in Slots : chunks'[i] = IF i = d THEN new ELSE chunks[i]
      BY <2>3, <2>t DEF Confirmation
    <3>3. new.key = chunks[d].key /\ new.RecipientID = chunks[d].RecipientID
      BY <3>1 DEF Chunk, MarkConfirmed
    <3> HIDE DEF new
    <3>4. \A i \in Slots : chunks'[i] # None =>
              /\ chunks[i] # None
              /\ chunks'[i].key = chunks[i].key
              /\ chunks'[i].RecipientID = chunks[i].RecipientID
      BY <3>1, <3>2, <3>3, NoneAssumption
    <3>5. CASE c = d
      BY <2>j, <3>1, <3>4, <3>5 DEF isFor, hasKey
    <3>6. CASE c # d
      BY <2>g, <2>j, <3>2, <3>4, <3>6
    <3> QED
      BY <3>5, <3>6
  <2>4. ASSUME NEW targets \in SUBSET Slots, Reading(targets) PROVE FALSE
    <3>1. \A i \in Slots : chunks'[i] =
              IF i \in targets
              THEN MarkReaded(chunks[i], now)
              ELSE chunks[i]
      BY <2>4 DEF Reading
    <3>2. \A i \in targets : chunks[i] \in Chunk
      BY <2>4, <2>t DEF Reading
    <3>3. ASSUME NEW i \in Slots, chunks'[i] # None
          PROVE  /\ chunks[i] # None
                 /\ chunks'[i].key = chunks[i].key
                 /\ chunks'[i].RecipientID = chunks[i].RecipientID
                 /\ chunks'[i].Confirmed = chunks[i].Confirmed
      <4>1. CASE i \in targets
        BY <4>1, <3>1, <3>2, NoneAssumption DEF Chunk, MarkReaded
      <4>2. CASE i \notin targets
        BY <4>2, <3>1, <3>3
      <4> QED
        BY <4>1, <4>2
    <3> QED
      BY <2>g, <2>j, <3>3
  <2>5. CASE DeleteExpiredChunks
    <3>1. \A i \in Slots : chunks'[i] # None => chunks'[i] = chunks[i]
      BY <2>5 DEF DeleteExpiredChunks
    <3> QED
      BY <2>g, <2>j, <3>1
  <2> QED
    BY <2>1, <2>2, <2>3, <2>4, <2>5, ChunksChange
<1> QED
  BY <1>1, <1>2, PTL DEF Spec, ChunkInv
=============================================================================
