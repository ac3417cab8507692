---------------------------- MODULE DbStoreProofs ----------------------------
(***************************************************************************)
(* Proofs about the tables peers and chunks of the database store, for any *)
(* number of peers, requests and rows.                                     *)
(***************************************************************************)
EXTENDS DbDirectory, PeerTypesProofs, TLAPS

-----------------------------------------------------------------------------
(***************************************************************************)
(* Types.                                                                  *)
(***************************************************************************)
\* What a method carries from one statement to the next.
UpsertOp == [op : {"upsert"}, req : RegisterRequest, at : Nat, existing : Peer \cup {None}]
RegisterOp == [op : {"register"}, row : Chunk]
ReportOp == [op : {"report"}, source : PeerIDs, key : ChunkKeys, hash : Hashes]
ScoreOp == [op : {"score"}, source : PeerIDs, valid : BOOLEAN]
ConfirmOp == [op : {"confirm"}, recipient : Keys, key : ChunkKeys, hash : Hashes]
CreditOp == [op : {"credit"}, recipient : Keys, key : ChunkKeys, sender : Keys,
             valid : BOOLEAN]
MarkOp == [op : {"mark"}, recipient : Keys, key : ChunkKeys]
ReadOp == [op : {"read"}, recipient : Keys, file : FileIDs]

Op == UpsertOp \cup RegisterOp \cup ReportOp \cup ScoreOp \cup ConfirmOp
        \cup CreditOp \cup MarkOp \cup ReadOp

Tally == [valid : Nat, invalid : Nat]

TypeOK ==
    /\ peers \in [PeerIDs -> Peer \cup {None}]
    /\ chunks \in [Slots -> Chunk \cup {None}]
    /\ regs \in Nat
    /\ now \in Nat
    /\ ops \in [Workers -> Op \cup {None}]
    /\ verdicts \in [PeerIDs -> Tally]

\* A method in the middle has what its earlier statements gave it.
LEMMA OpKinds ==
    ASSUME TypeOK, NEW w \in Workers
    PROVE  /\ In(w, "upsert")   => ops[w] \in UpsertOp
           /\ In(w, "register") => ops[w] \in RegisterOp
           /\ In(w, "report")   => ops[w] \in ReportOp
           /\ In(w, "score")    => ops[w] \in ScoreOp
           /\ In(w, "confirm")  => ops[w] \in ConfirmOp
           /\ In(w, "credit")   => ops[w] \in CreditOp
           /\ In(w, "mark")     => ops[w] \in MarkOp
           /\ In(w, "read")     => ops[w] \in ReadOp
<1>1. ops[w] # None => ops[w] \in Op
  BY DEF TypeOK
<1> QED
  BY <1>1 DEF In, Op, UpsertOp, RegisterOp, ReportOp, ScoreOp, ConfirmOp, CreditOp,
              MarkOp, ReadOp

LEMMA SetType ==
    ASSUME TypeOK, NEW w \in Workers, NEW op \in Op \cup {None}, Set(w, op)
    PROVE  ops' \in [Workers -> Op \cup {None}]
BY DEF TypeOK, Set

-----------------------------------------------------------------------------
(***************************************************************************)
(* What a statement may do to the peers table.                             *)
(***************************************************************************)
\* INSERT of a new row.
Inserted(id, row) ==
    /\ peers[id] = None
    /\ peers' = [peers EXCEPT ![id] = row]
    /\ verdicts' = [verdicts EXCEPT ![id] = NoVerdicts]
    /\ row.QualityScore = InitialQualityScore
    /\ row.ValidReports = 0
    /\ row.InvalidReports = 0

\* UPDATE that leaves identity and counters alone.
Touched(id, row) ==
    /\ peers[id] \in Peer
    /\ peers' = [peers EXCEPT ![id] = row]
    /\ UNCHANGED verdicts
    /\ row.Login = peers[id].Login
    /\ row.SignatureKey = peers[id].SignatureKey
    /\ row.EncryptionKey = peers[id].EncryptionKey
    /\ row.Fake = peers[id].Fake
    /\ row.QualityScore = peers[id].QualityScore
    /\ row.ValidReports = peers[id].ValidReports
    /\ row.InvalidReports = peers[id].InvalidReports

\* UPDATE by a verdict, of the rows ids.
Present == {id \in PeerIDs : peers[id] # None}

LEMMA UpsertInsertSpec ==
    ASSUME TypeOK, NEW w \in Workers, UpsertInsert(w)
    PROVE  \/ UNCHANGED <<peers, verdicts>>
           \/ \E id \in PeerIDs, row \in Peer : Inserted(id, row)
<1>1. ops[w] \in UpsertOp
  BY OpKinds DEF UpsertInsert
<1> DEFINE req == ops[w].req
           row == NewPeer(req, ops[w].at)
<1>2. req \in RegisterRequest /\ ops[w].at \in Nat
  BY <1>1 DEF UpsertOp
<1>3. row \in Peer /\ req.ID \in PeerIDs
  BY <1>2, NewPeerType DEF RegisterRequest
<1>4. /\ row.QualityScore = InitialQualityScore
      /\ row.ValidReports = 0
      /\ row.InvalidReports = 0
  BY DEF NewPeer
<1>5. CASE peers[req.ID] = None
  <2>1. /\ peers' = [peers EXCEPT ![req.ID] = row]
        /\ verdicts' = [verdicts EXCEPT ![req.ID] = NoVerdicts]
    BY <1>5 DEF UpsertInsert
  <2> HIDE DEF row
  <2>2. Inserted(req.ID, row)
    BY <1>4, <1>5, <2>1 DEF Inserted
  <2> QED
    BY <1>3, <2>2
<1>6. CASE peers[req.ID] # None
  BY <1>6 DEF UpsertInsert
<1> QED
  BY <1>5, <1>6

LEMMA UpsertUpdateSpec ==
    ASSUME TypeOK, NEW w \in Workers, UpsertUpdate(w)
    PROVE  \/ UNCHANGED <<peers, verdicts>>
           \/ \E id \in PeerIDs, row \in Peer : Touched(id, row)
<1>1. ops[w] \in UpsertOp
  BY OpKinds DEF UpsertUpdate
<1> DEFINE req == ops[w].req
           id == req.ID
           old == peers[id]
<1>2. req \in RegisterRequest /\ ops[w].at \in Nat
  BY <1>1 DEF UpsertOp
<1>3. id \in PeerIDs /\ req.PeerFlag \in PeerFlags
  BY <1>2 DEF RegisterRequest
<1>4. CASE peers[id] = None
  BY <1>4 DEF UpsertUpdate
<1>5. CASE peers[id] # None
  <2>1. old \in Peer
    BY <1>3, <1>5 DEF TypeOK
  <2>2. OrDefault(req.TTLSeconds, DefaultTTL) \in Nat \ {0}
    BY <1>2, OrDefaultType, ScalarsAssumption DEF RegisterRequest
  <2>3. PICK t \in Nat \ {0} : t = OrDefault(req.TTLSeconds, DefaultTTL)
    BY <2>2
  <2>4. PICK flag \in PeerFlags : flag = IF req.PeerFlag = "" THEN old.PeerFlag
                                         ELSE req.PeerFlag
    BY <1>3, <2>1 DEF Peer
  <2>5. PICK at \in Nat : at = ops[w].at
    BY <1>2
  <2> DEFINE row == [old EXCEPT !.LastSeen = at, !.TTLSeconds = t, !.PeerFlag = flag]
  <2>6. Updated(old, ops[w]) = row
    BY <2>3, <2>4, <2>5 DEF Updated
  <2>7. peers' = [peers EXCEPT ![id] = row] /\ UNCHANGED verdicts
    BY <1>3, <1>5, <2>6 DEF UpsertUpdate, TypeOK
  <2>8. row \in Peer
    BY <2>1 DEF Peer
  <2>9. /\ row.Login = old.Login
        /\ row.SignatureKey = old.SignatureKey
        /\ row.EncryptionKey = old.EncryptionKey
        /\ row.Fake = old.Fake
    BY <2>1 DEF Peer
  <2>10. /\ row.QualityScore = old.QualityScore
         /\ row.ValidReports = old.ValidReports
         /\ row.InvalidReports = old.InvalidReports
    BY <2>1 DEF Peer
  <2> HIDE DEF row
  <2>11. Touched(id, row)
    BY <2>1, <2>7, <2>9, <2>10 DEF Touched
  <2> QED
    BY <1>3, <2>8, <2>11
<1> QED
  BY <1>4, <1>5

LEMMA HeartbeatSpec ==
    ASSUME TypeOK, NEW id \in PeerIDs, NEW ttl \in TTLs, Heartbeat(id, ttl)
    PROVE  \E row \in Peer : Touched(id, row)
<1> DEFINE old == peers[id]
<1>1. old \in Peer /\ now \in Nat
  BY DEF Heartbeat, TypeOK
<1>2. PICK t \in Nat \ {0} : t = IF ttl > 0 THEN ttl ELSE old.TTLSeconds
  BY <1>1, ScalarsAssumption DEF Peer
<1> DEFINE row == [old EXCEPT !.LastSeen = now, !.TTLSeconds = t]
<1>3. peers' = [peers EXCEPT ![id] = row] /\ UNCHANGED verdicts
  BY <1>2 DEF Heartbeat
<1>4. row \in Peer
  BY <1>1, <1>2 DEF Peer
<1>5. /\ row.Login = old.Login
      /\ row.SignatureKey = old.SignatureKey
      /\ row.EncryptionKey = old.EncryptionKey
      /\ row.Fake = old.Fake
  BY <1>1 DEF Peer
<1>6. /\ row.QualityScore = old.QualityScore
      /\ row.ValidReports = old.ValidReports
      /\ row.InvalidReports = old.InvalidReports
  BY <1>1 DEF Peer
<1> HIDE DEF row
<1>7. Touched(id, row)
  BY <1>1, <1>3, <1>5, <1>6 DEF Touched
<1> QED
  BY <1>4, <1>7

LEMMA PeersChange ==
    ASSUME TypeOK, [Next]_vars
    PROVE  \/ UNCHANGED <<peers, verdicts>>
           \/ \E id \in PeerIDs, row \in Peer : Inserted(id, row) \/ Touched(id, row)
           \/ \E id \in PeerIDs : Delete(id)
           \/ \E ids \in SUBSET Present, valid \in BOOLEAN : UpdateQuality(ids, valid)
<1>1. ASSUME NEW w \in Workers, PeerStep(w)
      PROVE  \/ UNCHANGED <<peers, verdicts>>
             \/ \E id \in PeerIDs, row \in Peer : Inserted(id, row) \/ Touched(id, row)
  BY <1>1, UpsertInsertSpec, UpsertUpdateSpec DEF PeerStep, UpsertSelect
<1>2. ASSUME NEW w \in Workers, ChunkStep(w)
      PROVE  \/ UNCHANGED <<peers, verdicts>>
             \/ \E ids \in SUBSET Present, valid \in BOOLEAN : UpdateQuality(ids, valid)
  <2>1. CASE ReportUpdate(w)
    <3>1. ops[w] \in ScoreOp
      BY <2>1, OpKinds DEF ReportUpdate
    <3>2. {id \in {ops[w].source} : peers[id] # None} \in SUBSET Present
      BY <3>1 DEF ScoreOp, Present
    <3>3. ops[w].valid \in BOOLEAN
      BY <3>1 DEF ScoreOp
    <3> QED
      BY <2>1, <3>2, <3>3 DEF ReportUpdate
  <2>2. CASE ConfirmScore(w)
    <3>1. ops[w].valid \in BOOLEAN
      BY <2>2, OpKinds DEF ConfirmScore, CreditOp
    <3>2. {id \in PeerIDs : peers[id] # None /\ Key(peers[id]) = ops[w].sender}
            \in SUBSET Present
      BY DEF Present
    <3> QED
      BY <2>2, <3>1, <3>2 DEF ConfirmScore
  <2>3. ASSUME NEW fileID \in FileIDs, NEW index \in Indexes,
               NEW signer \in SignatureKeys, NEW raw \in RawHashes,
               \/ \E senderKey, recipientKey \in Keys, persist \in BOOLEAN, ttl \in TTLs :
                     RegisterSelect(w, fileID, index, senderKey, recipientKey, raw,
                                    signer, persist, ttl)
               \/ \E source, reporter \in PeerIDs :
                     ReportSelectReporter(w, source, reporter, fileID, index, raw, signer)
               \/ \E recipientKey \in Keys :
                     ConfirmSelectRecipient(w, recipientKey, fileID, index, raw, signer)
        PROVE  UNCHANGED <<peers, verdicts>>
    <3>1. ASSUME NEW senderKey, NEW recipientKey, NEW persist, NEW ttl,
                 RegisterSelect(w, fileID, index, senderKey, recipientKey, raw,
                                signer, persist, ttl)
          PROVE  UNCHANGED <<peers, verdicts>>
      BY <3>1 DEF RegisterSelect
    <3>2. ASSUME NEW source, NEW reporter,
                 ReportSelectReporter(w, source, reporter, fileID, index, raw, signer)
          PROVE  UNCHANGED <<peers, verdicts>>
      BY <3>2 DEF ReportSelectReporter
    <3>3. ASSUME NEW recipientKey,
                 ConfirmSelectRecipient(w, recipientKey, fileID, index, raw, signer)
          PROVE  UNCHANGED <<peers, verdicts>>
      BY <3>3 DEF ConfirmSelectRecipient
    <3> QED
      BY <2>3, <3>1, <3>2, <3>3
  <2>4. CASE \E fileID \in FileIDs, signer \in SignatureKeys, recipientKey \in Keys :
               ReadSelect(w, recipientKey, fileID, signer)
    BY <2>4 DEF ReadSelect
  <2>5. CASE \/ RegisterInsert(w) \/ ReportSelectHash(w) \/ ConfirmSelectChunk(w)
             \/ ConfirmMark(w) \/ ReadMark(w) \/ Abort(w)
    BY <2>5 DEF RegisterInsert, ReportSelectHash, ConfirmSelectChunk, ConfirmMark,
                ReadMark, Abort
  <2> QED
    BY <1>2, <2>1, <2>2, <2>3, <2>4, <2>5 DEF ChunkStep
<1>3. ASSUME NEW id \in PeerIDs, NEW ttl \in TTLs, Heartbeat(id, ttl)
      PROVE  \E row \in Peer : Touched(id, row)
  BY <1>3, HeartbeatSpec
<1>4. ASSUME DeleteExpiredChunks \/ Tick \/ UNCHANGED vars
      PROVE  UNCHANGED <<peers, verdicts>>
  BY <1>4 DEF DeleteExpiredChunks, Tick, vars
<1> QED
  BY <1>1, <1>2, <1>3, <1>4 DEF Next

\* A verdict, row by row.
LEMMA UpdateQualitySpec ==
    ASSUME TypeOK, NEW ids \in SUBSET Present, NEW valid \in BOOLEAN,
           UpdateQuality(ids, valid)
    PROVE  /\ peers' \in [PeerIDs -> Peer \cup {None}]
           /\ verdicts' \in [PeerIDs -> Tally]
           /\ \A id \in ids :
                  /\ peers[id] \in Peer
                  /\ peers'[id] = Scored(peers[id], valid)
                  /\ verdicts'[id].valid = verdicts[id].valid + (IF valid THEN 1 ELSE 0)
                  /\ verdicts'[id].invalid = verdicts[id].invalid + (IF valid THEN 0 ELSE 1)
           /\ \A id \in PeerIDs \ ids : peers'[id] = peers[id] /\ verdicts'[id] = verdicts[id]
<1>1. ids \subseteq PeerIDs /\ \A id \in ids : peers[id] \in Peer /\ verdicts[id] \in Tally
  BY DEF TypeOK, Present
<1>2. \A id \in ids : Scored(peers[id], valid) \in Peer
  BY <1>1, ScoredType
<1>3. ASSUME NEW tally \in Tally
      PROVE  /\ Counted(tally, valid) \in Tally
             /\ Counted(tally, valid).valid = tally.valid + (IF valid THEN 1 ELSE 0)
             /\ Counted(tally, valid).invalid = tally.invalid + (IF valid THEN 0 ELSE 1)
  <2>1. tally.valid \in Nat /\ tally.invalid \in Nat
    BY DEF Tally
  <2>2. CASE valid
    <3>1. PICK n \in Nat : n = tally.valid + 1
      BY <2>1
    <3>2. Counted(tally, valid) = [tally EXCEPT !.valid = n]
      BY <2>2, <3>1 DEF Counted
    <3>3. /\ Counted(tally, valid) \in Tally
          /\ Counted(tally, valid).valid = n
          /\ Counted(tally, valid).invalid = tally.invalid
      BY <3>2 DEF Tally
    <3>4. (IF valid THEN 1 ELSE 0) = 1 /\ (IF valid THEN 0 ELSE 1) = 0
      BY <2>2
    <3> QED
      BY <2>1, <3>1, <3>3, <3>4
  <2>3. CASE ~valid
    <3>1. PICK n \in Nat : n = tally.invalid + 1
      BY <2>1
    <3>2. Counted(tally, valid) = [tally EXCEPT !.invalid = n]
      BY <2>3, <3>1 DEF Counted
    <3>3. /\ Counted(tally, valid) \in Tally
          /\ Counted(tally, valid).valid = tally.valid
          /\ Counted(tally, valid).invalid = n
      BY <3>2 DEF Tally
    <3>4. (IF valid THEN 1 ELSE 0) = 0 /\ (IF valid THEN 0 ELSE 1) = 1
      BY <2>3
    <3> QED
      BY <2>1, <3>1, <3>3, <3>4
  <2> QED
    BY <2>2, <2>3
<1>4. \A id \in ids : /\ peers'[id] = Scored(peers[id], valid)
                      /\ verdicts'[id] = Counted(verdicts[id], valid)
  BY <1>1 DEF UpdateQuality
<1>5. \A id \in PeerIDs \ ids : peers'[id] = peers[id] /\ verdicts'[id] = verdicts[id]
  BY DEF UpdateQuality
<1>6. \A id \in PeerIDs : peers'[id] \in Peer \cup {None} /\ verdicts'[id] \in Tally
  BY <1>1, <1>2, <1>3, <1>4, <1>5 DEF TypeOK
<1>7. /\ peers' = [id \in PeerIDs |-> peers'[id]]
      /\ verdicts' = [id \in PeerIDs |-> verdicts'[id]]
  BY DEF UpdateQuality
<1> QED
  BY <1>1, <1>3, <1>4, <1>5, <1>6, <1>7

LEMMA PeersType ==
    ASSUME TypeOK, [Next]_vars
    PROVE  /\ peers' \in [PeerIDs -> Peer \cup {None}]
           /\ verdicts' \in [PeerIDs -> Tally]
<1>t. /\ peers \in [PeerIDs -> Peer \cup {None}]
      /\ verdicts \in [PeerIDs -> Tally]
      /\ NoVerdicts \in Tally
  BY DEF TypeOK, NoVerdicts, Tally
<1>1. CASE UNCHANGED <<peers, verdicts>>
  BY <1>t, <1>1
<1>2. ASSUME NEW id \in PeerIDs, NEW row \in Peer, Inserted(id, row) \/ Touched(id, row)
      PROVE  /\ peers' \in [PeerIDs -> Peer \cup {None}]
             /\ verdicts' \in [PeerIDs -> Tally]
  BY <1>t, <1>2 DEF Inserted, Touched
<1>3. ASSUME NEW id \in PeerIDs, Delete(id)
      PROVE  /\ peers' \in [PeerIDs -> Peer \cup {None}]
             /\ verdicts' \in [PeerIDs -> Tally]
  BY <1>t, <1>3 DEF Delete
<1> QED
  BY <1>1, <1>2, <1>3, PeersChange, UpdateQualitySpec

-----------------------------------------------------------------------------
(***************************************************************************)
(* What a statement may do to the chunks table and to its method.          *)
(***************************************************************************)
\* A chunk is in the making only after its sender's signature was checked.
Signed(row) == \E signer \in SignatureKeys : SignedBy(row.SenderID, signer)

LEMMA ChunkKeyType ==
    ASSUME NEW fileID \in FileIDs, NEW index \in Indexes, NEW raw \in RawHashes
    PROVE  chunkKey(fileID, index) \in ChunkKeys /\ normalizeHash(raw) \in Hashes
BY DEF ChunkKeys, RawHashes, normalizeHash

LEMMA RegisterSelectSpec ==
    ASSUME TypeOK, NEW w \in Workers, NEW fileID \in FileIDs, NEW index \in Indexes,
           NEW senderKey \in Keys, NEW recipientKey \in Keys, NEW raw \in RawHashes,
           NEW signer \in SignatureKeys, NEW persist \in BOOLEAN, NEW ttl \in TTLs,
           RegisterSelect(w, fileID, index, senderKey, recipientKey, raw, signer,
                          persist, ttl)
    PROVE  /\ UNCHANGED <<chunks, regs, now>>
           /\ \E op \in RegisterOp : Set(w, op) /\ Signed(op.row)
<1> DEFINE row == [key         |-> chunkKey(fileID, index),
                   Hash        |-> normalizeHash(raw),
                   SenderID    |-> senderKey,
                   RecipientID |-> recipientKey,
                   Persist     |-> persist,
                   Confirmed   |-> FALSE,
                   Readed      |-> FALSE,
                   CreatedAt   |-> now,
                   UpdatedAt   |-> now,
                   TTL         |-> OrDefault(ttl, DefaultChunkTTL)]
           op == [op |-> "register", row |-> row]
<1>1. OrDefault(ttl, DefaultChunkTTL) \in Nat \ {0}
  BY OrDefaultType, ScalarsAssumption
<1>2. now \in Nat /\ chunkKey(fileID, index) \in ChunkKeys /\ normalizeHash(raw) \in Hashes
  BY ChunkKeyType DEF TypeOK
<1>3. row \in Chunk
  BY <1>1, <1>2 DEF Chunk
<1>4. Set(w, op) /\ SignedBy(senderKey, signer) /\ UNCHANGED <<chunks, regs, now>>
  BY DEF RegisterSelect
<1>5. row.SenderID = senderKey
  OBVIOUS
<1> HIDE DEF row
<1>6. op \in RegisterOp /\ op.row = row
  BY <1>3 DEF RegisterOp
<1> HIDE DEF op
<1> QED
  BY <1>4, <1>5, <1>6 DEF Signed

\* The other first statements read, and leave a method in the middle.
LEMMA SelectsSpec ==
    ASSUME TypeOK, NEW w \in Workers
    PROVE  /\ \A req \in RegisterRequest : UpsertSelect(w, req) =>
                  /\ UNCHANGED <<chunks, regs, now>>
                  /\ \E op \in UpsertOp : Set(w, op)
           /\ \A fileID \in FileIDs, index \in Indexes, raw \in RawHashes,
                 signer \in SignatureKeys, source, reporter \in PeerIDs :
                  ReportSelectReporter(w, source, reporter, fileID, index, raw, signer) =>
                      /\ UNCHANGED <<chunks, regs, now>>
                      /\ \E op \in ReportOp : Set(w, op)
           /\ \A fileID \in FileIDs, index \in Indexes, raw \in RawHashes,
                 signer \in SignatureKeys, recipientKey \in Keys :
                  ConfirmSelectRecipient(w, recipientKey, fileID, index, raw, signer) =>
                      /\ UNCHANGED <<chunks, regs, now>>
                      /\ \E op \in ConfirmOp : Set(w, op)
           /\ \A fileID \in FileIDs, signer \in SignatureKeys, recipientKey \in Keys :
                  ReadSelect(w, recipientKey, fileID, signer) =>
                      /\ UNCHANGED <<chunks, regs, now>>
                      /\ \E op \in ReadOp : Set(w, op)
<1>1. ASSUME NEW req \in RegisterRequest, UpsertSelect(w, req)
      PROVE  /\ UNCHANGED <<chunks, regs, now>>
             /\ \E op \in UpsertOp : Set(w, op)
  <2>1. peers[req.ID] \in Peer \cup {None} /\ now \in Nat
    BY DEF TypeOK, RegisterRequest
  <2>2. [op |-> "upsert", req |-> req, at |-> now, existing |-> peers[req.ID]] \in UpsertOp
    BY <2>1 DEF UpsertOp
  <2> QED
    BY <1>1, <2>2 DEF UpsertSelect
<1>2. ASSUME NEW fileID \in FileIDs, NEW index \in Indexes, NEW raw \in RawHashes,
             NEW signer \in SignatureKeys, NEW source \in PeerIDs, NEW reporter \in PeerIDs,
             ReportSelectReporter(w, source, reporter, fileID, index, raw, signer)
      PROVE  /\ UNCHANGED <<chunks, regs, now>>
             /\ \E op \in ReportOp : Set(w, op)
  <2>1. [op |-> "report", source |-> source, key |-> chunkKey(fileID, index),
         hash |-> normalizeHash(raw)] \in ReportOp
    BY ChunkKeyType DEF ReportOp
  <2> QED
    BY <1>2, <2>1 DEF ReportSelectReporter
<1>3. ASSUME NEW fileID \in FileIDs, NEW index \in Indexes, NEW raw \in RawHashes,
             NEW signer \in SignatureKeys, NEW recipientKey \in Keys,
             ConfirmSelectRecipient(w, recipientKey, fileID, index, raw, signer)
      PROVE  /\ UNCHANGED <<chunks, regs, now>>
             /\ \E op \in ConfirmOp : Set(w, op)
  <2>1. [op |-> "confirm", recipient |-> recipientKey, key |-> chunkKey(fileID, index),
         hash |-> normalizeHash(raw)] \in ConfirmOp
    BY ChunkKeyType DEF ConfirmOp
  <2> QED
    BY <1>3, <2>1 DEF ConfirmSelectRecipient
<1>4. ASSUME NEW fileID \in FileIDs, NEW signer \in SignatureKeys, NEW recipientKey \in Keys,
             ReadSelect(w, recipientKey, fileID, signer)
      PROVE  /\ UNCHANGED <<chunks, regs, now>>
             /\ \E op \in ReadOp : Set(w, op)
  <2>1. [op |-> "read", recipient |-> recipientKey, file |-> fileID] \in ReadOp
    BY DEF ReadOp
  <2> QED
    BY <1>4, <2>1 DEF ReadSelect
<1> QED
  BY <1>1, <1>2, <1>3, <1>4

\* So do the statements in the middle, but for a method that ends.
LEMMA MiddleSpec ==
    ASSUME TypeOK, NEW w \in Workers
    PROVE  /\ ReportSelectHash(w) => /\ UNCHANGED <<chunks, regs, now>>
                                     /\ \E op \in ScoreOp : Set(w, op)
           /\ ConfirmSelectChunk(w) => /\ UNCHANGED <<chunks, regs, now>>
                                       /\ \E op \in CreditOp : Set(w, op)
           /\ ConfirmScore(w) => /\ UNCHANGED <<chunks, regs, now>>
                                 /\ \E op \in MarkOp \cup {None} : Set(w, op)
<1>1. ASSUME ReportSelectHash(w)
      PROVE  /\ UNCHANGED <<chunks, regs, now>>
             /\ \E op \in ScoreOp : Set(w, op)
  <2>1. ops[w] \in ReportOp
    BY <1>1, OpKinds DEF ReportSelectHash
  <2>2. \A valid \in BOOLEAN :
            [op |-> "score", source |-> ops[w].source, valid |-> valid] \in ScoreOp
    BY <2>1 DEF ReportOp, ScoreOp
  <2>3. PICK c \in rowsByKey(ops[w].key) :
            Set(w, [op     |-> "score",
                    source |-> ops[w].source,
                    valid  |-> ops[w].hash = chunks[c].Hash])
    BY <1>1 DEF ReportSelectHash
  <2>4. (ops[w].hash = chunks[c].Hash) \in BOOLEAN
    OBVIOUS
  <2> QED
    BY <1>1, <2>2, <2>3, <2>4 DEF ReportSelectHash
<1>2. ASSUME ConfirmSelectChunk(w)
      PROVE  /\ UNCHANGED <<chunks, regs, now>>
             /\ \E op \in CreditOp : Set(w, op)
  <2>1. ops[w] \in ConfirmOp
    BY <1>2, OpKinds DEF ConfirmSelectChunk
  <2>2. PICK c \in rowsByKey(ops[w].key) :
            Set(w, [op        |-> "credit",
                    recipient |-> ops[w].recipient,
                    key       |-> ops[w].key,
                    sender    |-> chunks[c].SenderID,
                    valid     |-> ops[w].hash = chunks[c].Hash])
    BY <1>2 DEF ConfirmSelectChunk
  <2>3. chunks[c] \in Chunk
    BY DEF rowsByKey, TypeOK
  <2>4. chunks[c].SenderID \in Keys /\ (ops[w].hash = chunks[c].Hash) \in BOOLEAN
    BY <2>3 DEF Chunk
  <2>5. \A sender \in Keys, valid \in BOOLEAN :
            [op |-> "credit", recipient |-> ops[w].recipient, key |-> ops[w].key,
             sender |-> sender, valid |-> valid] \in CreditOp
    BY <2>1 DEF ConfirmOp, CreditOp
  <2> QED
    BY <1>2, <2>2, <2>4, <2>5 DEF ConfirmSelectChunk
<1>3. ASSUME ConfirmScore(w)
      PROVE  /\ UNCHANGED <<chunks, regs, now>>
             /\ \E op \in MarkOp \cup {None} : Set(w, op)
  <2>1. ops[w] \in CreditOp
    BY <1>3, OpKinds DEF ConfirmScore
  <2>2. [op |-> "mark", recipient |-> ops[w].recipient, key |-> ops[w].key] \in MarkOp
    BY <2>1 DEF CreditOp, MarkOp
  <2> QED
    BY <1>3, <2>2 DEF ConfirmScore
<1> QED
  BY <1>1, <1>2, <1>3

\* Where the chunks of the next state come from: they were there, with this
\* sender, or are the row of a registration.
Kept ==
    \A c \in Slots : chunks'[c] # None =>
        \/ chunks[c] # None /\ chunks'[c].SenderID = chunks[c].SenderID
        \/ \E w \in Workers : In(w, "register") /\ chunks'[c] = ops[w].row

LEMMA InsertSpec ==
    ASSUME TypeOK, NEW w \in Workers, RegisterInsert(w)
    PROVE  chunks' \in [Slots -> Chunk \cup {None}] /\ regs' \in Nat /\ Kept
<1> DEFINE row == ops[w].row
<1>1. row \in Chunk /\ In(w, "register")
  BY OpKinds DEF RegisterInsert, RegisterOp
<1>2. chunks' = [chunks EXCEPT ![regs + 1] = row] /\ regs' = regs + 1
  BY DEF RegisterInsert
<1>3. chunks \in [Slots -> Chunk \cup {None}] /\ regs \in Nat
  BY DEF TypeOK
<1> HIDE DEF row
<1>4. chunks' \in [Slots -> Chunk \cup {None}]
  BY <1>1, <1>2, <1>3
<1>5. regs' \in Nat
  BY <1>2, <1>3
<1>6. \A c \in Slots : chunks'[c] = chunks[c] \/ chunks'[c] = row
  BY <1>2, <1>3
<1> QED
  BY <1>1, <1>4, <1>5, <1>6 DEF Kept, row

\* The UPDATEs of ConfirmChunk and ReadChunk, and the cleaner's DELETE.
LEMMA MarkSpec ==
    ASSUME TypeOK,
           \/ \E w \in Workers : ConfirmMark(w) \/ ReadMark(w)
           \/ DeleteExpiredChunks
    PROVE  chunks' \in [Slots -> Chunk \cup {None}] /\ Kept
<1>t. chunks \in [Slots -> Chunk \cup {None}] /\ now \in Nat
  BY DEF TypeOK
<1> DEFINE Mark(c, new) == /\ new \in Chunk
                           /\ chunks[c] \in Chunk
                           /\ new.SenderID = chunks[c].SenderID
<1>1. /\ chunks' = [c \in Slots |-> chunks'[c]]
      /\ \A c \in Slots : \/ chunks'[c] = chunks[c] \/ chunks'[c] = None
                          \/ Mark(c, chunks'[c])
  <2>1. ASSUME NEW w \in Workers, ConfirmMark(w)
        PROVE  /\ chunks' = [c \in Slots |-> chunks'[c]]
               /\ \A c \in Slots : chunks'[c] = chunks[c] \/ Mark(c, chunks'[c])
    <3>1. ASSUME NEW c \in Slots, c \in rowsByKey(ops[w].key)
          PROVE  Mark(c, [chunks[c] EXCEPT !.Confirmed = TRUE, !.UpdatedAt = now])
      <4>1. chunks[c] \in Chunk
        BY <1>t, <3>1 DEF rowsByKey
      <4> QED
        BY <1>t, <4>1 DEF Chunk
    <3> HIDE DEF Mark
    <3>2. \A c \in Slots :
              \/ chunks'[c] = chunks[c]
              \/ /\ c \in rowsByKey(ops[w].key)
                 /\ chunks'[c] = [chunks[c] EXCEPT !.Confirmed = TRUE, !.UpdatedAt = now]
      BY <2>1, Zenon DEF ConfirmMark
    <3> QED
      BY <2>1, <3>1, <3>2, Zenon DEF ConfirmMark
  <2>2. ASSUME NEW w \in Workers, ReadMark(w)
        PROVE  /\ chunks' = [c \in Slots |-> chunks'[c]]
               /\ \A c \in Slots : chunks'[c] = chunks[c] \/ Mark(c, chunks'[c])
    <3>1. ASSUME NEW c \in Slots, NEW i, c \in rowsByKey(chunkKey(ops[w].file, i))
          PROVE  Mark(c, [chunks[c] EXCEPT !.Readed = TRUE, !.UpdatedAt = now])
      <4>1. chunks[c] \in Chunk
        BY <1>t, <3>1 DEF rowsByKey
      <4> QED
        BY <1>t, <4>1 DEF Chunk
    <3> HIDE DEF Mark
    <3>2. \A c \in Slots :
              \/ chunks'[c] = chunks[c]
              \/ /\ \E i \in Indexes : c \in rowsByKey(chunkKey(ops[w].file, i))
                 /\ chunks'[c] = [chunks[c] EXCEPT !.Readed = TRUE, !.UpdatedAt = now]
      BY <2>2, Zenon DEF ReadMark
    <3> QED
      BY <2>2, <3>1, <3>2, Zenon DEF ReadMark
  <2>3. CASE DeleteExpiredChunks
    BY <2>3 DEF DeleteExpiredChunks
  <2> QED
    BY <2>1, <2>2, <2>3
<1>2. \A c \in Slots : chunks'[c] \in Chunk \cup {None}
  BY <1>t, <1>1
<1> QED
  BY <1>t, <1>1, <1>2, NoneAssumption DEF Kept

\* A method ends, or is in its middle; one that has just begun to register a
\* chunk has checked the signature of its sender.
Going ==
    /\ ops' \in [Workers -> Op \cup {None}]
    /\ \A w \in Workers : In(w, "register")' => ops'[w] = ops[w] \/ Signed(ops'[w].row)

LEMMA SetGoing ==
    ASSUME TypeOK, NEW w \in Workers, NEW op, Set(w, op),
           \/ op = None
           \/ op \in UpsertOp \cup ReportOp \cup ScoreOp \cup ConfirmOp
                       \cup CreditOp \cup MarkOp \cup ReadOp
           \/ op \in RegisterOp /\ Signed(op.row)
    PROVE  Going
<1>1. /\ ops'[w] = op
      /\ \A v \in Workers : v # w => ops'[v] = ops[v]
  BY DEF Set, TypeOK
<1>2. op \in Op \cup {None}
  BY DEF Op
<1>3. op.op = "register" => op = None \/ op \in RegisterOp
  BY DEF UpsertOp, ReportOp, ScoreOp, ConfirmOp, CreditOp, MarkOp, ReadOp
<1>4. op # None /\ op.op = "register" => Signed(op.row)
  BY DEF UpsertOp, ReportOp, ScoreOp, ConfirmOp, CreditOp, MarkOp, ReadOp
<1> QED
  BY <1>1, <1>2, <1>4, SetType DEF Going, In

LEMMA SameGoing ==
    ASSUME TypeOK, UNCHANGED ops
    PROVE  Going
BY DEF Going, TypeOK

LEMMA ChunksChange ==
    ASSUME TypeOK, [Next]_vars
    PROVE  /\ chunks' \in [Slots -> Chunk \cup {None}] /\ regs' \in Nat /\ now' \in Nat
           /\ Kept
           /\ Going
<1> DEFINE Goal == /\ chunks' \in [Slots -> Chunk \cup {None}]
                   /\ regs' \in Nat /\ now' \in Nat
                   /\ Kept
<1>t. chunks \in [Slots -> Chunk \cup {None}] /\ regs \in Nat /\ now \in Nat
  BY DEF TypeOK
<1>0. ASSUME UNCHANGED <<chunks, regs>>, now' \in Nat PROVE Goal
  BY <1>0, <1>t DEF Kept
<1> HIDE DEF Goal
<1>1. ASSUME NEW w \in Workers, PeerStep(w) PROVE Goal /\ Going
  <2>1. CASE \E req \in RegisterRequest : UpsertSelect(w, req)
    BY <1>0, <1>t, <2>1, SelectsSpec, SetGoing
  <2>2. CASE UpsertInsert(w) \/ UpsertUpdate(w)
    <3>1. Set(w, None) /\ UNCHANGED <<chunks, regs, now>>
      BY <2>2 DEF UpsertInsert, UpsertUpdate
    <3> QED
      BY <1>0, <1>t, <3>1, SetGoing
  <2> QED
    BY <1>1, <2>1, <2>2 DEF PeerStep
<1>2. ASSUME NEW w \in Workers, ChunkStep(w) PROVE Goal /\ Going
  <2>1. ASSUME NEW fileID \in FileIDs, NEW index \in Indexes,
               NEW signer \in SignatureKeys, NEW raw \in RawHashes,
               \/ \E senderKey, recipientKey \in Keys, persist \in BOOLEAN, ttl \in TTLs :
                     RegisterSelect(w, fileID, index, senderKey, recipientKey, raw,
                                    signer, persist, ttl)
               \/ \E source, reporter \in PeerIDs :
                     ReportSelectReporter(w, source, reporter, fileID, index, raw, signer)
               \/ \E recipientKey \in Keys :
                     ConfirmSelectRecipient(w, recipientKey, fileID, index, raw, signer)
        PROVE  Goal /\ Going
    <3>1. /\ UNCHANGED <<chunks, regs, now>>
          /\ \/ \E op \in RegisterOp : Set(w, op) /\ Signed(op.row)
             \/ \E op \in ReportOp \cup ConfirmOp : Set(w, op)
      BY <2>1, RegisterSelectSpec, SelectsSpec
    <3> QED
      BY <1>0, <1>t, <3>1, SetGoing
  <2>2. CASE \E fileID \in FileIDs, signer \in SignatureKeys, recipientKey \in Keys :
               ReadSelect(w, recipientKey, fileID, signer)
    BY <1>0, <1>t, <2>2, SelectsSpec, SetGoing
  <2>3. CASE ReportSelectHash(w) \/ ConfirmSelectChunk(w) \/ ConfirmScore(w)
    <3>1. /\ UNCHANGED <<chunks, regs, now>>
          /\ \E op \in ScoreOp \cup CreditOp \cup MarkOp \cup {None} : Set(w, op)
      BY <2>3, MiddleSpec
    <3> QED
      BY <1>0, <1>t, <3>1, SetGoing
  <2>4. CASE ReportUpdate(w) \/ Abort(w)
    <3>1. Set(w, None) /\ UNCHANGED <<chunks, regs, now>>
      BY <2>4 DEF ReportUpdate, Abort
    <3> QED
      BY <1>0, <1>t, <3>1, SetGoing
  <2>5. CASE RegisterInsert(w)
    <3>1. Set(w, None) /\ UNCHANGED now
      BY <2>5 DEF RegisterInsert
    <3> QED
      BY <1>t, <2>5, <3>1, InsertSpec, SetGoing DEF Goal
  <2>6. CASE ConfirmMark(w) \/ ReadMark(w)
    <3>1. Set(w, None) /\ UNCHANGED <<regs, now>>
      BY <2>6 DEF ConfirmMark, ReadMark
    <3> QED
      BY <1>t, <2>6, <3>1, MarkSpec, SetGoing DEF Goal
  <2> QED
    BY <1>2, <2>1, <2>2, <2>3, <2>4, <2>5, <2>6 DEF ChunkStep
<1>3. ASSUME chunks' = chunks, regs' = regs, ops' = ops, now' \in Nat PROVE Goal /\ Going
  BY <1>0, <1>3, SameGoing
<1>4. ASSUME NEW id \in PeerIDs, Delete(id) PROVE Goal /\ Going
  <2>1. chunks' = chunks /\ regs' = regs /\ ops' = ops /\ now' = now
    BY <1>4 DEF Delete
  <2> QED
    BY <1>t, <1>3, <2>1
<1>5. ASSUME NEW id \in PeerIDs, NEW ttl \in TTLs, Heartbeat(id, ttl) PROVE Goal /\ Going
  <2>1. chunks' = chunks /\ regs' = regs /\ ops' = ops /\ now' = now
    BY <1>5 DEF Heartbeat
  <2> QED
    BY <1>t, <1>3, <2>1
<1>6. ASSUME Tick PROVE Goal /\ Going
  <2>1. chunks' = chunks /\ regs' = regs /\ ops' = ops /\ now' = now + 1
    BY <1>6 DEF Tick
  <2>2. now' \in Nat
    BY <1>t, <2>1
  <2> QED
    BY <1>3, <2>1, <2>2
<1>7. ASSUME UNCHANGED vars PROVE Goal /\ Going
  <2>1. chunks' = chunks /\ regs' = regs /\ ops' = ops /\ now' = now
    BY <1>7 DEF vars
  <2> QED
    BY <1>t, <1>3, <2>1
<1>8. ASSUME DeleteExpiredChunks PROVE Goal /\ Going
  <2>1. UNCHANGED <<regs, now, ops>>
    BY <1>8 DEF DeleteExpiredChunks
  <2> QED
    BY <1>t, <1>8, <2>1, MarkSpec, SameGoing DEF Goal
<1>9. Goal /\ Going
  BY <1>1, <1>2, <1>4, <1>5, <1>6, <1>7, <1>8 DEF Next
<1> QED
  BY <1>9 DEF Goal

LEMMA InitType == Init => TypeOK
<1> SUFFICES ASSUME Init PROVE TypeOK
  OBVIOUS
<1>1. NoVerdicts \in Tally
  BY DEF NoVerdicts, Tally
<1> QED
  BY <1>1 DEF Init, TypeOK

LEMMA NextType == TypeOK /\ [Next]_vars => TypeOK'
<1> SUFFICES ASSUME TypeOK, [Next]_vars PROVE TypeOK'
  OBVIOUS
<1>1. /\ peers' \in [PeerIDs -> Peer \cup {None}]
      /\ verdicts' \in [PeerIDs -> Tally]
  BY PeersType
<1>2. /\ chunks' \in [Slots -> Chunk \cup {None}] /\ regs' \in Nat /\ now' \in Nat
      /\ ops' \in [Workers -> Op \cup {None}]
  BY ChunksChange DEF Going
<1> QED
  BY <1>1, <1>2 DEF TypeOK

\* The rows of the tables and what the methods carry are what they should be,
\* for every value of the constants.
THEOREM TypeCorrect == Spec => []TypeOK
BY InitType, NextType, PTL DEF Spec

-----------------------------------------------------------------------------
(***************************************************************************)
(* Verdicts.  VerdictLedger is inductive, given the types: the UPDATEs are *)
(* relative, so it does not matter what a method read before.              *)
(***************************************************************************)
\* Score and counters are exactly the verdicts passed since registration,
\* however the statements of Upsert, ReportChunk and ConfirmChunk interleave
\* and wherever they fail.
THEOREM VerdictsCorrect == Spec => []VerdictLedger
<1>1. Init => VerdictLedger
  BY DEF Init, VerdictLedger
<1>2. TypeOK /\ VerdictLedger /\ [Next]_vars => VerdictLedger'
  <2> SUFFICES ASSUME TypeOK, VerdictLedger, [Next]_vars PROVE VerdictLedger'
    OBVIOUS
  <2> DEFINE Balanced(row, tally) ==
                 row # None => /\ row.ValidReports = tally.valid
                               /\ row.InvalidReports = tally.invalid
                               /\ row.QualityScore =
                                      InitialQualityScore + tally.valid - tally.invalid
  <2>0. \A i \in PeerIDs : Balanced(peers[i], verdicts[i])
    BY DEF VerdictLedger
  <2>g. ASSUME \A i \in PeerIDs : Balanced(peers'[i], verdicts'[i])
        PROVE  VerdictLedger'
    BY <2>g DEF VerdictLedger
  <2>t. /\ peers \in [PeerIDs -> Peer \cup {None}]
        /\ verdicts \in [PeerIDs -> Tally]
    BY DEF TypeOK
  <2>1. CASE UNCHANGED <<peers, verdicts>>
    BY <2>1, <2>0, <2>g
  <2>2. ASSUME NEW id \in PeerIDs, NEW row \in Peer, Inserted(id, row)
        PROVE  VerdictLedger'
    <3>1. Balanced(row, NoVerdicts)
      BY <2>2 DEF NoVerdicts, InitialQualityScore, Inserted
    <3> HIDE DEF Balanced
    <3> QED
      BY <2>0, <2>2, <2>g, <2>t, <3>1 DEF Inserted
  <2>3. ASSUME NEW id \in PeerIDs, NEW row \in Peer, Touched(id, row)
        PROVE  VerdictLedger'
    <3>1. Balanced(row, verdicts[id])
      BY <2>0, <2>3, NoneAssumption DEF Touched
    <3> HIDE DEF Balanced
    <3> QED
      BY <2>0, <2>3, <2>g, <2>t, <3>1 DEF Touched
  <2>4. ASSUME NEW id \in PeerIDs, Delete(id) PROVE VerdictLedger'
    <3>1. Balanced(None, verdicts[id])
      OBVIOUS
    <3> HIDE DEF Balanced
    <3> QED
      BY <2>0, <2>4, <2>g, <2>t, <3>1 DEF Delete
  <2>5. ASSUME NEW ids \in SUBSET Present, NEW valid \in BOOLEAN,
               UpdateQuality(ids, valid)
        PROVE  VerdictLedger'
    <3>1. ASSUME NEW id \in ids PROVE Balanced(peers'[id], verdicts'[id])
      <4>1. /\ peers[id] \in Peer /\ peers[id] # None /\ id \in PeerIDs
            /\ peers'[id] = Scored(peers[id], valid)
            /\ verdicts'[id].valid = verdicts[id].valid + (IF valid THEN 1 ELSE 0)
            /\ verdicts'[id].invalid = verdicts[id].invalid + (IF valid THEN 0 ELSE 1)
        BY <2>5, UpdateQualitySpec DEF Present
      <4>2. /\ peers'[id].QualityScore = peers[id].QualityScore + (IF valid THEN 1 ELSE -1)
            /\ peers'[id].ValidReports = peers[id].ValidReports + (IF valid THEN 1 ELSE 0)
            /\ peers'[id].InvalidReports = peers[id].InvalidReports + (IF valid THEN 0 ELSE 1)
        BY <4>1, ScoredType
      <4>3. verdicts[id].valid \in Nat /\ verdicts[id].invalid \in Nat
        BY <2>t, <4>1 DEF Tally
      <4>4. /\ peers[id].ValidReports = verdicts[id].valid
            /\ peers[id].InvalidReports = verdicts[id].invalid
            /\ peers[id].QualityScore =
                   InitialQualityScore + verdicts[id].valid - verdicts[id].invalid
        BY <2>0, <4>1
      <4>5. CASE valid
        <5>1. /\ (IF valid THEN 1 ELSE -1) = 1
              /\ (IF valid THEN 1 ELSE 0) = 1
              /\ (IF valid THEN 0 ELSE 1) = 0
          BY <4>5
        <5> QED
          BY <4>1, <4>2, <4>3, <4>4, <5>1 DEF InitialQualityScore
      <4>6. CASE ~valid
        <5>1. /\ (IF valid THEN 1 ELSE -1) = -1
              /\ (IF valid THEN 1 ELSE 0) = 0
              /\ (IF valid THEN 0 ELSE 1) = 1
          BY <4>6
        <5> QED
          BY <4>1, <4>2, <4>3, <4>4, <5>1 DEF InitialQualityScore
      <4> QED
        BY <4>5, <4>6
    <3>2. ASSUME NEW id \in PeerIDs \ ids PROVE Balanced(peers'[id], verdicts'[id])
      BY <2>0, <2>5, UpdateQualitySpec
    <3> HIDE DEF Balanced
    <3> QED
      BY <2>g, <3>1, <3>2
  <2> QED
    BY <2>1, <2>2, <2>3, <2>4, <2>5, PeersChange
<1> QED
  BY <1>1, <1>2, TypeCorrect, PTL DEF Spec

-----------------------------------------------------------------------------
(***************************************************************************)
(* Senders.                                                                *)
(***************************************************************************)
\* The sender of a chunk that is or will be registered is one login part and
\* one key part: only such a key passes the signature check.
SplitInv ==
    /\ \A c \in Slots : chunks[c] # None => Len(chunks[c].SenderID) = 2
    /\ \A w \in Workers : In(w, "register") => Len(ops[w].row.SenderID) = 2

LEMMA SignedKey ==
    ASSUME TypeOK, NEW key \in Keys, NEW signer, SignedBy(key, signer)
    PROVE  Len(key) = 2
<1>1. PICK id \in PeerIDs : /\ peers[id].SignatureKey = Tail(key)
                            /\ Len(peers[id].SignatureKey) = 1
  BY DEF SignedBy, getPeerByKey, verifyPeerSignature, Verify
<1>2. PICK l \in Logins, s \in SignatureKeys : key = l \o s
  BY DEF Keys, KeyString
<1>3. l \in Seq(STRING) /\ s \in Seq(STRING) /\ l # <<>>
  BY StringsAssumption
<1>4. key \in Seq(STRING) /\ Len(key) = Len(l) + Len(s)
  BY <1>2, <1>3, ConcatProperties
<1>5. Len(l) \in Nat \ {0} /\ Len(s) \in Nat
  BY <1>3, EmptySeq, LenProperties
<1>6. key # <<>>
  BY <1>4, <1>5, EmptySeq
<1>7. Len(Tail(key)) = Len(key) - 1 /\ Len(key) \in Nat
  BY <1>4, <1>6, HeadTailProperties, LenProperties
<1> QED
  BY <1>1, <1>7

LEMMA NextSplit == TypeOK /\ SplitInv /\ [Next]_vars => SplitInv'
<1> SUFFICES ASSUME TypeOK, SplitInv, [Next]_vars PROVE SplitInv'
  OBVIOUS
<1>1. Kept /\ Going /\ TypeOK'
  BY ChunksChange, NextType
<1>2. ASSUME NEW c \in Slots, chunks'[c] # None PROVE Len(chunks'[c].SenderID) = 2
  BY <1>1, <1>2 DEF Kept, SplitInv
<1>3. ASSUME NEW w \in Workers, In(w, "register")' PROVE Len(ops'[w].row.SenderID) = 2
  <2>1. CASE ops'[w] = ops[w]
    <3>1. In(w, "register")
      BY <1>3, <2>1 DEF In
    <3> QED
      BY <2>1, <3>1 DEF SplitInv
  <2>2. CASE Signed(ops'[w].row)
    <3>1. ops'[w] \in RegisterOp
      <4>1. ops'[w] \in Op /\ ops'[w].op = "register"
        BY <1>1, <1>3 DEF TypeOK, In
      <4> QED
        BY <4>1 DEF Op, UpsertOp, RegisterOp, ReportOp, ScoreOp, ConfirmOp, CreditOp,
                    MarkOp, ReadOp
    <3>2. ops'[w].row.SenderID \in Keys
      BY <3>1 DEF RegisterOp, Chunk
    <3> QED
      BY <2>2, <3>2, SignedKey DEF Signed
  <2> QED
    BY <1>1, <1>3, <2>1, <2>2 DEF Going
<1> QED
  BY <1>2, <1>3 DEF SplitInv

\* The sender of a chunk means the same peers where its signature is checked
\* (login and key, split) and where it is scored (the key column), for any
\* logins and keys, those with ":" included.
THEOREM SendersResolved == Spec => []SenderResolved
<1>1. Init => SplitInv
  BY DEF Init, SplitInv, In
<1>2. TypeOK /\ SplitInv => SenderResolved
  <2> SUFFICES ASSUME TypeOK, SplitInv, NEW id \in PeerIDs, NEW k \in Keys,
                      peers[id] # None, Key(peers[id]) = k,
                      \/ \E c \in Slots : chunks[c] # None /\ chunks[c].SenderID = k
                      \/ \E w \in Workers : In(w, "register") /\ ops[w].row.SenderID = k
               PROVE  peers[id].Login = <<Head(k)>> /\ peers[id].SignatureKey = Tail(k)
    BY DEF SenderResolved
  <2>1. Len(k) = 2
    BY DEF SplitInv
  <2>2. peers[id] \in Peer
    BY DEF TypeOK
  <2> QED
    BY <2>1, <2>2, JoinedKey
<1> QED
  BY <1>1, <1>2, NextSplit, TypeCorrect, PTL DEF Spec

-----------------------------------------------------------------------------
(***************************************************************************)
(* The peers table is a directory.                                         *)
(***************************************************************************)
\* The entry of a row is an entry of the directory.
LEMMA EntryOfType ==
    ASSUME NEW row \in Peer
    PROVE  /\ EntryOf(row) \in Directory!Entry
           /\ EntryOf(row) # None
           /\ Identity(row) \in Identities
<1>1. Identity(row) \in Identities
  BY DEF Identity, Identities, Peer
<1>2. row.QualityScore \in Int /\ row.ValidReports \in Nat /\ row.InvalidReports \in Nat
  BY DEF Peer
<1>3. EntryOf(row) \in Directory!Entry
  BY <1>1, <1>2 DEF EntryOf, Directory!Entry
<1> QED
  BY <1>1, <1>3, AbsentAssumption

\* A row that keeps its identity and its numbers keeps its entry.
LEMMA EntryOfSame ==
    ASSUME NEW old, NEW new,
           new.Login = old.Login,
           new.SignatureKey = old.SignatureKey,
           new.EncryptionKey = old.EncryptionKey,
           new.Fake = old.Fake,
           new.QualityScore = old.QualityScore,
           new.ValidReports = old.ValidReports,
           new.InvalidReports = old.InvalidReports
    PROVE  EntryOf(new) = EntryOf(old)
BY DEF EntryOf, Identity

\* An entry is its four fields.
LEMMA EntryEqual ==
    ASSUME NEW a \in Directory!Entry, NEW b \in Directory!Entry,
           a.identity = b.identity, a.score = b.score,
           a.valid = b.valid, a.invalid = b.invalid
    PROVE  a = b
BY DEF Directory!Entry

\* What a verdict makes of an entry.
LEMMA JudgedSpec ==
    ASSUME NEW entry \in Directory!Entry, NEW valid \in BOOLEAN
    PROVE  LET new == Directory!Judged(entry, valid)
           IN  /\ new \in Directory!Entry
               /\ new.identity = entry.identity
               /\ new.score = entry.score + (IF valid THEN 1 ELSE -1)
               /\ new.valid = entry.valid + (IF valid THEN 1 ELSE 0)
               /\ new.invalid = entry.invalid + (IF valid THEN 0 ELSE 1)
<1> DEFINE new == Directory!Judged(entry, valid)
<1>1. entry.score \in Int /\ entry.valid \in Nat /\ entry.invalid \in Nat
  BY DEF Directory!Entry
<1>2. CASE valid
  <2>1. PICK q \in Int, v \in Nat : q = entry.score + 1 /\ v = entry.valid + 1
    BY <1>1
  <2>2. new = [entry EXCEPT !.score = q, !.valid = v]
    BY <1>2, <2>1 DEF Directory!Judged
  <2>3. /\ new \in Directory!Entry
        /\ new.identity = entry.identity
        /\ new.score = q /\ new.valid = v /\ new.invalid = entry.invalid
    BY <2>2 DEF Directory!Entry
  <2>4. /\ (IF valid THEN 1 ELSE -1) = 1
        /\ (IF valid THEN 1 ELSE 0) = 1
        /\ (IF valid THEN 0 ELSE 1) = 0
    BY <1>2
  <2> QED
    BY <1>1, <2>1, <2>3, <2>4
<1>3. CASE ~valid
  <2>1. PICK q \in Int, v \in Nat : q = entry.score - 1 /\ v = entry.invalid + 1
    BY <1>1
  <2>2. new = [entry EXCEPT !.score = q, !.invalid = v]
    BY <1>3, <2>1 DEF Directory!Judged
  <2>3. /\ new \in Directory!Entry
        /\ new.identity = entry.identity
        /\ new.score = q /\ new.valid = entry.valid /\ new.invalid = v
    BY <2>2 DEF Directory!Entry
  <2> QED
    BY <1>1, <1>3, <2>1, <2>3
<1> QED
  BY <1>2, <1>3

\* A verdict on a row is a verdict on its entry.
LEMMA EntryOfScored ==
    ASSUME NEW row \in Peer, NEW valid \in BOOLEAN
    PROVE  EntryOf(Scored(row, valid)) = Directory!Judged(EntryOf(row), valid)
<1> DEFINE new == Scored(row, valid)
           entry == EntryOf(row)
           judged == Directory!Judged(entry, valid)
<1>1. /\ new \in Peer
      /\ Identity(new) = Identity(row)
      /\ new.QualityScore = row.QualityScore + (IF valid THEN 1 ELSE -1)
      /\ new.ValidReports = row.ValidReports + (IF valid THEN 1 ELSE 0)
      /\ new.InvalidReports = row.InvalidReports + (IF valid THEN 0 ELSE 1)
  BY ScoredType DEF Identity
<1>2. EntryOf(new) \in Directory!Entry /\ entry \in Directory!Entry
  BY <1>1, EntryOfType
<1>3. /\ judged \in Directory!Entry
      /\ judged.identity = entry.identity
      /\ judged.score = entry.score + (IF valid THEN 1 ELSE -1)
      /\ judged.valid = entry.valid + (IF valid THEN 1 ELSE 0)
      /\ judged.invalid = entry.invalid + (IF valid THEN 0 ELSE 1)
  BY <1>2, JudgedSpec
<1>4. /\ entry.identity = Identity(row)
      /\ entry.score = row.QualityScore
      /\ entry.valid = row.ValidReports
      /\ entry.invalid = row.InvalidReports
  BY DEF EntryOf
<1> HIDE DEF new, judged
<1>5. /\ EntryOf(new).identity = Identity(new)
      /\ EntryOf(new).score = new.QualityScore
      /\ EntryOf(new).valid = new.ValidReports
      /\ EntryOf(new).invalid = new.InvalidReports
  BY DEF EntryOf
<1> HIDE DEF entry
<1>6. EntryOf(new) = judged
  BY <1>1, <1>2, <1>3, <1>4, <1>5, EntryEqual
<1> QED
  BY <1>6 DEF new, judged, entry

\* Every statement is a step of the directory, or leaves it alone.
LEMMA StepImplements ==
    TypeOK /\ [Next]_vars => [Directory!Next]_Entries
<1> SUFFICES ASSUME TypeOK, [Next]_vars PROVE [Directory!Next]_Entries
  OBVIOUS
<1>t. peers \in [PeerIDs -> Peer \cup {None}]
  BY DEF TypeOK
<1>1. CASE UNCHANGED <<peers, verdicts>>
  BY <1>1 DEF Entries
<1>2. ASSUME NEW id \in PeerIDs, NEW row \in Peer, Inserted(id, row)
      PROVE  Directory!Next
  <2>1. Identity(row) \in Identities
    BY EntryOfType
  <2>2. EntryOf(row) = [identity |-> Identity(row), score |-> InitialQualityScore,
                        valid |-> 0, invalid |-> 0]
    BY <1>2 DEF EntryOf, Inserted
  <2>3. Entries' = [Entries EXCEPT ![id] = EntryOf(row)]
    BY <1>t, <1>2, NoneAssumption DEF Entries, Inserted
  <2>4. Directory!Register(id, Identity(row))
    BY <1>2, <2>2, <2>3 DEF Directory!Register, Entries, Inserted
  <2> QED
    BY <2>1, <2>4 DEF Directory!Next
<1>3. ASSUME NEW id \in PeerIDs, NEW row \in Peer, Touched(id, row)
      PROVE  UNCHANGED Entries
  <2>1. EntryOf(row) = EntryOf(peers[id])
    BY <1>3, EntryOfSame DEF Touched
  <2> QED
    BY <1>t, <1>3, <2>1, NoneAssumption DEF Entries, Touched
<1>4. ASSUME NEW id \in PeerIDs, Delete(id) PROVE Directory!Next
  <2>1. peers[id] # None /\ peers' = [peers EXCEPT ![id] = None]
    BY <1>4 DEF Delete
  <2>2. Entries[id] # None
    BY <1>t, <2>1, EntryOfType DEF Entries
  <2>3. Entries' = [Entries EXCEPT ![id] = None]
    BY <1>t, <2>1 DEF Entries
  <2>4. Directory!Remove(id)
    BY <2>2, <2>3 DEF Directory!Remove
  <2> QED
    BY <2>4 DEF Directory!Next
<1>5. ASSUME NEW ids \in SUBSET Present, NEW valid \in BOOLEAN, UpdateQuality(ids, valid)
      PROVE  Directory!Next
  <2>1. ids \subseteq PeerIDs
    BY DEF Present
  <2>2. ASSUME NEW id \in ids
        PROVE  Entries[id] # None /\ Entries'[id] = Directory!Judged(Entries[id], valid)
    <3>1. /\ id \in PeerIDs /\ peers[id] \in Peer /\ peers[id] # None
          /\ peers'[id] = Scored(peers[id], valid)
      BY <1>5, UpdateQualitySpec DEF Present
    <3>2. Scored(peers[id], valid) # None
      BY <3>1, ScoredType, NoneAssumption
    <3>3. Entries[id] = EntryOf(peers[id]) /\ Entries[id] # None
      BY <3>1, EntryOfType DEF Entries
    <3>4. Entries'[id] = EntryOf(Scored(peers[id], valid))
      BY <3>1, <3>2 DEF Entries
    <3> QED
      BY <3>1, <3>3, <3>4, EntryOfScored
  <2>3. ASSUME NEW id \in PeerIDs \ ids PROVE Entries'[id] = Entries[id]
    <3>1. peers'[id] = peers[id]
      BY <1>5, UpdateQualitySpec
    <3> QED
      BY <3>1 DEF Entries
  <2>4. Entries' = [id \in PeerIDs |-> Entries'[id]]
    BY DEF Entries
  <2>5. Entries' = [id \in PeerIDs |->
                       IF id \in ids THEN Directory!Judged(Entries[id], valid)
                       ELSE Entries[id]]
    BY <2>2, <2>3, <2>4
  <2>6. Directory!Judge(ids, valid)
    BY <2>1, <2>2, <2>5 DEF Directory!Judge, Directory!Present
  <2> QED
    BY <2>1, <2>6 DEF Directory!Next
<1> QED
  BY <1>1, <1>2, <1>3, <1>4, <1>5, PeersChange

\* The database store keeps the same promise as the in-memory one, and the
\* login too, for any number of peers and of requests between whose
\* statements others run: an entry keeps its identity until Delete, and its
\* score and counters move by one verdict at a time.
THEOREM DirectoryCorrect == Spec => ImplementsDirectory
<1>1. Init => Directory!Init
  BY DEF Init, Directory!Init, Entries
<1>2. TypeOK /\ [Next]_vars => [Directory!Next]_Entries
  BY StepImplements
<1> QED
  BY <1>1, <1>2, TypeCorrect, PTL DEF Spec, Directory!Spec, ImplementsDirectory
=============================================================================
