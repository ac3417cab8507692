------------------------------- MODULE Batches -------------------------------
(***************************************************************************)
(* The batch endpoints of internal/handler/phonebook.go over the in-memory *)
(* store: POST /files/{file_id}/chunks registers a list of chunks, POST    *)
(* /chunks/confirm-batch confirms one.  The handler calls the store once   *)
(* per entry, each call a critical section of its own, and stops at the    *)
(* first entry the store refuses: what it has done stays.  A client that   *)
(* was answered with an error, or not at all, sends the batch again.       *)
(***************************************************************************)
EXTENDS MemoryStore

CONSTANTS
    Handlers,          \* goroutines that may serve a batch
    RegisterBatches,   \* batches of RegisterChunkBatch: a file id and entries
    ConfirmBatches     \* batches of ConfirmChunkBatch: a recipient and entries

\* The TTL of an entry is decoded and not passed on.
RegisterEntry == [index : Indexes, sender : Keys, recipient : Keys,
                  raw : RawHashes, signer : SignatureKeys, persist : BOOLEAN,
                  ttl : TTLs]

ConfirmEntry == [file : FileIDs, index : Indexes, raw : RawHashes,
                 signer : SignatureKeys]

ASSUME BatchesAssumption ==
    /\ RegisterBatches \subseteq [file : FileIDs, entries : Seq(RegisterEntry)]
    /\ ConfirmBatches \subseteq [recipient : Keys, entries : Seq(ConfirmEntry)]
    /\ 0 \in TTLs                            \* a request without a ttl
    /\ None \notin {"NoContent", "error"}

VARIABLES
    batch,   \* per handler: None, or the batch and the entries it has served
    slots,   \* ghost: per handler, the chunk each served entry made or found
    answer   \* the last status the handler wrote, None while it serves

bvars == <<vars, batch, slots, answer>>

Batch == [op : {"register"}, of : RegisterBatches, done : Nat]
           \cup [op : {"confirm"}, of : ConfirmBatches, done : Nat]

BatchInit ==
    /\ Init
    /\ batch = [h \in Handlers |-> None]
    /\ slots = [h \in Handlers |-> <<>>]
    /\ answer = [h \in Handlers |-> None]

-----------------------------------------------------------------------------
Begin(h, op, of) ==
    /\ batch[h] = None \/ answer[h] # None
    /\ batch' = [batch EXCEPT ![h] = [op |-> op, of |-> of, done |-> 0]]
    /\ slots' = [slots EXCEPT ![h] = <<>>]
    /\ answer' = [answer EXCEPT ![h] = None]
    /\ UNCHANGED vars

\* The request is decoded; a batch that is sent again looks the same.
RegisterChunkBatch(h, of) == of \in RegisterBatches /\ Begin(h, "register", of)

ConfirmChunkBatch(h, of) == of \in ConfirmBatches /\ Begin(h, "confirm", of)

Serving(h, op) ==
    /\ batch[h] # None
    /\ batch[h].op = op
    /\ answer[h] = None
    /\ batch[h].done < Len(batch[h].of.entries)

Entry(h) == batch[h].of.entries[batch[h].done + 1]

\* The entry being served is done and its chunk is in slot c.
Advance(h, c) ==
    /\ batch' = [batch EXCEPT ![h].done = @ + 1]
    /\ slots' = [slots EXCEPT ![h] = Append(@, c)]
    /\ UNCHANGED answer

\* SetChunkHash of one entry; the request it builds has no TTL.
RegisterNext(h) ==
    /\ Serving(h, "register")
    /\ LET e == Entry(h)
       IN  SetChunkHash(batch[h].of.file, e.index, e.sender, e.recipient, e.raw,
                        e.signer, e.persist, 0)
    /\ Advance(h, regs + 1)

\* ConfirmChunk of one entry.  A wrong hash is a verdict, not an error.
ConfirmNext(h) ==
    /\ Serving(h, "confirm")
    /\ LET e == Entry(h)
       IN  /\ ConfirmChunk(batch[h].of.recipient, e.file, e.index, e.raw, e.signer)
           /\ \E c \in entriesFor(chunkKey(e.file, e.index), batch[h].of.recipient) :
                  Advance(h, c)

\* The peer a key leads to, if any, may be one whose key did not sign: the
\* table scan takes the first it meets.
Unsigned(key, signer) ==
    \/ peerByKey(key) = {}
    \/ \E id \in peerByKey(key) : ~verifyPeerSignature(peers[id], signer)

Refused(h) ==
    LET e == Entry(h)
    IN  CASE batch[h].op = "register" -> Unsigned(e.sender, e.signer)
          [] batch[h].op = "confirm"  ->
                \/ Unsigned(batch[h].of.recipient, e.signer)
                \/ LET found == entriesFor(chunkKey(e.file, e.index),
                                           batch[h].of.recipient)
                   IN  \A c \in found : peerByKey(chunks[c].SenderID) = {}

\* Mutant: a refused entry is passed over.
StopAtRefusal_Skips(h) ==
    /\ \E op \in {"register", "confirm"} : Serving(h, op)
    /\ Refused(h)
    /\ batch' = [batch EXCEPT ![h].done = @ + 1]
    /\ UNCHANGED <<vars, slots, answer>>

\* writeStoreError and return.
StopAtRefusal(h) ==
    /\ \E op \in {"register", "confirm"} : Serving(h, op)
    /\ Refused(h)
    /\ answer' = [answer EXCEPT ![h] = "error"]
    /\ UNCHANGED <<vars, batch, slots>>

\* The loop is over: 204.
Finish(h) ==
    /\ batch[h] # None
    /\ answer[h] = None
    /\ batch[h].done = Len(batch[h].of.entries)
    /\ answer' = [answer EXCEPT ![h] = "NoContent"]
    /\ UNCHANGED <<vars, batch, slots>>

BatchStep(h) ==
    \/ \E of \in RegisterBatches : RegisterChunkBatch(h, of)
    \/ \E of \in ConfirmBatches : ConfirmChunkBatch(h, of)
    \/ RegisterNext(h)
    \/ ConfirmNext(h)
    \/ StopAtRefusal(h)
    \/ Finish(h)

BatchNext ==
    \/ Next /\ UNCHANGED <<batch, slots, answer>>
    \/ \E h \in Handlers : BatchStep(h)

BatchSpec == BatchInit /\ [][BatchNext]_bvars

-----------------------------------------------------------------------------
\* What entry i of a batch left behind in its chunk, unless the chunk has
\* expired since: the registered hash, found under its file id if that has no
\* "#" in it, and for the right hash a confirmation.
LeftBehind(h, i) ==
    LET b == batch[h].of
        e == b.entries[i]
        c == chunks[slots[h][i]]
    IN  c # None =>
            IF batch[h].op = "register"
            THEN /\ c.key = chunkKey(b.file, e.index)
                 /\ c.Hash = normalizeHash(e.raw)
                 /\ c.SenderID = e.sender
                 /\ c.RecipientID = e.recipient
                 /\ c.TTL = DefaultChunkTTL
                 /\ Len(b.file) = 1 => slots[h][i] \in GetChunksByFileID(b.file)
            ELSE /\ c.RecipientID = b.recipient
                 /\ normalizeHash(e.raw) = c.Hash => c.Confirmed

\* A batch is a prefix of its entries, each in its own chunk and in order,
\* however other clients, other batches, the cleaner and expiry interleave
\* with its calls; an answer of 204 means all of them.  An answer with an
\* error does not mean none: the client that sends the batch again registers,
\* or scores, the prefix twice.
BatchIsPrefix ==
    \A h \in Handlers : batch[h] # None =>
        /\ Len(slots[h]) = batch[h].done
        /\ \A i \in 1 .. batch[h].done : LeftBehind(h, i)
        /\ batch[h].op = "register" =>
               \A i, j \in 1 .. batch[h].done : i < j => slots[h][i] < slots[h][j]
        /\ answer[h] = "NoContent" => batch[h].done = Len(batch[h].of.entries)
        /\ answer[h] = "error" => batch[h].done < Len(batch[h].of.entries)
=============================================================================
