---------------------------- MODULE BatchesProofs ----------------------------
(***************************************************************************)
(* Proofs about Batches, for every value of its constants: any number of   *)
(* handlers, any batches, and batches of any length.                       *)
(***************************************************************************)
EXTENDS Batches, MemoryStoreProofs, TLAPS

-----------------------------------------------------------------------------
(***************************************************************************)
(* The inductive invariant: the types, and for each handler how far it is. *)
(* A slot it has used is not above regs, so no later registration takes    *)
(* it: the chunk in it is the one the entry made or found, or is gone.     *)
(***************************************************************************)
BatchType ==
    /\ batch \in [Handlers -> Batch \cup {None}]
    /\ slots \in [Handlers -> Seq(Slots)]
    /\ answer \in [Handlers -> {None, "NoContent", "error"}]

\* The conjuncts of BatchIsPrefix for one handler, and what they rest on.
Progress(h) ==
    batch[h] # None =>
        /\ Len(slots[h]) = batch[h].done
        /\ batch[h].done <= Len(batch[h].of.entries)
        /\ \A i \in 1 .. batch[h].done : slots[h][i] <= regs
        /\ \A i \in 1 .. batch[h].done : LeftBehind(h, i)
        /\ batch[h].op = "register" =>
               \A i, j \in 1 .. batch[h].done : i < j => slots[h][i] < slots[h][j]
        /\ answer[h] = "NoContent" => batch[h].done = Len(batch[h].of.entries)
        /\ answer[h] = "error" => batch[h].done < Len(batch[h].of.entries)

StoreInv == TypeOK /\ SlotsFree /\ TimesPast

BatchInv == StoreInv /\ BatchType /\ \A h \in Handlers : Progress(h)

-----------------------------------------------------------------------------
(***************************************************************************)
(* A batch only makes calls that a client could make one by one.           *)
(***************************************************************************)
\* The parts of a batch in progress have their types.
LEMMA RunningBatch ==
    ASSUME BatchType, NEW h \in Handlers, batch[h] # None
    PROVE  /\ batch[h] = [op |-> batch[h].op, of |-> batch[h].of, done |-> batch[h].done]
           /\ batch[h].done \in Nat
           /\ batch[h].op \in {"register", "confirm"}
           /\ batch[h].op = "register" =>
                  /\ batch[h].of \in RegisterBatches
                  /\ batch[h].of.file \in FileIDs
                  /\ batch[h].of.entries \in Seq(RegisterEntry)
           /\ batch[h].op = "confirm" =>
                  /\ batch[h].of \in ConfirmBatches
                  /\ batch[h].of.recipient \in Keys
                  /\ batch[h].of.entries \in Seq(ConfirmEntry)
           /\ Len(batch[h].of.entries) \in Nat
<1>1. batch[h] \in Batch
  BY DEF BatchType
<1>2. CASE batch[h] \in [op : {"register"}, of : RegisterBatches, done : Nat]
  <2>1. /\ batch[h] = [op |-> batch[h].op, of |-> batch[h].of, done |-> batch[h].done]
        /\ batch[h].op = "register" /\ batch[h].of \in RegisterBatches
        /\ batch[h].done \in Nat
    BY <1>2
  <2>2. batch[h].of \in [file : FileIDs, entries : Seq(RegisterEntry)]
    BY <2>1, BatchesAssumption
  <2>3. batch[h].of.file \in FileIDs /\ batch[h].of.entries \in Seq(RegisterEntry)
    BY <2>2
  <2> QED
    BY <2>1, <2>3, LenProperties
<1>3. CASE batch[h] \in [op : {"confirm"}, of : ConfirmBatches, done : Nat]
  <2>1. /\ batch[h] = [op |-> batch[h].op, of |-> batch[h].of, done |-> batch[h].done]
        /\ batch[h].op = "confirm" /\ batch[h].of \in ConfirmBatches
        /\ batch[h].done \in Nat
    BY <1>3
  <2>2. batch[h].of \in [recipient : Keys, entries : Seq(ConfirmEntry)]
    BY <2>1, BatchesAssumption
  <2>3. batch[h].of.recipient \in Keys /\ batch[h].of.entries \in Seq(ConfirmEntry)
    BY <2>2
  <2> QED
    BY <2>1, <2>3, LenProperties
<1> QED
  BY <1>1, <1>2, <1>3 DEF Batch

\* The entry being served is one of the batch's.
LEMMA ServedEntry ==
    ASSUME BatchType, NEW h \in Handlers, NEW op, Serving(h, op)
    PROVE  /\ batch[h].op = "register" => Entry(h) \in RegisterEntry
           /\ batch[h].op = "confirm" => Entry(h) \in ConfirmEntry
<1>1. batch[h] # None /\ batch[h].done < Len(batch[h].of.entries)
  BY DEF Serving
<1>2. batch[h].done \in Nat /\ Len(batch[h].of.entries) \in Nat
  BY <1>1, RunningBatch
<1>3. batch[h].done + 1 \in 1 .. Len(batch[h].of.entries)
  BY <1>1, <1>2
<1>4. ASSUME batch[h].op = "register" PROVE Entry(h) \in RegisterEntry
  <2>1. batch[h].of.entries \in Seq(RegisterEntry)
    BY <1>1, <1>4, RunningBatch
  <2> QED
    BY <1>3, <2>1, LenProperties DEF Entry
<1>5. ASSUME batch[h].op = "confirm" PROVE Entry(h) \in ConfirmEntry
  <2>1. batch[h].of.entries \in Seq(ConfirmEntry)
    BY <1>1, <1>5, RunningBatch
  <2> QED
    BY <1>3, <2>1, LenProperties DEF Entry
<1> QED
  BY <1>4, <1>5

\* The call RegisterChunkBatch makes for an entry.
LEMMA RegisterCalls ==
    ASSUME BatchType, NEW h \in Handlers, RegisterNext(h)
    PROVE  ChunkStep
<1>1. batch[h] # None /\ batch[h].op = "register" /\ Serving(h, "register")
  BY DEF RegisterNext, Serving
<1>2. batch[h].of.file \in FileIDs
  BY <1>1, RunningBatch
<1>3. PICK e \in RegisterEntry : e = Entry(h)
  BY <1>1, ServedEntry
<1>4. SetChunkHash(batch[h].of.file, e.index, e.sender, e.recipient, e.raw,
                   e.signer, e.persist, 0)
  BY <1>3 DEF RegisterNext
<1>5. /\ e.index \in Indexes /\ e.sender \in Keys /\ e.recipient \in Keys
      /\ e.raw \in RawHashes /\ e.signer \in SignatureKeys /\ e.persist \in BOOLEAN
  BY DEF RegisterEntry
<1>6. 0 \in TTLs
  BY BatchesAssumption
<1> QED
  BY <1>2, <1>4, <1>5, <1>6 DEF ChunkStep

\* The call ConfirmChunkBatch makes for an entry.
LEMMA ConfirmCalls ==
    ASSUME BatchType, NEW h \in Handlers, ConfirmNext(h)
    PROVE  ChunkStep
<1>1. batch[h] # None /\ batch[h].op = "confirm" /\ Serving(h, "confirm")
  BY DEF ConfirmNext, Serving
<1>2. batch[h].of.recipient \in Keys
  BY <1>1, RunningBatch
<1>3. PICK e \in ConfirmEntry : e = Entry(h)
  BY <1>1, ServedEntry
<1>4. ConfirmChunk(batch[h].of.recipient, e.file, e.index, e.raw, e.signer)
  BY <1>3 DEF ConfirmNext
<1>5. /\ e.file \in FileIDs /\ e.index \in Indexes
      /\ e.raw \in RawHashes /\ e.signer \in SignatureKeys
  BY DEF ConfirmEntry
<1> QED
  BY <1>2, <1>4, <1>5 DEF ChunkStep

LEMMA BatchCalls ==
    ASSUME BatchType, [BatchNext]_bvars
    PROVE  [Next]_vars
<1>1. CASE UNCHANGED bvars
  BY <1>1 DEF bvars
<1>2. CASE Next /\ UNCHANGED <<batch, slots, answer>>
  BY <1>2
<1>3. ASSUME NEW h \in Handlers, BatchStep(h) PROVE [Next]_vars
  <2>1. CASE RegisterNext(h)
    BY <2>1, RegisterCalls DEF Next
  <2>2. CASE ConfirmNext(h)
    BY <2>2, ConfirmCalls DEF Next
  <2>3. CASE \/ \E of \in RegisterBatches : RegisterChunkBatch(h, of)
             \/ \E of \in ConfirmBatches : ConfirmChunkBatch(h, of)
             \/ StopAtRefusal(h)
             \/ Finish(h)
    BY <2>3 DEF RegisterChunkBatch, ConfirmChunkBatch, Begin, StopAtRefusal, Finish
  <2> QED
    BY <1>3, <2>1, <2>2, <2>3 DEF BatchStep
<1> QED
  BY <1>1, <1>2, <1>3 DEF BatchNext


\* What Begin and Advance do to the handler's own entries, and to nobody
\* else's.
LEMMA BeginSpec ==
    ASSUME BatchType, NEW h \in Handlers, NEW op, NEW of, Begin(h, op, of),
           [op |-> op, of |-> of, done |-> 0] \in Batch
    PROVE  /\ BatchType'
           /\ batch'[h] = [op |-> op, of |-> of, done |-> 0]
           /\ slots'[h] = <<>>
           /\ answer'[h] = None
           /\ \A g \in Handlers \ {h} :
                  /\ batch'[g] = batch[g]
                  /\ slots'[g] = slots[g]
                  /\ answer'[g] = answer[g]
<1> DEFINE new == [op |-> op, of |-> of, done |-> 0]
<1>1. /\ batch' = [batch EXCEPT ![h] = new]
      /\ slots' = [slots EXCEPT ![h] = <<>>]
      /\ answer' = [answer EXCEPT ![h] = None]
  BY DEF Begin
<1>2. new \in Batch
  OBVIOUS
<1>3. <<>> \in Seq(Slots)
  OBVIOUS
<1> HIDE DEF new
<1>4. BatchType'
  BY <1>1, <1>2, <1>3 DEF BatchType
<1>5. batch'[h] = new /\ slots'[h] = <<>> /\ answer'[h] = None
  BY <1>1 DEF BatchType
<1>6. \A g \in Handlers \ {h} :
          batch'[g] = batch[g] /\ slots'[g] = slots[g] /\ answer'[g] = answer[g]
  BY <1>1 DEF BatchType
<1> QED
  BY <1>4, <1>5, <1>6 DEF new

LEMMA AdvanceSpec ==
    ASSUME BatchType, NEW h \in Handlers, batch[h] # None, NEW c \in Slots,
           Advance(h, c)
    PROVE  /\ BatchType'
           /\ batch'[h] = [op |-> batch[h].op, of |-> batch[h].of,
                           done |-> batch[h].done + 1]
           /\ slots'[h] = Append(slots[h], c)
           /\ answer'[h] = answer[h]
           /\ \A g \in Handlers \ {h} :
                  /\ batch'[g] = batch[g]
                  /\ slots'[g] = slots[g]
                  /\ answer'[g] = answer[g]
<1> DEFINE new == [op |-> batch[h].op, of |-> batch[h].of, done |-> batch[h].done + 1]
<1>1. /\ batch[h] = [op |-> batch[h].op, of |-> batch[h].of, done |-> batch[h].done]
      /\ batch[h].done \in Nat
  BY RunningBatch
<1>2. [batch[h] EXCEPT !.done = batch[h].done + 1] = new
  BY <1>1
<1>3. /\ batch' = [batch EXCEPT ![h] = new]
      /\ slots' = [slots EXCEPT ![h] = Append(slots[h], c)]
      /\ answer' = answer
  BY <1>2 DEF Advance
<1>4. new \in Batch
  <2>1. batch[h].op = "register" => batch[h].of \in RegisterBatches
    BY RunningBatch
  <2>2. batch[h].op = "confirm" => batch[h].of \in ConfirmBatches
    BY RunningBatch
  <2>3. batch[h].op \in {"register", "confirm"}
    BY RunningBatch
  <2> QED
    BY <1>1, <2>1, <2>2, <2>3 DEF Batch
<1>5. Append(slots[h], c) \in Seq(Slots)
  BY AppendProperties DEF BatchType
<1> HIDE DEF new
<1>6. BatchType'
  BY <1>3, <1>4, <1>5 DEF BatchType
<1>7. batch'[h] = new /\ slots'[h] = Append(slots[h], c) /\ answer'[h] = answer[h]
  BY <1>3 DEF BatchType
<1>8. \A g \in Handlers \ {h} :
          batch'[g] = batch[g] /\ slots'[g] = slots[g] /\ answer'[g] = answer[g]
  BY <1>3 DEF BatchType
<1> QED
  BY <1>6, <1>7, <1>8 DEF new

\* The slot a served entry is given.
LEMMA RegisterSlot ==
    ASSUME TypeOK, NEW h \in Handlers, RegisterNext(h)
    PROVE  regs + 1 \in Slots
<1>1. regs < MaxChunks
  BY DEF RegisterNext, SetChunkHash
<1> QED
  BY <1>1, BoundsAssumption DEF TypeOK, Slots

LEMMA ConfirmSlot ==
    ASSUME NEW h \in Handlers, ConfirmNext(h)
    PROVE  \E c \in entriesFor(chunkKey(Entry(h).file, Entry(h).index),
                               batch[h].of.recipient) :
               c \in Slots /\ Advance(h, c)
BY DEF ConfirmNext, entriesFor

LEMMA BatchTypeStep ==
    ASSUME TypeOK, BatchType, [BatchNext]_bvars
    PROVE  BatchType'
<1>1. CASE UNCHANGED bvars
  BY <1>1 DEF bvars, BatchType
<1>2. CASE Next /\ UNCHANGED <<batch, slots, answer>>
  BY <1>2 DEF BatchType
<1>3. ASSUME NEW h \in Handlers, BatchStep(h) PROVE BatchType'
  <2>1. ASSUME NEW of \in RegisterBatches, RegisterChunkBatch(h, of) PROVE BatchType'
    <3>1. [op |-> "register", of |-> of, done |-> 0] \in Batch
      BY DEF Batch
    <3> QED
      BY <2>1, <3>1, BeginSpec DEF RegisterChunkBatch
  <2>2. ASSUME NEW of \in ConfirmBatches, ConfirmChunkBatch(h, of) PROVE BatchType'
    <3>1. [op |-> "confirm", of |-> of, done |-> 0] \in Batch
      BY DEF Batch
    <3> QED
      BY <2>2, <3>1, BeginSpec DEF ConfirmChunkBatch
  <2>3. CASE RegisterNext(h)
    <3>1. batch[h] # None /\ Advance(h, regs + 1)
      BY <2>3 DEF RegisterNext, Serving
    <3> QED
      BY <2>3, <3>1, RegisterSlot, AdvanceSpec
  <2>4. CASE ConfirmNext(h)
    <3>1. batch[h] # None
      BY <2>4 DEF ConfirmNext, Serving
    <3>2. PICK c \in Slots : Advance(h, c)
      BY <2>4, ConfirmSlot
    <3> QED
      BY <3>1, <3>2, AdvanceSpec
  <2>5. CASE StopAtRefusal(h)
    BY <2>5 DEF StopAtRefusal, BatchType
  <2>6. CASE Finish(h)
    BY <2>6 DEF Finish, BatchType
  <2> QED
    BY <1>3, <2>1, <2>2, <2>3, <2>4, <2>5, <2>6 DEF BatchStep
<1> QED
  BY <1>1, <1>2, <1>3 DEF BatchNext

\* The batch handlers add nothing to what the store's clients can do, so
\* every theorem about Spec holds of BatchSpec too: the lookup, the verdict
\* ledger and the chunk list survive concurrent batches.
THEOREM BatchesOnlyCall == BatchSpec => Spec
<1>1. BatchInit => Init /\ TypeOK /\ BatchType
  BY InitType DEF BatchInit, BatchType
<1>2. TypeOK /\ BatchType /\ [BatchNext]_bvars => TypeOK' /\ BatchType'
  BY BatchCalls, BatchTypeStep, NextType
<1>3. BatchType /\ [BatchNext]_bvars => [Next]_vars
  BY BatchCalls
<1> QED
  BY <1>1, <1>2, <1>3, PTL DEF BatchSpec, Spec

-----------------------------------------------------------------------------
(***************************************************************************)
(* What an entry left behind stays, whoever steps.                         *)
(***************************************************************************)
\* A slot whose chunk is deleted is not used again.
LEMMA FreedStaysFree ==
    ASSUME TypeOK, [Next]_vars
    PROVE  /\ regs' \in Nat /\ regs <= regs'
           /\ \A c \in Slots : c <= regs /\ chunks[c] = None => chunks'[c] = None
<1>t. chunks \in [Slots -> Chunk \cup {None}] /\ regs \in Nat
  BY DEF TypeOK
<1> DEFINE Goal == /\ regs' \in Nat /\ regs <= regs'
                   /\ \A c \in Slots : c <= regs /\ chunks[c] = None => chunks'[c] = None
<1>1. ASSUME UNCHANGED <<chunks, regs>> PROVE Goal
  BY <1>1, <1>t
<1>2. ASSUME NEW chunk \in Chunk, Registered(chunk) PROVE Goal
  <2>1. regs' = regs + 1
    BY <1>2 DEF Registered
  <2>2. \A c \in Slots : c # regs + 1 => chunks'[c] = chunks[c]
    BY <1>2, <1>t DEF Registered
  <2> QED
    BY <1>t, <2>1, <2>2 DEF Slots
<1>3. ASSUME NEW d \in Slots, Confirmation(d) PROVE Goal
  <2>1. regs' = regs /\ chunks[d] # None
    BY <1>3 DEF Confirmation
  <2>2. \A c \in Slots : c # d => chunks'[c] = chunks[c]
    BY <1>3, <1>t DEF Confirmation
  <2> QED
    BY <1>t, <2>1, <2>2
<1>4. ASSUME NEW targets \in SUBSET Slots, Reading(targets) PROVE Goal
  <2>1. regs' = regs /\ \A c \in targets : chunks[c] # None
    BY <1>4 DEF Reading
  <2>2. \A c \in Slots : c \notin targets => chunks'[c] = chunks[c]
    BY <1>4 DEF Reading
  <2> QED
    BY <1>t, <2>1, <2>2
<1>5. ASSUME DeleteExpiredChunks PROVE Goal
  <2>1. regs' = regs /\ \A c \in Slots : chunks[c] = None => chunks'[c] = None
    BY <1>5 DEF DeleteExpiredChunks
  <2> QED
    BY <1>t, <2>1
<1> QED
  BY <1>1, <1>2, <1>3, <1>4, <1>5, ChunksChange

\* An entry served before the step has its chunk after it, or the chunk has
\* expired.
LEMMA StaysBehind ==
    ASSUME StoreInv, [Next]_vars, NEW h, NEW i,
           slots[h][i] \in Slots, slots[h][i] <= regs, LeftBehind(h, i),
           slots'[h][i] = slots[h][i],
           batch'[h].op = batch[h].op, batch'[h].of = batch[h].of
    PROVE  LeftBehind(h, i)'
<1> DEFINE b == batch[h].of
           e == b.entries[i]
           s == slots[h][i]
<1> SUFFICES ASSUME chunks'[s] # None
             PROVE  IF batch[h].op = "register"
                    THEN /\ chunks'[s].key = chunkKey(b.file, e.index)
                         /\ chunks'[s].Hash = normalizeHash(e.raw)
                         /\ chunks'[s].SenderID = e.sender
                         /\ chunks'[s].RecipientID = e.recipient
                         /\ chunks'[s].TTL = DefaultChunkTTL
                         /\ Len(b.file) = 1 => s \in GetChunksByFileID(b.file)'
                    ELSE /\ chunks'[s].RecipientID = b.recipient
                         /\ normalizeHash(e.raw) = chunks'[s].Hash => chunks'[s].Confirmed
  BY DEF LeftBehind
<1>1. chunks[s] # None
  BY FreedStaysFree DEF StoreInv
<1>2. /\ chunks'[s].key = chunks[s].key
      /\ chunks'[s].Hash = chunks[s].Hash
      /\ chunks'[s].SenderID = chunks[s].SenderID
      /\ chunks'[s].RecipientID = chunks[s].RecipientID
      /\ chunks'[s].TTL = chunks[s].TTL
      /\ chunks[s].Confirmed => chunks'[s].Confirmed
  <2>1. Retained(chunks[s], chunks'[s])
    BY <1>1, NextRetains DEF StoreInv
  <2> QED
    BY <2>1 DEF Retained
<1>3. CASE batch[h].op = "register"
  <2>1. /\ chunks[s].key = chunkKey(b.file, e.index)
        /\ chunks[s].Hash = normalizeHash(e.raw)
        /\ chunks[s].SenderID = e.sender
        /\ chunks[s].RecipientID = e.recipient
        /\ chunks[s].TTL = DefaultChunkTTL
        /\ Len(b.file) = 1 => s \in GetChunksByFileID(b.file)
    BY <1>1, <1>3 DEF LeftBehind
  <2>2. Len(b.file) = 1 => s \in GetChunksByFileID(b.file)'
    BY <1>2, <2>1 DEF GetChunksByFileID
  <2> QED
    BY <1>2, <1>3, <2>1, <2>2
<1>4. CASE batch[h].op # "register"
  <2>1. /\ chunks[s].RecipientID = b.recipient
        /\ normalizeHash(e.raw) = chunks[s].Hash => chunks[s].Confirmed
    BY <1>1, <1>4 DEF LeftBehind
  <2> QED
    BY <1>2, <1>4, <2>1
<1> QED
  BY <1>3, <1>4

\* A file id without "#" is what parseChunkKey finds in the keys of its
\* chunks.
LEMMA OwnFile ==
    ASSUME NEW f \in FileIDs, NEW i, Len(f) = 1
    PROVE  parseChunkKey(chunkKey(f, i)).file = f
<1>1. f \in Seq(STRING) /\ f # <<>>
  BY StringsAssumption
<1>2. Head(Append(f, i)) = Head(f)
  BY <1>1, HeadTailAppend
<1>3. <<Head(f)>> = f
  BY <1>1
<1> QED
  BY <1>2, <1>3 DEF parseChunkKey, chunkKey


-----------------------------------------------------------------------------
(***************************************************************************)
(* A step preserves the progress of every handler.                         *)
(***************************************************************************)
\* A handler that the step leaves alone, or only answers: its entries keep
\* their slots and their chunks.
LEMMA IdleKeeps ==
    ASSUME StoreInv, BatchType, [Next]_vars, NEW h \in Handlers, Progress(h),
           batch'[h] = batch[h], slots'[h] = slots[h],
           batch[h] # None =>
               /\ answer'[h] = "NoContent" => batch[h].done = Len(batch[h].of.entries)
               /\ answer'[h] = "error" => batch[h].done < Len(batch[h].of.entries)
    PROVE  Progress(h)'
<1> SUFFICES ASSUME batch[h] # None
             PROVE  /\ \A i \in 1 .. batch[h].done : slots[h][i] <= regs'
                    /\ \A i \in 1 .. batch[h].done : LeftBehind(h, i)'
  BY DEF Progress
<1>1. slots[h] \in Seq(Slots) /\ Len(slots[h]) = batch[h].done
  BY DEF BatchType, Progress
<1>2. ASSUME NEW i \in 1 .. batch[h].done
      PROVE  slots[h][i] <= regs' /\ LeftBehind(h, i)'
  <2>1. slots[h][i] \in Slots
    BY <1>1, LenProperties
  <2>2. slots[h][i] <= regs /\ LeftBehind(h, i)
    BY DEF Progress
  <2>3. slots[h][i] <= regs'
    BY <2>1, <2>2, FreedStaysFree DEF StoreInv, TypeOK, Slots
  <2> QED
    BY <2>1, <2>2, <2>3, StaysBehind
<1> QED
  BY <1>2

\* The handler whose entry the step serves: c is its chunk.
LEMMA ServingKeeps ==
    ASSUME StoreInv, BatchType, [Next]_vars, NEW h \in Handlers, Progress(h),
           batch[h] # None, answer[h] = None,
           NEW n \in Nat, n = batch[h].done, n < Len(batch[h].of.entries),
           NEW c \in Slots, Advance(h, c), c <= regs',
           batch[h].op = "register" => c = regs + 1,
           LeftBehind(h, n + 1)'
    PROVE  Progress(h)'
<1>1. /\ batch'[h].op = batch[h].op
      /\ batch'[h].of = batch[h].of
      /\ batch'[h].done = n + 1
      /\ slots'[h] = Append(slots[h], c)
      /\ answer'[h] = None
  <2>1. /\ batch'[h] = [op |-> batch[h].op, of |-> batch[h].of, done |-> n + 1]
        /\ slots'[h] = Append(slots[h], c)
        /\ answer'[h] = None
    BY AdvanceSpec
  <2> QED
    BY <2>1
<1>2. /\ slots[h] \in Seq(Slots) /\ Len(slots[h]) = n
      /\ Len(batch[h].of.entries) \in Nat
      /\ regs \in Nat /\ regs' \in Nat /\ regs <= regs'
  BY RunningBatch, FreedStaysFree DEF BatchType, Progress, StoreInv, TypeOK
<1>3. /\ Len(slots'[h]) = n + 1
      /\ \A i \in 1 .. n : slots'[h][i] = slots[h][i]
      /\ slots'[h][n + 1] = c
  BY <1>1, <1>2, AppendProperties
<1>4. \A i \in 1 .. n : slots[h][i] \in Slots /\ slots[h][i] \in Nat
  <2>1. \A i \in 1 .. n : slots[h][i] \in Slots
    BY <1>2, LenProperties
  <2> QED
    BY <2>1 DEF Slots
<1>5. \A i \in 1 .. n : slots[h][i] <= regs /\ LeftBehind(h, i)
  BY DEF Progress
<1>6. \A i \in 1 .. n + 1 : slots'[h][i] <= regs' /\ LeftBehind(h, i)'
  <2>1. ASSUME NEW i \in 1 .. n PROVE slots'[h][i] <= regs' /\ LeftBehind(h, i)'
    <3>1. slots'[h][i] <= regs'
      <4>1. slots'[h][i] = slots[h][i] /\ slots[h][i] \in Nat /\ slots[h][i] <= regs
        BY <1>3, <1>4, <1>5
      <4> QED
        BY <1>2, <4>1
    <3>2. LeftBehind(h, i)'
      BY <1>1, <1>3, <1>4, <1>5, StaysBehind
    <3> QED
      BY <3>1, <3>2
  <2>2. slots'[h][n + 1] <= regs' /\ LeftBehind(h, n + 1)'
    BY <1>3
  <2>3. \A i \in 1 .. n + 1 : i \in 1 .. n \/ i = n + 1
    BY <1>2
  <2> QED
    BY <2>1, <2>2, <2>3
<1>7. ASSUME batch[h].op = "register", NEW i \in 1 .. n + 1, NEW j \in 1 .. n + 1, i < j
      PROVE  slots'[h][i] < slots'[h][j]
  <2>1. i \in 1 .. n
    BY <1>2, <1>7
  <2>2. CASE j = n + 1
    <3>1. slots'[h][i] = slots[h][i] /\ slots[h][i] \in Slots /\ slots[h][i] <= regs
      BY <2>1, <1>3, <1>4, <1>5
    <3>2. slots'[h][j] = regs + 1
      BY <1>3, <1>7, <2>2
    <3> QED
      BY <1>2, <3>1, <3>2 DEF Slots
  <2>3. CASE j \in 1 .. n
    <3>1. slots[h][i] < slots[h][j]
      BY <1>7, <2>1, <2>3 DEF Progress
    <3> QED
      BY <1>3, <2>1, <2>3, <3>1
  <2> QED
    BY <1>2, <2>2, <2>3
<1>8. answer'[h] # "NoContent" /\ answer'[h] # "error"
  BY <1>1, BatchesAssumption
<1>9. n + 1 <= Len(batch[h].of.entries)
  BY <1>2
<1> QED
  BY <1>1, <1>3, <1>6, <1>7, <1>8, <1>9 DEF Progress


\* RegisterChunkBatch's next entry: its chunk is the one SetChunkHash added.
LEMMA RegisterKeeps ==
    ASSUME StoreInv, BatchType, [Next]_vars, NEW h \in Handlers, Progress(h),
           RegisterNext(h)
    PROVE  Progress(h)'
<1>1. /\ batch[h] # None /\ batch[h].op = "register" /\ answer[h] = None
      /\ Serving(h, "register") /\ Advance(h, regs + 1)
  BY DEF RegisterNext, Serving
<1>2. PICK n \in Nat : n = batch[h].done
  BY <1>1, RunningBatch
<1>3. n < Len(batch[h].of.entries)
  BY <1>1, <1>2 DEF Serving
<1>4. regs + 1 \in Slots
  BY RegisterSlot DEF StoreInv
<1>5. /\ batch'[h].op = "register"
      /\ batch'[h].of = batch[h].of
      /\ slots'[h] = Append(slots[h], regs + 1)
  <2>1. /\ batch'[h] = [op |-> batch[h].op, of |-> batch[h].of,
                        done |-> batch[h].done + 1]
        /\ slots'[h] = Append(slots[h], regs + 1)
    BY <1>1, <1>4, AdvanceSpec
  <2> QED
    BY <1>1, <2>1
<1>6. slots'[h][n + 1] = regs + 1
  <2>1. slots[h] \in Seq(Slots) /\ Len(slots[h]) = n
    BY <1>1, <1>2 DEF BatchType, Progress
  <2> QED
    BY <1>4, <1>5, <2>1, AppendProperties
<1>7. PICK e \in RegisterEntry : e = batch[h].of.entries[n + 1]
  BY <1>1, <1>2, ServedEntry DEF Entry
<1>8. PICK f \in FileIDs : f = batch[h].of.file
  BY <1>1, RunningBatch
<1> DEFINE c == chunks'[regs + 1]
<1>9. SetChunkHash(f, e.index, e.sender, e.recipient, e.raw, e.signer, e.persist, 0)
  BY <1>2, <1>7, <1>8 DEF RegisterNext, Entry
<1>10. regs' = regs + 1 /\ regs' \in Nat
  BY <1>9 DEF SetChunkHash, StoreInv, TypeOK
<1>11. /\ c.key = chunkKey(f, e.index)
       /\ c.Hash = normalizeHash(e.raw)
       /\ c.SenderID = e.sender
       /\ c.RecipientID = e.recipient
       /\ c.TTL = DefaultChunkTTL
       /\ c # None
  <2>1. chunks \in [Slots -> Chunk \cup {None}] /\ now \in Nat
    BY DEF StoreInv, TypeOK
  <2>2. OrDefault(0, DefaultChunkTTL) = DefaultChunkTTL
    BY DEF OrDefault
  <2>3. c = [key         |-> chunkKey(f, e.index),
             Hash        |-> normalizeHash(e.raw),
             SenderID    |-> e.sender,
             RecipientID |-> e.recipient,
             Persist     |-> e.persist,
             Confirmed   |-> FALSE,
             Readed      |-> FALSE,
             CreatedAt   |-> now,
             UpdatedAt   |-> now,
             TTL         |-> DefaultChunkTTL]
    BY <1>4, <1>9, <2>1, <2>2 DEF SetChunkHash
  <2>4. chunkKey(f, e.index) \in ChunkKeys /\ normalizeHash(e.raw) \in Hashes
    BY <1>8 DEF ChunkKeys, RawHashes, normalizeHash, RegisterEntry
  <2>5. c \in Chunk
    BY <2>1, <2>3, <2>4, ScalarsAssumption DEF Chunk, RegisterEntry
  <2> HIDE DEF c
  <2> QED
    BY <2>3, <2>5, NoneAssumption
<1>12. Len(f) = 1 => regs + 1 \in GetChunksByFileID(f)'
  <2> SUFFICES ASSUME Len(f) = 1
               PROVE  parseChunkKey(c.key).file = f
    BY <1>4, <1>11 DEF GetChunksByFileID
  <2> QED
    BY <1>8, <1>11, OwnFile
<1>13. LeftBehind(h, n + 1)'
  <2> HIDE DEF c
  <2> SUFFICES /\ c.key = chunkKey(f, e.index)
               /\ c.Hash = normalizeHash(e.raw)
               /\ c.SenderID = e.sender
               /\ c.RecipientID = e.recipient
               /\ c.TTL = DefaultChunkTTL
               /\ Len(f) = 1 => regs + 1 \in GetChunksByFileID(f)'
    BY <1>5, <1>6, <1>7, <1>8 DEF LeftBehind, c
  <2> QED
    BY <1>11, <1>12
<1> QED
  BY <1>1, <1>2, <1>3, <1>4, <1>10, <1>13, ServingKeeps

\* Two entries cannot both be the first of their key and recipient.
LEMMA FirstIsUnique ==
    ASSUME NEW key, NEW recipientKey,
           NEW c \in entriesFor(key, recipientKey),
           NEW d \in entriesFor(key, recipientKey)
    PROVE  c = d
<1>1. c \in Nat \ {0} /\ d \in Nat \ {0}
  BY BoundsAssumption DEF entriesFor, Slots
<1>2. ~(c < d) /\ ~(d < c)
  <2>1. ASSUME c < d PROVE FALSE
    <3>1. c \in 1 .. d-1
      BY <1>1, <2>1
    <3> QED
      BY <3>1 DEF entriesFor
  <2>2. ASSUME d < c PROVE FALSE
    <3>1. d \in 1 .. c-1
      BY <1>1, <2>2
    <3> QED
      BY <3>1 DEF entriesFor
  <2> QED
    BY <2>1, <2>2
<1> QED
  BY <1>1, <1>2

\* ConfirmChunkBatch's next entry: its chunk is the one ConfirmChunk found,
\* and confirmed if the hash was right.
LEMMA ConfirmKeeps ==
    ASSUME StoreInv, BatchType, [Next]_vars, NEW h \in Handlers, Progress(h),
           ConfirmNext(h)
    PROVE  Progress(h)'
<1>1. /\ batch[h] # None /\ batch[h].op = "confirm" /\ answer[h] = None
      /\ Serving(h, "confirm")
  BY DEF ConfirmNext, Serving
<1>2. PICK n \in Nat : n = batch[h].done
  BY <1>1, RunningBatch
<1>3. n < Len(batch[h].of.entries)
  BY <1>1, <1>2 DEF Serving
<1>4. PICK e \in ConfirmEntry : e = batch[h].of.entries[n + 1]
  BY <1>1, <1>2, ServedEntry DEF Entry
<1> DEFINE r == batch[h].of.recipient
           key == chunkKey(e.file, e.index)
<1>5. Entry(h) = e
  BY <1>2, <1>4 DEF Entry
<1>6. PICK c \in entriesFor(key, r) : c \in Slots /\ Advance(h, c)
  BY <1>5, ConfirmSlot
<1>7. /\ batch'[h].op = "confirm"
      /\ batch'[h].of = batch[h].of
      /\ slots'[h] = Append(slots[h], c)
  <2>1. /\ batch'[h] = [op |-> batch[h].op, of |-> batch[h].of,
                        done |-> batch[h].done + 1]
        /\ slots'[h] = Append(slots[h], c)
    BY <1>1, <1>6, AdvanceSpec
  <2> QED
    BY <1>1, <2>1
<1>8. slots'[h][n + 1] = c
  <2>1. slots[h] \in Seq(Slots) /\ Len(slots[h]) = n
    BY <1>1, <1>2 DEF BatchType, Progress
  <2> QED
    BY <1>6, <1>7, <2>1, AppendProperties
<1>9. chunks[c] # None /\ chunks[c] \in Chunk /\ chunks[c].RecipientID = r
  BY <1>6 DEF entriesFor, isFor, hasKey, StoreInv, TypeOK
<1>10. /\ c <= regs'
       /\ chunks'[c] # None => /\ chunks'[c].RecipientID = r
                               /\ chunks'[c].Hash = chunks[c].Hash
  <2>1. c <= regs /\ c \in Nat /\ regs \in Nat
    BY <1>6, <1>9, BoundsAssumption DEF StoreInv, TypeOK, SlotsFree, Slots
  <2>2. c <= regs'
    BY <2>1, FreedStaysFree DEF StoreInv
  <2>3. Retained(chunks[c], chunks'[c])
    BY <1>6, <1>9, NextRetains DEF StoreInv
  <2> QED
    BY <1>9, <2>2, <2>3 DEF Retained
<1>11. normalizeHash(e.raw) = chunks[c].Hash => chunks'[c].Confirmed
  <2> SUFFICES ASSUME normalizeHash(e.raw) = chunks[c].Hash PROVE chunks'[c].Confirmed
    OBVIOUS
  <2>1. ConfirmChunk(r, e.file, e.index, e.raw, e.signer)
    BY <1>5 DEF ConfirmNext
  <2>2. PICK d \in entriesFor(key, r) :
            chunks' = IF normalizeHash(e.raw) = chunks[d].Hash
                      THEN [chunks EXCEPT ![d] = MarkConfirmed(chunks[d], now)]
                      ELSE chunks
    BY <2>1 DEF ConfirmChunk
  <2>3. d = c
    BY <1>6, <2>2, FirstIsUnique
  <2>4. chunks' = [chunks EXCEPT ![c] = MarkConfirmed(chunks[c], now)]
    BY <2>2, <2>3
  <2>5. chunks'[c] = MarkConfirmed(chunks[c], now)
    BY <1>6, <2>4 DEF StoreInv, TypeOK
  <2> QED
    BY <1>9, <2>5 DEF MarkConfirmed, Chunk
<1>12. LeftBehind(h, n + 1)'
  BY <1>4, <1>7, <1>8, <1>10, <1>11 DEF LeftBehind
<1> QED
  BY <1>1, <1>2, <1>3, <1>6, <1>10, <1>12, ServingKeeps


LEMMA BatchInvStep ==
    ASSUME BatchInv, [BatchNext]_bvars
    PROVE  BatchInv'
<1> USE DEF BatchInv
<1>1. [Next]_vars
  BY BatchCalls
<1>2. StoreInv'
  BY <1>1, NextType, NextRetains DEF StoreInv
<1>3. BatchType'
  BY BatchTypeStep DEF StoreInv
<1> SUFFICES ASSUME NEW g \in Handlers PROVE Progress(g)'
  BY <1>2, <1>3
<1>4. ASSUME batch'[g] = batch[g], slots'[g] = slots[g], answer'[g] = answer[g]
      PROVE  Progress(g)'
  <2>1. batch[g] # None =>
            /\ answer'[g] = "NoContent" => batch[g].done = Len(batch[g].of.entries)
            /\ answer'[g] = "error" => batch[g].done < Len(batch[g].of.entries)
    BY <1>4 DEF Progress
  <2> QED
    BY <1>1, <1>4, <2>1, IdleKeeps
<1>5. CASE UNCHANGED bvars
  BY <1>4, <1>5 DEF bvars
<1>6. CASE Next /\ UNCHANGED <<batch, slots, answer>>
  BY <1>4, <1>6
<1>7. ASSUME NEW h \in Handlers, BatchStep(h) PROVE Progress(g)'
  <2>1. ASSUME NEW op, NEW of, Begin(h, op, of),
               [op |-> op, of |-> of, done |-> 0] \in Batch
        PROVE  Progress(g)'
    <3>1. CASE g # h
      BY <1>4, <2>1, <3>1, BeginSpec
    <3>2. CASE g = h
      <4>1. /\ batch'[h] = [op |-> op, of |-> of, done |-> 0]
            /\ slots'[h] = <<>>
            /\ answer'[h] = None
        BY <2>1, BeginSpec
      <4>2. batch'[h].done = 0 /\ Len(slots'[h]) = 0
        BY <4>1
      <4>3. answer'[h] # "NoContent" /\ answer'[h] # "error"
        BY <4>1, BatchesAssumption
      <4>4. batch'[h] # None => Len(batch'[h].of.entries) \in Nat
        BY <1>3, RunningBatch
      <4> QED
        BY <3>2, <4>2, <4>3, <4>4 DEF Progress
    <3> QED
      BY <3>1, <3>2
  <2>2. ASSUME NEW of \in RegisterBatches, RegisterChunkBatch(h, of) PROVE Progress(g)'
    <3>1. [op |-> "register", of |-> of, done |-> 0] \in Batch
      BY DEF Batch
    <3> QED
      BY <2>1, <2>2, <3>1 DEF RegisterChunkBatch
  <2>3. ASSUME NEW of \in ConfirmBatches, ConfirmChunkBatch(h, of) PROVE Progress(g)'
    <3>1. [op |-> "confirm", of |-> of, done |-> 0] \in Batch
      BY DEF Batch
    <3> QED
      BY <2>1, <2>3, <3>1 DEF ConfirmChunkBatch
  <2>4. CASE RegisterNext(h)
    <3>1. batch[h] # None /\ Advance(h, regs + 1) /\ regs + 1 \in Slots
      BY <2>4, RegisterSlot DEF RegisterNext, Serving, StoreInv
    <3>2. CASE g # h
      BY <1>4, <3>1, <3>2, AdvanceSpec
    <3>3. CASE g = h
      BY <1>1, <2>4, <3>3, RegisterKeeps
    <3> QED
      BY <3>2, <3>3
  <2>5. CASE ConfirmNext(h)
    <3>1. batch[h] # None
      BY <2>5 DEF ConfirmNext, Serving
    <3>2. PICK c \in Slots : Advance(h, c)
      BY <2>5, ConfirmSlot
    <3>3. CASE g # h
      BY <1>4, <3>1, <3>2, <3>3, AdvanceSpec
    <3>4. CASE g = h
      BY <1>1, <2>5, <3>4, ConfirmKeeps
    <3> QED
      BY <3>3, <3>4
  <2>6. ASSUME StopAtRefusal(h) PROVE Progress(g)'
    <3>1. /\ batch' = batch /\ slots' = slots
          /\ answer' = [answer EXCEPT ![h] = "error"]
          /\ batch[h].done < Len(batch[h].of.entries)
      BY <2>6 DEF StopAtRefusal, Serving
    <3>2. CASE g # h
      BY <1>4, <3>1, <3>2 DEF BatchType
    <3>3. CASE g = h
      <4>1. answer'[g] = "error" /\ "error" # "NoContent"
        BY <3>1, <3>3 DEF BatchType
      <4> QED
        BY <1>1, <3>1, <3>3, <4>1, IdleKeeps
    <3> QED
      BY <3>2, <3>3
  <2>7. ASSUME Finish(h) PROVE Progress(g)'
    <3>1. /\ batch' = batch /\ slots' = slots
          /\ answer' = [answer EXCEPT ![h] = "NoContent"]
          /\ batch[h].done = Len(batch[h].of.entries)
      BY <2>7 DEF Finish
    <3>2. CASE g # h
      BY <1>4, <3>1, <3>2 DEF BatchType
    <3>3. CASE g = h
      <4>1. answer'[g] = "NoContent" /\ "error" # "NoContent"
        BY <3>1, <3>3 DEF BatchType
      <4> QED
        BY <1>1, <3>1, <3>3, <4>1, IdleKeeps
    <3> QED
      BY <3>2, <3>3
  <2> QED
    BY <1>7, <2>2, <2>3, <2>4, <2>5, <2>6, <2>7 DEF BatchStep
<1> QED
  BY <1>5, <1>6, <1>7 DEF BatchNext

\* A batch that RegisterChunkBatch or ConfirmChunkBatch serves is at every
\* moment a prefix of its entries, each in its own chunk or expired, and 204
\* means all of them: for any number of handlers, clients and entries.
THEOREM BatchesCorrect == BatchSpec => []BatchIsPrefix
<1>1. BatchInit => BatchInv
  <2> SUFFICES ASSUME BatchInit PROVE BatchInv
    OBVIOUS
  <2>1. StoreInv
    BY InitType DEF BatchInit, Init, StoreInv, SlotsFree, TimesPast
  <2>2. BatchType
    BY DEF BatchInit, BatchType
  <2>3. \A h \in Handlers : batch[h] = None
    BY DEF BatchInit
  <2> QED
    BY <2>1, <2>2, <2>3 DEF BatchInv, Progress
<1>2. BatchInv /\ [BatchNext]_bvars => BatchInv'
  BY BatchInvStep
<1>3. BatchInv => BatchIsPrefix
  BY DEF BatchInv, Progress, BatchIsPrefix
<1> QED
  BY <1>1, <1>2, <1>3, PTL DEF BatchSpec
=============================================================================
