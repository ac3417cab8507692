--------------------------- MODULE ChunkSyncProofs ---------------------------
(***************************************************************************)
(* ChunkSync never misses an update, for every value of its constants.     *)
(***************************************************************************)
EXTENDS ChunkSync, MemoryStoreProofs

\* The client's date never runs ahead of the server's clock, and what the
\* server knows of its own clock (TimesPast).
SyncInv ==
    /\ TypeOK /\ SlotsFree /\ TimesPast
    /\ dateFrom \in Nat /\ dateFrom <= now
    /\ NothingMissed

\* A step that leaves an entry in place leaves it alone or stamps it.
LEMMA ChangesStamped ==
    ASSUME TypeOK, [Next]_vars
    PROVE  /\ now' \in Nat /\ now <= now'
           /\ \A c \in Slots : chunks'[c] # None =>
                  chunks'[c] = chunks[c] \/ chunks'[c].UpdatedAt = now
<1>t. /\ chunks \in [Slots -> Chunk \cup {None}]
      /\ regs \in Nat /\ now \in Nat
  BY DEF TypeOK
<1> DEFINE Stamped == \A c \in Slots : chunks'[c] # None =>
                          chunks'[c] = chunks[c] \/ chunks'[c].UpdatedAt = now
<1>1. CASE /\ UNCHANGED <<chunks, regs>>
           /\ \/ UNCHANGED <<now, cleaner>>
              \/ cleaner' = now /\ now' = now
              \/ cleaner' = cleaner /\ now' = now + 1
  BY <1>1, <1>t
<1>2. ASSUME UNCHANGED <<now, cleaner>>, NEW chunk \in Chunk, Registered(chunk)
      PROVE  now' = now /\ Stamped
  BY <1>2, <1>t DEF Registered
<1>3. ASSUME UNCHANGED <<now, cleaner>>, NEW d \in Slots, Confirmation(d)
      PROVE  now' = now /\ Stamped
  <2>1. MarkConfirmed(chunks[d], now).UpdatedAt = now
    BY <1>3, <1>t DEF Confirmation, MarkConfirmed, Chunk
  <2> QED
    BY <1>3, <1>t, <2>1 DEF Confirmation
<1>4. ASSUME UNCHANGED <<now, cleaner>>, NEW targets \in SUBSET Slots, Reading(targets)
      PROVE  now' = now /\ Stamped
  <2>1. \A c \in targets : chunks[c] \in Chunk
    BY <1>4, <1>t DEF Reading
  <2>2. \A c \in targets : MarkReaded(chunks[c], now).UpdatedAt = now
    BY <2>1 DEF MarkReaded, Chunk
  <2> QED
    BY <1>4, <2>2 DEF Reading
<1>5. CASE DeleteExpiredChunks
  BY <1>5, <1>t DEF DeleteExpiredChunks
<1> QED
  BY <1>t, <1>1, <1>2, <1>3, <1>4, <1>5, ChunksChange

\* A recipient that queries by date sees every registration, confirmation and
\* read, however its queries interleave with the other clients' calls.
THEOREM SyncCorrect == SyncSpec => []NothingMissed
<1>1. SyncInit => SyncInv
  <2> SUFFICES ASSUME SyncInit PROVE SyncInv
    OBVIOUS
  <2>1. TypeOK /\ SlotsFree /\ TimesPast
    BY InitType DEF SyncInit, Init, SlotsFree, TimesPast
  <2> QED
    BY <2>1 DEF SyncInit, Init, SyncInv, NothingMissed
<1>2. SyncInv /\ [SyncNext]_svars => SyncInv'
  <2> SUFFICES ASSUME SyncInv, [SyncNext]_svars PROVE SyncInv'
    OBVIOUS
  <2>0. [Next]_vars
    BY DEF SyncNext, Poll, svars
  <2>1. TypeOK' /\ SlotsFree' /\ TimesPast'
    BY <2>0, NextType, NextRetains DEF SyncInv
  <2>2. /\ now \in Nat /\ now' \in Nat /\ now <= now'
        /\ \A c \in Slots : chunks'[c] # None =>
               chunks'[c] = chunks[c] \/ chunks'[c].UpdatedAt = now
    BY <2>0, ChangesStamped DEF SyncInv, TypeOK
  <2>3. CASE UNCHANGED <<view, dateFrom>>
    <3>1. dateFrom' \in Nat /\ dateFrom' <= now'
      BY <2>2, <2>3 DEF SyncInv
    <3>2. ASSUME NEW c \in Slots, chunks'[c] # None,
                 chunks'[c].RecipientID = Watched, view'[c] # chunks'[c]
          PROVE  chunks'[c].UpdatedAt >= dateFrom'
      <4>1. CASE chunks'[c] = chunks[c]
        BY <2>3, <3>2, <4>1 DEF SyncInv, NothingMissed, GetChunksByRecipient
      <4>2. CASE chunks'[c].UpdatedAt = now
        BY <2>2, <2>3, <4>2 DEF SyncInv
      <4> QED
        BY <2>2, <3>2, <4>1, <4>2
    <3>3. NothingMissed'
      BY <3>2 DEF NothingMissed, GetChunksByRecipient
    <3> QED
      BY <2>1, <3>1, <3>3 DEF SyncInv
  <2>4. ASSUME NEW next \in 0 .. now, Poll(next) PROVE SyncInv'
    <3>1. /\ UNCHANGED <<chunks, now>>
          /\ dateFrom' \in Nat /\ dateFrom' <= now'
      BY <2>2, <2>4 DEF Poll, vars
    <3>2. \A c \in Slots : /\ chunks[c] # None
                           /\ chunks[c].RecipientID = Watched
                           => view'[c] = chunks[c]
      BY <2>4 DEF SyncInv, NothingMissed, Poll
    <3>3. NothingMissed'
      BY <3>1, <3>2 DEF NothingMissed
    <3> QED
      BY <2>1, <3>1, <3>3 DEF SyncInv
  <2> QED
    BY <2>3, <2>4 DEF SyncNext, svars
<1> QED
  BY <1>1, <1>2, PTL DEF SyncSpec, SyncInv
=============================================================================
