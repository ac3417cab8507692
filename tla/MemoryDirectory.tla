--------------------------- MODULE MemoryDirectory ---------------------------
(***************************************************************************)
(* The in-memory store as an implementation of PeerDirectory.              *)
(***************************************************************************)
EXTENDS MemoryStore

\* What Upsert never changes of a peer.  (The login may change: removeID and
\* the append that follows move the id in the index.)
Identity(peer) == [SignatureKey  |-> peer.SignatureKey,
                   EncryptionKey |-> peer.EncryptionKey,
                   Fake          |-> peer.Fake]

Identities == [SignatureKey  : SignatureKeys,
               EncryptionKey : EncryptionKeys,
               Fake          : Fakes]

EntryOf(peer) == [identity |-> Identity(peer),
                  score    |-> peer.QualityScore,
                  valid    |-> peer.ValidReports,
                  invalid  |-> peer.InvalidReports]

Entries == [id \in PeerIDs |-> IF peers[id] = None THEN None ELSE EntryOf(peers[id])]

Directory == INSTANCE PeerDirectory WITH
                 Ids          <- PeerIDs,
                 InitialScore <- InitialQualityScore,
                 Absent       <- None,
                 entries      <- Entries

ASSUME AbsentAssumption == None \notin Directory!Entry

\* Whatever Upsert, Delete, Heartbeat, expiry, ReportChunk and ConfirmChunk do
\* to the peer table, in any order and with a clock sampled before the lock,
\* a client sees a directory: registered entries keep their identity, and
\* score and counters move together, by one, only when a verdict is passed.
ImplementsDirectory == Directory!Spec
=============================================================================
