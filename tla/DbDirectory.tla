----------------------------- MODULE DbDirectory -----------------------------
(***************************************************************************)
(* The database store as an implementation of PeerDirectory.               *)
(***************************************************************************)
EXTENDS DbStore

\* What no UPDATE of the peers table writes; here the login stays too.
Identity(row) == [Login         |-> row.Login,
                  SignatureKey  |-> row.SignatureKey,
                  EncryptionKey |-> row.EncryptionKey,
                  Fake          |-> row.Fake]

Identities == [Login         : Logins,
               SignatureKey  : SignatureKeys,
               EncryptionKey : EncryptionKeys,
               Fake          : Fakes]

EntryOf(row) == [identity |-> Identity(row),
                 score    |-> row.QualityScore,
                 valid    |-> row.ValidReports,
                 invalid  |-> row.InvalidReports]

Entries == [id \in PeerIDs |-> IF peers[id] = None THEN None ELSE EntryOf(peers[id])]

Directory == INSTANCE PeerDirectory WITH
                 Ids          <- PeerIDs,
                 InitialScore <- InitialQualityScore,
                 Absent       <- None,
                 entries      <- Entries

ASSUME AbsentAssumption == None \notin Directory!Entry

\* The statements of Upsert, ReportChunk and ConfirmChunk, interleaved, failing
\* and hitting a row that was deleted and registered anew since their SELECT,
\* amount to a directory: a row keeps its identity, the login included, and
\* its score and counters move together, by one, with a verdict.
ImplementsDirectory == Directory!Spec
=============================================================================
