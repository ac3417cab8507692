------------------------------ MODULE ChunkSync ------------------------------
(***************************************************************************)
(* A recipient that follows its chunks with GET /api/v1/recipient/chunks:  *)
(* it asks for the entries updated since a date it remembers, merges the   *)
(* answer into its view and moves the date forward.  The server is         *)
(* MemoryStore; the client is external, modelled from the query it uses.   *)
(***************************************************************************)
EXTENDS MemoryStore

CONSTANT Watched    \* the recipient key the client polls for

ASSUME WatchedAssumption == Watched \in Keys

VARIABLES
    view,      \* the client's copy of each entry, None if it has none
    dateFrom   \* the date of its next query

svars == <<vars, view, dateFrom>>

SyncInit ==
    /\ Init
    /\ view = [c \in Slots |-> None]
    /\ dateFrom = 0

\* One query and its answer.  The next date may be anything up to the time of
\* the answer: the newest UpdatedAt seen, or the time itself.
Poll(next) ==
    /\ next \in 0 .. now
    /\ view' = [c \in Slots |-> IF c \in GetChunksByRecipient(Watched, dateFrom)
                                THEN chunks[c] ELSE view[c]]
    /\ dateFrom' = next
    /\ UNCHANGED vars

SyncNext ==
    \/ Next /\ UNCHANGED <<view, dateFrom>>
    \/ \E next \in 0 .. now : Poll(next)

SyncSpec == SyncInit /\ [][SyncNext]_svars

\* The cleaner runs on; the recipient need not poll.
FairSyncSpec == SyncSpec /\ CleanerFairness

-----------------------------------------------------------------------------
\* No registration, confirmation or read slips between two queries: whatever
\* of a present entry the client has not seen, its next query returns it.
\* The filter is inclusive and every writer stamps UpdatedAt inside the lock.
NothingMissed ==
    \A c \in Slots :
        /\ chunks[c] # None
        /\ chunks[c].RecipientID = Watched
        /\ view[c] # chunks[c]
        => c \in GetChunksByRecipient(Watched, dateFrom)
=============================================================================
